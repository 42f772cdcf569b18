------------------------------ MODULE Replicas ------------------------------
(***************************************************************************)
(* Two replicas of a manifest, edited independently, that merge each other's *)
(* state with Merge from time to time, in any order.  A replica is held as   *)
(* the tree of its manifest.                                                 *)
(***************************************************************************)
EXTENDS Merge

CONSTANTS Start,         \* trees both replicas may start from
          EditPaths,     \* paths at which a replica is edited
          FileVersions,  \* what an edit may put at the path of a file
          DirVersions,   \* and at that of a directory
          MaxEdits       \* bound: edits

ASSUME ReplicasAssumption ==
  /\ \A t \in Start : WellFormed(t)
  /\ \A p \in EditPaths : IsPath(p)
  /\ \A v \in FileVersions \cup DirVersions : v.mode \in Modes /\ v.timestamp \in Nat
  /\ MaxEdits \in Nat

VARIABLES base,     \* the last state both replicas have in their past
          replica,  \* the tree of each side
          edits     \* number of edits made

vars == <<base, replica, edits>>

Sides == {1, 2}
Other(s) == 3 - s

Init ==
  /\ base \in Start
  /\ replica = [s \in Sides |-> base]
  /\ edits = 0

VersionsAt(p) == IF Last(p) \in DirNames THEN DirVersions ELSE FileVersions

EntryAt(p, v) ==
  [name |-> Last(p), depth |-> Len(p) - 1, mode |-> v.mode, timestamp |-> v.timestamp,
   size |-> NullSize, id |-> v.id, link |-> v.link]

Edit(s, t) ==
  /\ edits < MaxEdits
  /\ edits' = edits + 1
  /\ replica' = [replica EXCEPT ![s] = t]
  /\ UNCHANGED base

\* A file or directory is added or changed.
Put(s, p, v) ==
  /\ StrictlyAbove(p) \subseteq DOMAIN replica[s]
  /\ Edit(s, Over([q \in {p} |-> EntryAt(p, v)], replica[s]))

\* An entry goes with all that is below it.
Delete(s, p) ==
  /\ p \in DOMAIN replica[s]
  /\ Edit(s, [q \in {x \in DOMAIN replica[s] : p \notin Above(x)} |-> replica[s][q]])

\* Side s merges the other side's state into its own.  From then on that state
\* is in the past of both.
Pull(s) ==
  /\ UNCHANGED edits
  /\ base' = replica[Other(s)]
  /\ replica' = [replica EXCEPT ![s] = MergeTrees(base, replica[s], replica[Other(s)])]

Next ==
  \E s \in Sides :
    \/ \E p \in EditPaths : \E v \in VersionsAt(p) : Put(s, p, v)
    \/ \E p \in EditPaths : Delete(s, p)
    \/ Pull(s)

Spec == Init /\ [][Next]_vars

\* Both sides keep merging.
FairSpec == Spec /\ \A s \in Sides : WF_vars(Pull(s))

-----------------------------------------------------------------------------
\* Equal for Merge.
Same(t, u) == DOMAIN t = DOMAIN u /\ \A p \in DOMAIN t : MergeEqual(t[p], u[p])

ClashesOf(s) == Clashes(base, replica[s], replica[Other(s)])

\* The replicas, and their common past, are trees.
TypeOK ==
  /\ edits \in 0..MaxEdits
  /\ DOMAIN replica = Sides
  /\ WellFormed(base)
  /\ \A s \in Sides : WellFormed(replica[s])

\* The list Merge returns is a clean manifest, from which the next merge reads
\* the very map it was rebuilt from: every entry finds its directory.
MergedIsClean ==
  \A s \in Sides :
    LET merge == Merge(Listing(base), Listing(replica[s]), Listing(replica[Other(s)]))
    IN /\ Clean(merge.merged)
       /\ PathMap(merge.merged) = MergeTrees(base, replica[s], replica[Other(s)])

\* Whichever side merges gets the same tree, when no conflict is between
\* versions of one timestamp.
SidesAgree ==
  (\A p \in ClashesOf(1) : replica[1][p].timestamp # replica[2][p].timestamp)
  => Same(MergeTrees(base, replica[1], replica[2]),
          MergeTrees(base, replica[2], replica[1]))

\* What a side added or changed since the common state is in the merge: at its
\* path or, of a conflict, at the conflict path, when that path was free.  Not
\* promised where the loser of another conflict goes.
EditsSurvive ==
  [][\A s \in Sides : Pull(s) =>
       \A t \in {replica[1], replica[2]} : \A p \in Fresh(base, t) :
         LET clash == p \in ClashesOf(s)
             Holds(q) == q \in DOMAIN replica'[s] /\ MergeEqual(replica'[s][q], t[p])
             free == /\ \A c \in ClashesOf(s) : ConflictPath(c) # p
                     /\ clash => \A x \in Sides : ConflictPath(p) \notin DOMAIN replica[x]
         IN free => Holds(p) \/ (clash /\ Holds(ConflictPath(p)))]_vars

\* What one side deleted, and the other did not touch, is gone after the merge,
\* but for a directory that something below it still needs.
DeletionsHold ==
  [][\A s \in Sides : Pull(s) =>
       \A t \in {replica[1], replica[2]} : \A p \in DOMAIN base \ DOMAIN t :
         /\ p \notin Fresh(base, replica[1]) \cup Fresh(base, replica[2])
         /\ \A c \in ClashesOf(s) : ConflictPath(c) # p
         /\ p \in DOMAIN replica'[s]
         => \E q \in DOMAIN replica'[s] : p \in StrictlyAbove(q)]_vars

\* A side that made no edit since the common state takes over the other's, and
\* meets no conflict.
FastForwards ==
  [][\A s \in Sides : Pull(s) /\ replica[s] = base =>
       /\ Same(replica'[s], replica[Other(s)])
       /\ Conflicts(base, replica[s], replica[Other(s)]) = {}]_vars

\* Replicas that keep merging each other's state agree in the end, once they
\* are no longer edited: conflicts do not breed conflicts.
Converges == <>[]Same(replica[1], replica[2])

=============================================================================
