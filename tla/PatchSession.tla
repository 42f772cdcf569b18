---------------------------- MODULE PatchSession ----------------------------
(***************************************************************************)
(* Two parties that keep a manifest in step through patches: the sender      *)
(* edits its copy and sends PatchDiff from the state it sent last, the       *)
(* receiver applies patches in order with ApplyPatch.  Several patches may   *)
(* be under way.                                                             *)
(***************************************************************************)
EXTENDS Patch

CONSTANTS Manifests,    \* the manifests the sender's tree goes through
          MaxPending    \* bound: patches under way

ASSUME SessionAssumption ==
  /\ \A m \in Manifests : HasEntries(m) /\ Clean(m)
  /\ MaxPending \in Nat

VARIABLES sent,         \* the sender's manifest at its last patch
          pending,      \* PatchResults sent and not yet applied
          received      \* the receiver's manifest

vars == <<sent, pending, received>>

Init ==
  /\ sent \in Manifests
  /\ pending = <<>>
  /\ received = SortEntries(sent)

Send ==
  /\ Len(pending) < MaxPending
  /\ \E m \in Manifests :
       /\ pending' = Append(pending, PatchDiff(sent, m))
       /\ sent' = m
  /\ UNCHANGED received

Receive ==
  /\ pending # <<>>
  /\ received' = ApplyPatch(received, Head(pending).patch)
  /\ pending' = Tail(pending)
  /\ UNCHANGED sent

Next == Send \/ Receive

Spec == Init /\ [][Next]_vars

-----------------------------------------------------------------------------
\* A receiver that has applied everything holds the sender's manifest in
\* sorted form: ApplyPatch(old, PatchDiff(old, new)) is new.
RoundTrip == pending = <<>> => received = SortEntries(sent)

\* The receiver, before it applies a patch, is in the state the patch names
\* as its old one, and ends in the one it names as its new one.
IDsChain ==
  [][Receive =>
       /\ ComputeC4ID(received) = Head(pending).oldID
       /\ ComputeC4ID(received') = Head(pending).newID]_vars

\* A patch can be written down and read back: it is nested, so ApplyPatch
\* finds the parent of every entry, and it names no path twice.
PatchesClean == \A k \in DOMAIN pending : Clean(pending[k].patch)

\* A patch is as small as the change: every entry in it stands for a path at
\* which, or below which, old and new manifest differ.
PatchesMinimal ==
  [][Send =>
       LET old == BuildPatchTree(sent)
           new == BuildPatchTree(sent')
           patch == Last(pending').patch
           Same(q) == /\ q \in DOMAIN old \cap DOMAIN new
                      /\ EntriesIdentical(old[q], new[q])
       IN \A i \in DOMAIN patch :
            \E q \in DOMAIN old \cup DOMAIN new :
              EntryPaths(patch)[i] \in Above(q) /\ ~Same(q)]_vars

\* Diff and PatchDiff compare with two equalities, one by name and one by path.
\* When a name stands for one path they agree: what Diff calls added, removed
\* or modified is in the patch or below an entry of it, and what is in the patch
\* is called one of the three, unless only metadata changed that Diff ignores.
DiffAgreesWithPatch ==
  [][Send =>
       LET old == BuildPatchTree(sent)
           new == BuildPatchTree(sent')
           diff == Diff(sent, sent')
           patched == Range(EntryPaths(Last(pending').patch))
           NamesOf(paths) == {Last(p) : p \in paths}
           Entered(entries) == {e.name : e \in entries}
       IN (\A p, q \in DOMAIN old \cup DOMAIN new : Last(p) = Last(q) => p = q) =>
            /\ Entered(diff.added) = NamesOf(DOMAIN new \ DOMAIN old)
            /\ Entered(diff.removed) = NamesOf(DOMAIN old \ DOMAIN new)
            /\ Entered(diff.modified) \subseteq NamesOf(patched)
            /\ \A p \in DOMAIN old \cup DOMAIN new :
                 p \notin DOMAIN old \cap DOMAIN new => Above(p) \cap patched # {}
            /\ \A p \in patched :
                 \/ Last(p) \in Entered(diff.added \cup diff.removed \cup diff.modified)
                 \/ EntriesEqual(old[p], new[p])]_vars
=============================================================================
