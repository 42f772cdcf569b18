----------------------------- MODULE MCReplicas -----------------------------
(* Names in byte order: 1 "d.conflict/", 2 "d/", 3 "f", 4 "f.conflict",       *)
(* 5 "f.conflict.conflict".  A file at the root, and two directories with a    *)
(* file in the inner one.                                                     *)
EXTENDS Replicas

\* No conflict is ever at 1 or 5, where the set of names ends.
MCConflictName == <<2, 1, 4, 5, 3>>

MCVersion(mode, id, t, link) == [mode |-> mode, id |-> id, timestamp |-> t, link |-> link]

MCOldFile == MCVersion("file", <<1>>, 1, NoLink)
MCOldDir == MCVersion("dir", NilId, 1, NoLink)

\* New content under two timestamps, and a symlink.
MCFileVersions ==
  {MCVersion("file", <<2>>, 1, NoLink), MCVersion("file", <<2>>, 2, NoLink),
   MCVersion("symlink", NilId, 2, LinkTo(<<"t">>))}

\* Directories with a flow link.
MCDirVersions ==
  {MCVersion("dir", NilId, 1, [kind |-> "outbound", text |-> <<"nas:">>]),
   MCVersion("dir", NilId, 2, [kind |-> "inbound", text |-> <<"nas:">>])}

MCTree(S) ==
  [p \in S |-> EntryAt(p, IF Last(p) \in DirNames THEN MCOldDir ELSE MCOldFile)]

\* The second start has a file that already bears the name of a conflict.
MCStart == {MCTree({<<3>>, <<2>>, <<2, 2>>, <<2, 2, 3>>}), MCTree({<<3>>, <<4>>})}
MCEditPaths == {<<3>>, <<4>>, <<2>>, <<2, 2, 3>>}
=============================================================================
