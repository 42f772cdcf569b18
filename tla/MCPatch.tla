------------------------------ MODULE MCPatch -------------------------------
(* Manifests of up to one file and one directory at the root, the directory   *)
(* with up to two files and one directory, that one with up to one file.      *)
EXTENDS PatchSession

CONSTANT Sealed    \* directories carry the ID of their content

MCFile(x, version) ==
  [name |-> x, depth |-> 0, mode |-> "file", link |-> NoLink,
   id |-> <<IF version = 3 THEN 1 ELSE version>>,
   timestamp |-> IF version = 3 THEN 2 ELSE 1, size |-> 1]

MCDir(x, content) ==
  [name |-> x, depth |-> 0, mode |-> "dir", link |-> NoLink,
   timestamp |-> NullTimestamp, size |-> NullSize,
   id |-> IF Sealed THEN ComputeC4ID(content) ELSE NilId]

\* The listing of one directory: the entry list of each name, in turn.
MCFileChoices(x, versions) == {<<>>} \cup {<<MCFile(x, v)>> : v \in versions}

MCBelow(content) == [i \in DOMAIN content |-> [content[i] EXCEPT !.depth = @ + 1]]

MCDirChoices(x, contents) ==
  {<<>>} \cup {<<MCDir(x, c)>> \o MCBelow(c) : c \in contents}

MCInner == MCFileChoices(1, {1})

MCMiddle ==
  {f \o g \o d : f \in MCFileChoices(1, {1, 2}), g \in MCFileChoices(2, {1}),
                 d \in MCDirChoices(4, MCInner)}

\* Version 3 of a file differs from version 1 in its timestamp only.
MCManifests ==
  {f \o d : f \in MCFileChoices(1, {1, 3}), d \in MCDirChoices(3, MCMiddle)}

\* Directories that carry the ID of their content seal it.
ASSUME MCSealsAssumption ==
  Sealed => \A old, new \in MCManifests :
              SealedTrees(BuildPatchTree(old), BuildPatchTree(new))
=============================================================================
