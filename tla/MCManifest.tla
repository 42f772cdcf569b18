----------------------------- MODULE MCManifest -----------------------------
(* A small manifest: two directory names, before and after a file name in the *)
(* natural order; files with known and with null metadata, directories null.  *)
EXTENDS Manifest

CONSTANTS FileSizes,   \* sizes of the files added
          DirSizes     \* sizes of the directories added

MCEntry(x, m, d, size) ==
  [name |-> x, depth |-> d, mode |-> m, size |-> size, id |-> NilId, link |-> NoLink,
   timestamp |-> IF size = NullSize THEN NullTimestamp ELSE 7]

MCKnown == {1}
MCNull == {NullSize}
MCKnownOrNull == {NullSize, 1}

MCNewEntries ==
  {MCEntry(x, "file", d, size) : x \in Names \ DirNames, d \in 0..MaxDepth, size \in FileSizes}
    \cup {MCEntry(x, "dir", d, size) : x \in DirNames, d \in 0..MaxDepth, size \in DirSizes}
=============================================================================
