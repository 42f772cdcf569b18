# Verification of libc4

libc4 identifies data by C4 IDs (SHA-512 digests in base58) and describes file
trees in c4m manifests. This directory holds TLA+ models of its code, TLC
configurations that check them on small instances, and TLAPS proofs. Paths below
are relative to the repository.

## The system

| component | code | state | operations |
| --- | --- | --- | --- |
| Manifest and tree index | `src/c4m/manifest.cpp`, `include/c4/c4m.hpp` | the flat list `entries_`, the lazily built `index_` | lookups, `AddEntry`, `RemoveEntry`, `MoveEntry`, `SortEntries`, `Canonicalize`, `Validate`, `ComputeC4ID` |
| Patches and Diff | `src/c4m/operations.cpp` | none; trees built for one call | `PatchDiff`, `ApplyPatch`, `Diff` |
| Merge | `src/c4m/operations.cpp` | none; the replicas and their base are the caller's | `Merge` |
| Patch chains | `src/c4m/operations.cpp`, `parser.cpp`, `encoder.cpp` | the file; the reader's section, mode, base and indent width | `Encode`, `EncodePatch`, `Parse`, `DecodePatchChain`, `ResolvePatchChain` |
| Identification | `src/c4/id.cpp`, `c4_identify_fd` in `src/c4/encoder.cpp` | one digest context per thread | `Identify` of a buffer, stream, file or descriptor, `Sum` |
| ID sets | `src/c4/tree.cpp` | the list `ids_` | `Append`, `TreeID` |
| Text formats | `entry.cpp`, `parser.cpp`, `safename.cpp`, `naturalsort.cpp`, base58 in `src/c4/encoder.cpp` | none | formatting and parsing of fields, names and IDs |
| Detection | `detect.cpp`, `IdentifyC4mAware` | none | `LooksLikeC4m`, `CanonicalizeC4m` |
| C API | `src/c4/encoder.cpp`, `include/c4/c4.h`, `c4m.h` | handles | wrappers |

The components interact by calls. Patches are differences of manifests and name
the states before and after by their C4 IDs; a chain is a file of patches, written
by one program and read, perhaps while it grows, by another; IDs of manifests are
digests of their text. There are no threads in the library. Concurrency comes from
its callers (several threads that identify data) and from programs that share a
chain file or merge each other's manifests. Nothing times out. Failures are a source of
data that fails, a digest call that fails, a file that ends early, and a writer that
stops within a patch and appends it once more.

The hard parts, which the properties are for:

* the tree is implied by the order of the list and the depth of its entries, so
  every mutator can move entries between directories without touching them;
* the index caches pointers into the list;
* one line of a patch can mean add, replace or remove, depending on the base;
* a bare ID line in a chain has three meanings, a file may end anywhere, and a patch
  may come twice or torn;
* a merge infers deletions from a base, and writes the losers of conflicts to paths
  that may be taken;
* names pass two escapes and a parser that looks for field boundaries, and are sorted
  in an order with special cases for digits;
* the text of an ID is computed in words whose products just fit;
* a chain has two readers with separate entry parsers;
* the digest context of a thread survives calls that failed half way.

`PROJECT.json` lists each hazard at its line with the properties that cover it.

## Modules

| module | models |
| --- | --- |
| `C4mEntry` | one entry, `IsDir`, `HasNullValues`, the comparisons of two entries |
| `ManifestTree` | what the code computes from a list of entries: index, paths (three ways), sort, propagation, C4 ID |
| `Manifest` | one `Manifest` object under any sequence of calls |
| `Patch` | `PatchDiff` and `ApplyPatch` as functions on trees, `Diff` |
| `PatchSession` | a sender and a receiver that exchange patches |
| `VersionLog` | abstract: what a chain promises its readers |
| `SecondParser` | the entry parser of patch chains: what it makes of the line of an entry |
| `PatchChain` | a writer, a growing file and a reader; the second decoder; c4m-aware identification; implements `VersionLog` |
| `Merge` | `Merge` as a function on trees |
| `Replicas` | two replicas that are edited and merge each other's state |
| `NaturalSort` | `NaturalLess` |
| `Names` | UTF-8, `SafeName`, `EscapeField`, their inverses |
| `EntryText` | an entry as a line: `Format`, `parseEntryFromLine` and `parseEntryLine` from the name on |
| `IDText` | `base58Encode`, `base58Decode`, `ID::String`, `ID::Parse`, limb by limb |
| `Digest` | threads that identify data with one digest context each |
| `IDs` | a set of IDs and its tree ID |
| `FoldFacts` | proved about folds, walks and recursions from the last index down, for any operator |
| `TreeProofs` | proved about `ManifestTree` and `Patch`: paths, lists and trees; the sort, propagation and C4 IDs; what a patch is and does |
| `ManifestProofs`, `PatchProofs`, `ChainProofs`, `ReplicasProofs`, `EntryTextProofs` | the theorems about `Manifest`, `PatchSession`, `PatchChain`, `Replicas` and `EntryText` |
| `IDProofs` | the theorems about `Digest`, `IDText` and `IDs` |
| `MC*` | instances for TLC |

`PatchSession` and `PatchChain` compose `Patch`, and `Replicas` composes `Merge`, with
the environment that uses it; all rest on `ManifestTree`. `EntryText` composes `Names`
with the line format. `SecondParser` is in two modules: `PatchChain` reads chains with it,
and `EntryText` holds it against the parser it stands for, byte by byte. `EntryText` and `IDText` stand apart: they are about the bytes
that the other modules leave out.

How data is abstracted:

* A name is its rank in the natural order, `DirNames` are those that end in `/`. A
  path is the sequence of names on it, which is what the strings the code
  concatenates amount to, since directory names end in `/`.
* `link` stands for target, hard link and flow link, of which a line has one: its kind
  and the text behind its operator.
* A digest is what was hashed: SHA-512 is taken to be free of collisions. The sum of
  two IDs is then determined by the set of the two.
* Pointers into `entries_` are indices. An index that belongs to another list is
  what a dangling pointer is in the code.
* A chain file is a sequence of lines. An entry line keeps its indentation, from
  which the reader recovers the depth with the width it detects. `Parse` reads a line as
  the entry it was written for: entries are those that come back so, as `RewriteKeeps` and
  `FieldsSurvive` have it. `ParseEntryLine` gives what the second decoder's parser
  reads, for any line: `NameText` says how a name is written, with its escapes and with a
  link it runs on over, and `TargetText` the same of a target; `ReadAlike` are the entries
  that both read alike. `EntryText` checks this against the bytes (`TwoParsers`), but
  for texts in a line that look like its end: a space and `c4`, the null marker or ` -> `
  in a name or target, or a slash within the name or within a flow target that a file's
  name runs on over. Of such texts the code makes still other entries, or throws; none of
  them is `ReadAlike`: a space is written with an escape, a flow link is never read alike,
  and no path has such a name.
* In `Merge` the code folds over all paths in the order of bytes and writes into a map;
  the model says what each path ends up with. The order matters at conflict paths only,
  and `LoserStays` states who writes last there.
* In `EntryText` a line begins at the name: mode, timestamp and size come before it and
  hold no byte that is escaped. An ID is a text that begins with `c4`, or the line is
  malformed. Hard link groups have one digit. A malformed line gives no entry, so nothing
  is written after it.
* In `IDText` the bases, the limb sizes and the word are CONSTANTS. The two directions
  are one machine, because the code has the same loop twice.
* The line of an entry counts `LineLen` bytes in the size of its directory.

How actions correspond to code: each public mutator of `Manifest` is one action of
that module; all lookups are the action `Lookup`, because the only state they touch
is the index; `SortEntries` inside `MoveEntry` is part of that action. `PatchDiff`
and `ApplyPatch` walk two trees recursively; the model says which paths each walk
reaches and what it does there. In `PatchChain` the reader takes one line per step,
and the writer puts one line into the file per step, so they interleave at every
line. `Retry` is a writer that stopped anywhere in its patch, or did not learn that it
was written, and appends all of it; what it wrote before stays. In `Replicas` a merge is
one step (`Pull`), since the code has no state between. In `IDText` a step is one pass
of an inner loop. In `Digest` every call to the digest library and every read is a step.

Some definitions are preceded by a variant that nothing uses (`AddEntryKeepingIndex`
before `AddEntry`): the definition with a plausible bug in it. `PROJECT.json` pairs
each property with the variant that breaks it, which shows that the property depends
on the code.

## Runs

| run | instance | shows |
| --- | --- | --- |
| `manifest` | 4 entries, depth up to 2, three names of which two are directories, one sorted before and one after the file | the index is never stale; the three path walks agree; sort keeps the tree and settles; remove and rename take the subtree and nothing else |
| `manifest_null` | 3 entries, two names, sizes known or null | null metadata propagates exactly as far as it must; the C4 ID does not depend on the order of the list or on whether propagated values are stored; sort loses only overridden entries |
| `manifest_move` | as `manifest` | violation: `MoveEntry` does not move to the new parent |
| `patch` | all ordered pairs of 57 manifests, three levels, directories with the ID of their content | the receiver holds the sender's manifest after each patch, and the IDs chain; patches are nested, free of duplicates and minimal; `Diff` and `PatchDiff` agree where a name stands for one path |
| `patch_unsealed` | the same without directory IDs | violation: a change below an unchanged directory entry deletes the directory |
| `chain` | five versions, one of which the second decoder misreads, chains of up to three, one patch appended once more from any point, a reader that starts over without end | no checkpoint of an undamaged chain is rejected; a checkpoint confirms committed versions only, also in a damaged one; a file that ends with a version gives that version; the two readers agree on every prefix whose lines they read alike, and up to the misread version where it comes later; the c4m-aware ID is that of the last version alone; the chain implements `VersionLog`; the reader catches up |
| `merge` | two replicas, three edits, files, a symlink, directories with flow links, timestamps that tie or not, a file that has the name of a conflict | edits survive; deletions hold; the merged list is a clean manifest; both sides compute the same tree; the replicas agree in the end |
| `text` | every kind of entry, names of up to three fragments of one to four bytes | every name comes back from its escapes; names that need no `SafeName` escape come back from a line; links and IDs come back whatever the name is; names have one order; the second entry parser gives back plain entries, as `Parse` does, and reads all others as `SecondParser` says |
| `text_names` | names with characters that `SafeName` escapes | violation: a tab comes back as a backslash and a `t` |
| `id_text` | all digests of four digits in base 4 and all texts of six in base 3 | no word wraps, no array overflows; digests and texts come back; only what is no ID is rejected |
| `digest` | two threads, inputs of two and three bytes in blocks of two, failures anywhere | every ID is of the call's own input; `Sum` commutes across threads |
| `tree_id` | up to six appended IDs of six | level-by-level pairing is the Merkle tree of the set |

The bounds. Four entries are enough for a directory with two children and a sibling, for
a directory in a directory, for a directory listed twice with a child between, and for
an entry that follows a subtree: the shapes in which entries change parents. Null
metadata needs a directory, a directory in it and a file. Manifests of three levels make
`PatchDiff` recurse into a directory in a directory on both sides, on one side, or not
at all. The version that is misread has a name with a space, a hard link of a group and
a flow link that hides the ID of its directory; it comes first, in the middle and last.
One directory of the chain versions has metadata of its own, which hides its content
from the checkpoints, and the other has null metadata, which does not. A chain of three
versions is the shortest in which a patch is applied to the result of a patch and in
which a closing ID is followed by the next opening one; one retry puts a torn patch of
every length, and a whole one, before the patch itself, and before another version.
Three edits let a replica edit before and after a merge, or both replicas edit one path
and one of them another; the conflict of a conflict file needs `f`, `f.conflict` and
`f.conflict.conflict`. The fragments of `text` are those bytes that the code compares
with, and what turns one of them into something else when it stands next to another: a
backslash, a space, brackets around a digit, the operators, `c4`, the currency sign, a
braille character and a byte that is no UTF-8. The base and limb sizes of `id_text` keep
what matters of the real ones: the products just fit the word, a limb holds several
digits, the top limb is not full, and there are more texts than digests. Its
`DecodeMaxLimbs` is the least that holds a digest; the code's array has room for any
text of 88 digits, so there only `RejectSize` can occur. Blocks of two bytes with inputs
of two and three put the end of the data on and off a block boundary. Six IDs give an
odd count at the first level, at the second, and at both (five). `MaxSize` keeps the
size of a directory that is propagated into another from growing without end; every
bound is a CONSTANT of its module.

`tree_id`, `text`, `text_names` and `id_text` set `CHECK_DEADLOCK FALSE`: a full set, a
name of `MaxRenames` fragments that is too long to write, and two finished conversions
have nothing left to do.

Fairness. The library does nothing on its own, so fairness is an assumption about its
callers and is made in two places only. `PatchChain`'s `FairSpec`: the writer writes what
it has committed, the reader finishes a pass (`Parse` is one call, a loop over the lines)
and starts another. Nothing obliges the writer to commit or to retry. `Replicas`'
`FairSpec`: both sides keep merging; nothing obliges anyone to edit, and the edits end
because `MaxEdits` ends them. Without a caller that merges again, or reads again, neither
`Converges` nor `CatchesUp` could be expected of the code. All other properties are
safety properties.

## What the violations say

Each is a disagreement between the code and a sentence of its own headers, comments
or tests, quoted in `PROJECT.json`:

* `MoveEntry` to another directory leaves the entry under the directory it follows
  in the list (`manifest.cpp:298`).
* `PatchDiff` writes an unchanged directory around a change below it, which
  `ApplyPatch` reads as its removal (`operations.cpp:182`). It needs directories whose
  entry does not change with their content, for instance without an ID.
* `formatName` escapes a name twice where `SafeName` has something to escape
  (`entry.cpp:19` and `:26`, `safename.cpp:255`), and the parser undoes it once.

## Disagreements

Further places where the code differs from its documentation, met while modelling and
left out of the runs' instances or preconditions. No run checks them now; each names the
instance that shows it.

* `SortEntries` strands the children of a directory that a later one of the same name
  overrides (`manifest.cpp:442`, against `c4m.hpp:117`): another directory takes them, or
  the end of the list. `SortSettles` is stated for lists that name each path once.
* `EncodePatch` drops nil IDs, and the manifest without entries has one
  (`operations.cpp:404`, against `c4m.hpp:268`): after a version that removes everything
  the next patch is merged into the one before, and `Parse` rejects the chain. Add `<<>>`
  to `Versions` and `NeverRejects` fails.
* `parseEntryLine`, with which the chain decoder reads entries, is not "the existing
  parser" (`operations.cpp:445`). It undoes no escape of names and targets; takes `->` for
  a symlink whatever follows, so that an outbound flow, the group of a directory's hard
  link and even the ID after an ungrouped one become targets; lets a file's name run on
  over ` ->1`, `<-` and `<>`; and drops the ID behind a directory's `<-` or `<>`. It loses
  `is_sequence` too; a name with ` c4` in it makes it throw, and one that ends in ` -` loses
  its ID. `ParseEntryLine` models the sentence before the last, the byte-level
  `parseEntryLine` all of it: without `ReadAlike`, `TwoParsers` fails for each.
  `DecodePatchChain` then gives another state than `Parse` for one file:
  `ResolveAgreesWithParse` and `StopAtResolvesVersion` ask for lines that both read alike.
* In a chain to an external base whose first patch is empty, Parse applies the first
  entries it finds as a patch to nothing, which sorts them, and `DecodePatchChain` takes
  them for the base and leaves them in the order of the patch (`operations.cpp:731`,
  `parser.cpp:456`). A version with a file that sorts after a directory violates
  `ResolveAgreesWithParse`, when the base is committed again before it.
* `Identify` takes a read error for the end of the stream (`id.cpp:62`, against
  `c4_id_test.cpp:204`). `StreamError` models it, and `OwnDigest` says what comes back.
* `Merge` writes the loser of a conflict to a path that may be taken
  (`operations.cpp:855`, against the comments at 820 and 853): a file of that path comes
  later in the loop and overwrites it, a directory came earlier and is overwritten.
  `LoserStays` models it; `EditsSurvive` asks for a free path.
* Of a U+FFFD in a name only the first byte is kept (`safename.cpp:172`, against
  `c4m.hpp:307`). `EscapesReverse` leaves such names out.
* A name that ends with a backslash, unless it is a directory's, swallows the separator
  and what follows it (`parser.cpp:80`). `FieldsSurvive` leaves such names out.
* `Diff` keys entries by name (`operations.cpp:322` to 326), so of files of one name in
  two directories one is compared, with whichever the other manifest has last.
  `DiffAgreesWithPatch` is stated where a name stands for one path.
* A directory whose name holds sequence notation loses `is_sequence` when it is written
  (`entry.cpp:23` always escapes brackets). `RewriteKeeps` leaves such entries out.
* A torn or repeated patch makes a chain unreadable for good: `Parse` rejects it at the
  next ID. `CatchesUp` is stated for chains without.
* Two headers describe `TreeID` as the ID of the concatenated digests
  (`include/c4/c4.hpp:78`, `c4.h:70`). The code computes a Merkle root, which is another
  ID from three elements on; `IDs` models the code.

## Proofs

Every action property and invariant that the passing runs check of `Manifest`, `PatchSession`,
`PatchChain`, `Replicas`, `Digest`, `IDText` and `IDs`, and the refinement of `VersionLog`, is also a
theorem, for all values of the constants that satisfy the named assumptions and
hypotheses. `PROJECT.json` lists the results; this section says how they are reached.

`FoldFacts` has an operator as its parameter and is instantiated for each operator that
the model folds with. A `FoldLeft` is a walk: a function from 0 to the length that
takes the step of the operator at each index (`FoldWalk`). A recursion from each entry
to later ones has one solution (`LaterExists`, `LaterOnce`), in the type of its steps
(`LaterTyped`). Induction is over the membership of numbers in a set (`NatInSet`), which
is first-order, since the provers cannot instantiate a theorem with an operator.

`TreeProofs` characterises full paths without recursion: `PathsOf(es, P)` says that P
gives a root its name and another entry the path of the last shallower entry before it,
with its name appended. `PathsUnique`: one P does. The stack of `EntryPaths`, the
padded stack of `ValidatePaths` and the parents of `BuildIndex` compute it
(`EntryPathsArePaths`, `ValidatePathsArePaths`, `IndexPaths`). `PathLess` orders the
paths of a tree strictly and totally (`LexOrder`) with subtrees in one piece
(`BetweenIsBelow`), so a written tree is nested and free of duplicates
(`ListingIsClean`) and is read back as it was (`ReadsBack`).

On sorting: `processLevel` calls itself on later indices only, so the recursion that
`SortOrder` chooses exists and is unique. A call emits, for every entry of its level
that no later one overrides, the entry and what the call for it emits. For a clean list
the result is a permutation whose walk keeps every path (`SortKeepsPaths`) and whose
siblings stand in order (`SortIsSorted`); two such lists of one tree are equal
(`OneSortedList`), so the sort depends on the tree alone (`SortGivesTree`) and sorting
again changes nothing. For any list, an index that a call has used is in its output or
overridden (`SortLosesOnly`). What `Canonicalize` stores is the one solution of the
equations that give a directory the sum and the latest of its children, again a
recursion to later indices. A sum over a set of children is counted as a set of pairs,
so that a bijection between two sets of children carries it over (`TotalCarries`); hence
the solution, and with it the C4 ID, depends on the tree alone (`IDOfTree`).

On patches: `PatchIsTree`, the patch is a tree, also below
added directories and around nested changes; `ApplyUndoesDiff`, if directories are the
same on both sides only when all below them is (`SealedTrees`, which directories with the
ID of their content satisfy), `ApplyPatchTree` makes the new tree from the old one and the
patch. What is new is exactly what is added, and what is gone has a removed directory at
or above it, both by taking the first path above that is missing on the other side
(`FirstOutside`); `applyPatchTree` then reaches exactly what `diffTree` compared, because
a sealed directory above a difference differs itself (`ReachedIsCompared`). The condition
is needed: it excludes exactly the entries of `Enclosing`, which the run `patch_unsealed`
shows to be lost.

`ManifestProofs`, for any names, entries and bounds. `IndexCoherent` is inductive as it
stands: mutators drop the index, and `Canonicalize`, which writes entries and keeps the
index, changes sizes and timestamps only, of which the index says nothing.
`EntriesTyped` is the invariant of the rest: the entries are a list of well-formed
entries with sizes from -1 on. Its hard steps are the sort, `MoveEntry`, which moves a
block by a difference of depths, and `Canonicalize`, whose sums must not be negative.
From it follow the invariants on nested or clean states (`WalksAlwaysAgree`,
`SortAlwaysSettles`, `NullsAlwaysInfect`, which goes down a path to the first directory
that is told its size) and the action properties (`SortAlwaysKeepsTree`,
`SortsLoseOnlyOverridden`, `IDsAlwaysStable`, `RemovesTakeSubtrees`,
`RenamesCarrySubtrees`). For the last two, the descendants that `DescendantsOf` finds in
the index are the entries that follow at a greater depth (`DescendantsAreBelow`); without
them the list keeps its paths (`PrunedIsClean`), and with another name at their head
their paths change at one level (`RenamedPaths`) and stay distinct because the new path
is free (`RenamedApart`).

`PatchProofs`, for any names: `PatchesAlwaysClean`, `PatchesAlwaysMinimal` and
`PatchesAgreeWithDiff` need only that the manifests are clean lists whose names say what
is a directory (`SessionAssumption`). `SessionsRoundTrip` and `SessionsChainIDs` suppose
in addition that the trees of any two manifests are so; `MCPatch` assumes the same, so
TLC evaluates it for the manifests of the run. Their invariant
`InStep` says that there is a chain of manifests, one more than patches are pending,
that begins with the receiver's, ends with the sender's, and of which each two
neighbours are what a pending patch was made of. `Receive` drops the first link: the
patch, written as a list and read back, is the patch tree (`ReadsBack`), applying it
gives the tree of the next manifest, and the sort of that tree is its sorted form.

`ChainProofs`, for any versions, chains of any length, and any point at which the file
is read. A version read after any patches is the sorted form of what the next patch
leads to (`VersionApplied`), a patch is read back from its lines with the indent width
it is written with (`PatchIsReadable`), and a reader's state is the fold of `ReadLineOf`
over a prefix of the file (`ReaderAt`). The text of a chain is a function of its history:
`Laid` gives each line of the file a version and a place in that version's text, and
says where a writer that appended a patch again went back to the patch's first line.
The invariant `ChainHolds` has a part for each of the interacting states: the file with what
is queued is laid out so (`HistoryHolds`), and the reader is the fold of the lines it has
taken. `ParsedAt` says what the fold is at each place of the text: which version the
manifest holds, what of the next one is in the section, and which of the three meanings
the next ID has. From it follow `RejectsNothing`, `AwareIDIsOfState` and the simulation
`ChainIsVersionLog`, for which the IDs of a prefix are counted (`IDsCounted`), since a
reader's place in the log is half their number. `ConfirmsCommitted` and
`ResolvesWholeVersion` hold with retries too: a torn patch followed by the whole of it
gets past the ID between them only if what the torn one made has the ID of the version
before. `Telling` says that it then is that version: an ID does not cover what lies below
a directory with metadata of its own, so a torn patch could pass its checkpoint otherwise.
Hypotheses are `Chainable`, that no version is empty (otherwise the nil ID is dropped and
`NeverRejects` is false, see above) and trees are sealed, and, with retries, `Telling`.
On the second reader: `Beside` relates the two after any line. They have the same
section, width and first-line flag, and what the sections resolve to that only the
decoder still holds is what Parse has in its manifest. An entry line keeps it, although
the decoder guesses a width of two for lines that are not indented (`EntryBeside`), and
so does an ID (`IdBeside`), where the decoder appends a section exactly when Parse
applies one (`SectionEnds`). This needs that the file starts with an entry and that the lines are read alike
(`Plain`: every escape and link that `SecondParser` would change is absent), but nothing
of their order, so `ReadersAgree` holds for torn and repeated patches too. What is read is
the entries of versions, with another depth at most (`LaidEntry`); so the hypotheses are
about versions and prefixes and not about the whole chain. `Sections` counts the sections
after each line of the text, which no misread line changes, and says of the c-th that it
resolves to the c-th version if the entries up to there are read alike (`AlikeUpTo`).
As `Beside` says what they all resolve to at that line, `StopsAtVersion` follows without
another look at the patches. `MCChain` assumes `Chainable` and `Telling`, so TLC evaluates
them for the versions of the run; its misread version is `Chainable` as the others.

`ReplicasProofs`, for any names, starting trees, edits and number of merges. The walk
over paths is given pointwise, so no induction is needed, and the proofs are case
analyses over which of base, local and remote have a path and whether it changed.
`ReplicaTypes` (`TypeOK`) is inductive. Its step for `Pull` needs that the entries of
`Merged` are named after their paths (`AtPath`), that a conflict path is a path because
`ConflictName` keeps directories directories, and that `EnsureDirs` closes the domain
under `StrictlyAbove`, for which prefixes of prefixes must be prefixes. `MergesClean` is
`ListingIsClean` and `ReadsBack` of a replica's tree. `ReplicasKeepEdits`,
`ReplicasKeepDeletions` and `ReplicasFastForward` are action properties of `Pull` and
follow from `TypeOK` in the state before; the last, that a side without edits takes over
the other's state, is proved only and in no run. `ReplicasAgree` rests on the symmetry
of `Merged` in local and remote: fresh, clash and deletion are symmetric, `Winner` and
`Loser` are when timestamps differ, and two versions that are fresh and no clash are
equal for `MergeEqual`. Assumed are `ReplicasAssumption`, `ConflictNameAssumption`
(adding `.conflict` is injective and keeps the final slash) and `NamesAssumption`.

`IDProofs` about `Digest`, for any threads, inputs and block size, with failures anywhere.
`OwnDigest` speaks of finished calls only and is not inductive. The invariant `Inv`
adds, for every call under way, what its thread's context holds (`Owned`): after the
initialisation it is the first `taken` bytes of the call's text, and when the call is
ready to finish `taken` is all of it unless the stream failed. Nothing is said of a
context before the initialisation, since an abandoned call leaves it dirty.
`UpdateExtends` and `FeedKeeps` carry the prefix over an update; `OneThread` reduces a
step to the thread that takes it. `SumAlwaysCommutes` uses the same invariant: what a
context holds when a sum finishes is the text of the smaller ID and then the larger.
Assumed are `DigestAssumption` (bytes are numbers, inputs are sequences of them, a block
is not empty) and the modelling assumption that a digest is what was hashed.

`IDProofs` about `IDText`: `IDTextNeverOverflows`, for any bases, limb sizes, lengths and word with
`Pow58 * ByteBase <= Word` and `Pow256 * TextBase <= Word`, which are the two inequalities
in the comments of `encoder.cpp` (44 to 46, 112 to 114) and hold for the code's numbers.
The invariant adds that the input holds digits and that limbs below `j` are already
reduced; the one arithmetic step (`LimbStep`) bounds limb times base plus carry by power
times base, so that the new limb is below the power and the new carry below the base.
It does not use that the powers are powers, nor any length.

The other three are about the number in the limbs. A power is a fold over its factors
(`Pow`), and the value of digits is a fold too (`Value`), so both follow `FoldFacts`.
The invariant `NInv` says that the limbs, with the carry added at `j`, hold the value of
the digits already read. `Reading` states it in the middle of a pass: the limbs below `j`
are multiplied, those from `j` on are not yet, and `Holds` gives the numbers that the
tails of the array stand for, which replaces a sum over limbs by one equation per limb. It
is kept by reading a digit (`HoldsRead`), by each multiplication (`HoldsMultiply`) and by
a new limb (`HoldsGrow`). At the end of a pass `ExtractIs` gives the digits of that
number: the top limb without leading zeros, which is where a zero byte or a leading `1`
could be lost, the limbs below it in full, and `PadIs` restores what was dropped. Digits
of one value and one length are the same (`ValueOnce`), from which `TextIsOfOneID`
follows for both orders of conversion. `EncoderArrayHolds` and `RejectsNoID` rest on
`HoldsPower`: n limbs with a top limb above zero hold at least the power to the n - 1, so
a number below every digest's or text's bound has no more limbs than the arrays hold.
Assumed is `SizeAssumption`: the limb sizes are those powers, every digest's number is
that of some text, and each array has room for the digits of its direction
(9 * 10 >= 88, 7 * 10 >= 64).

`TreeIDsAreMerkleRoots` in the same module is about `IDs`. `Roots` is the function of roots of ranges that `MerkleRoot` chooses; it exists
because a range is divided into shorter ones (`RootsExist`). `LevelOf` says that a level
holds the roots of 2^t IDs each, but for the last, and `NextLevel` that pairing keeps it:
`PairOf` for two neighbours, whose ranges together are divided where the pairing joined
them (`HalfIs`), `OddOf` for an odd last one. That `Sum` of two neighbours is never the
case of equal IDs needs `RootTells`: different ranges have different roots. There are as
many levels as IDs at most (`LevelsEnd`). Sorting and dropping duplicates gives each ID of
the set one place (`InOrderIs`). Assumed is that IDs are distinct numbers and none is nil,
and, in the model, that SHA-512 has no collisions.

`EntryTextProofs`, for all byte strings and either sign of `char`: `NaturalLessIsTotal`.
A name is read as tokens, its end, a byte of text or a whole run of digits, and
`TokenOrder` is that tokens have one order. For runs this is `DigitsOrder`: by the number
of significant digits, then by the first that differs (`ListOrder`), then by length,
and two runs that tie in all three are the same zeros and digits (`SameRun`).
`LessFromIs` says that the comparison from a byte on is that of the tokens there or, if
they are equal, of what comes after them; `TokenBytes` that equal tokens are equal bytes.
The order of the names from a byte on (`OrderedFrom`) then follows from that further on,
by induction on the distance from the end. `NamesHaveRanks` counts the names before each.

`EscapedNamesComeBack`, in the same module, is for every byte string without U+FFFD. What
the UTF-8 decoder, `UnsafeName` and `UnescapeField` read from a place on depends on what
they read further on (`Later`, `Solves` of `FoldFacts`), so each is unfolded one character
at a time; `SafeName` and `Escaped` are folds. UTF-8 comes first: what `Utf8` writes, and any
character the decoder accepts, is decoded as that character whatever follows it
(`IsChar`, `RuneIsUtf8`, `BrailleIsChar`). `Reads(t, b)` says that `UnsafeName` reads the
text `t` as the bytes `b`, whatever comes after it; it is closed under concatenation
(`ReadsConcat`) and holds of a plain character, of a backslash escape and of a run of
braille between currency signs (`ReadsChar`, `ReadsEscape`, `ReadsRun`). The invariant of
the loop of `SafeName` (`Written`) is that what was written reads as some bytes, and these
followed by the pending ones are the name so far. `FieldReads` is the same for
`UnescapeField`, for a backslash, which may go on into what follows, only before text that
does not begin with a byte that fields escape (`PlainStart`). Escaped text never begins so,
whatever it is the escape of. U+FFFD is left out because of it only the first byte is kept
(see Disagreements).

`EscapesAlwaysReverse` and `NamesAreAlwaysInOrder` state this and the order for every
entry that the specification reaches: names are changed by renames and by whatever the
parser makes of a line. They need `EntryIsTyped`, that an entry read from a line has again
bytes for a name, a target and a flow target, a group from -1 to 9 and an ID or
`Malformed`, for which each of the recursions of the parser must stay within the line.
Assumed is `TextAssumption`: fragments, other names and IDs are byte strings, and an entry
has fields of the types that `Entry` declares in `c4m.hpp`.

Only model-checked:

* of the chain, `ResolveAgreesWithParse` for chains to an external base, which depends on
  the versions (see Disagreements);
* that the second entry parser is what `SecondParser` says of it (`TwoParsers`);
  the proofs about chains rest on `SecondParser`;
* of `EntryText` that a whole line is read as what was written (`RewriteKeeps`,
  `FieldsSurvive`), which needs that no prefix of an escaped name and the link after it
  looks like the end of a field;
* `Converges` and `CatchesUp`, which are liveness properties under fairness.

## Plan

1. Corruption of chains beyond torn and repeated patches: a line lost or exchanged; what
   checkpoints detect, given that they cover the root entries only.
2. Composition of `EntryText` with `PatchChain`: a file that ends in the middle of a
   line, malformed lines, for which the parsers throw, directives, which one reader
   rejects and the other skips.
3. Proofs of `RewriteKeeps` and `FieldsSurvive`, on what is proved of the escapes.

Until then a chain file ends between lines only, and its lines are well formed.

Not modelled and not planned: the C API wrappers, `WriteFile` and file opening (plain
I/O), the filters, mode strings, timestamps and sizes as text, sequences (a stub),
SHA-512 itself. Two readers that race for the index of one `Manifest`
(`manifest.cpp:131`): the type promises no thread safety, and what a race on a shared
pointer does is undefined.
