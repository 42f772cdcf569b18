----------------------------- MODULE PatchChain -----------------------------
(***************************************************************************)
(* A patch chain file: a writer appends the first version (Manifest::Encode) *)
(* and then a patch for every further one (EncodePatch of PatchDiff), line   *)
(* by line; a reader runs Manifest::Parse over the file as far as it has     *)
(* been written, and may meet the end of the file after any line.  A writer  *)
(* that stopped before it knew its patch to be in the file may append the    *)
(* whole patch once more.                                                    *)
(***************************************************************************)
EXTENDS Patch

CONSTANTS Versions,     \* the manifests a version can be
          MaxVersions,  \* bound: versions in a chain
          MaxRetries,   \* bound: patches appended once more
          NameText(_, _),  \* the text of a name, and of the link behind it, as a name
          TargetText(_)    \* the text of a link's target

ASSUME ChainAssumption ==
  /\ \A v \in Versions : HasEntries(v) /\ Clean(v)
  /\ MaxVersions \in Nat
  /\ MaxRetries \in Nat

VARIABLES external,     \* the first version is not in the file
          log,          \* the versions, as the writer has them
          queue,        \* lines of the last version not yet in the file
          file,         \* the lines of the file
          pos,          \* the number of lines the reader has read
          reader,       \* the locals of Manifest::Parse
          retries       \* patches appended once more

vars == <<external, log, queue, file, pos, reader, retries>>

-----------------------------------------------------------------------------
(* The writer.                                                               *)

IdLine(id) == [kind |-> "id", id |-> id]

\* Format(2): two spaces for each level.
EntryLine(e) == [kind |-> "entry", indent |-> 2 * e.depth, entry |-> EntryAtDepth(e, 0)]

EntryLines(es) == [i \in DOMAIN es |-> EntryLine(es[i])]

\* A nil ID is not written.
IdLines(id) == IF id = NilId THEN <<>> ELSE <<IdLine(id)>>

EncodeUnsorted(m) == EntryLines(m)

Encode(m) == EntryLines(SortEntries(m))

EncodePatch(pr) == IdLines(pr.oldID) \o EntryLines(pr.patch) \o IdLines(pr.newID)

\* The text of version v after the versions in earlier.
Block(earlier, v) ==
  IF earlier = <<>> THEN Encode(v) ELSE EncodePatch(PatchDiff(Last(earlier), v))

\* The writer finishes a version before it starts the next.
Commit ==
  /\ Len(log) < MaxVersions
  /\ queue = <<>>
  /\ \E v \in Versions :
       /\ log' = Append(log, v)
       /\ queue' = Block(log, v)
  /\ UNCHANGED <<external, file, pos, reader, retries>>

Flush ==
  /\ queue # <<>>
  /\ file' = Append(file, Head(queue))
  /\ queue' = Tail(queue)
  /\ UNCHANGED <<external, log, pos, reader, retries>>

\* What is in the file of a patch stays there: nothing of it can be taken back.
Retry ==
  /\ Len(log) > 1
  /\ retries < MaxRetries
  /\ LET block == Block(Front(log), Last(log))
     IN queue # block /\ queue' = block
  /\ retries' = retries + 1
  /\ UNCHANGED <<external, log, file, pos, reader>>

-----------------------------------------------------------------------------
(* The reader: Manifest::Parse.                                              *)

Fresh ==
  [status |-> "reading", m |-> <<>>, base |-> NilId, section |-> <<>>,
   firstLine |-> TRUE, patchMode |-> FALSE, indentWidth |-> 0]

ApplySectionKept(r) ==
  [r EXCEPT !.m = IF ~r.patchMode THEN @ \o r.section
                  ELSE IF r.section = <<>> THEN @
                  ELSE ApplyPatch(@, r.section)]

\* applyChainSection.
ApplySection(r) ==
  [r EXCEPT !.m = IF ~r.patchMode THEN @ \o r.section
                  ELSE IF r.section = <<>> THEN @
                  ELSE ApplyPatch(@, r.section),
            !.section = <<>>]

\* The first indented line sets the width of an indentation level.
Width(width, line) == IF width = 0 THEN line.indent ELSE width

DepthOf(width, line) == IF line.indent = 0 THEN 0 ELSE line.indent \div width

ReadEntry(r, line) ==
  LET width == Width(r.indentWidth, line)
  IN [r EXCEPT !.section = Append(@, EntryAtDepth(line.entry, DepthOf(width, line))),
               !.indentWidth = width,
               !.firstLine = FALSE]

ReadIdOpening(r, id) ==
  IF r.firstLine /\ r.section = <<>>
  THEN [r EXCEPT !.base = id, !.firstLine = FALSE]
  ELSE LET applied == [ApplySection(r) EXCEPT !.patchMode = TRUE, !.firstLine = FALSE]
           matches == ComputeC4ID(applied.m) = id
       IN [applied EXCEPT !.status =
             IF applied.base = NilId /\ r.section = <<>> /\ ~matches THEN "rejected" ELSE @]

\* A bare ID on the first line is a reference to an external base.  Any later
\* one closes a section and names the state after it, which is checked unless
\* the base is external.
ReadId(r, id) ==
  IF r.firstLine /\ r.section = <<>>
  THEN [r EXCEPT !.base = id, !.firstLine = FALSE]
  ELSE LET applied == [ApplySection(r) EXCEPT !.patchMode = TRUE, !.firstLine = FALSE]
           matches == ComputeC4ID(applied.m) = id
       IN [applied EXCEPT !.status =
             IF applied.base = NilId /\ ~matches THEN "rejected" ELSE @]

ReadLineOf(r, line) ==
  IF line.kind = "id" THEN ReadId(r, line.id) ELSE ReadEntry(r, line)

StartPassInPlace ==
  /\ reader.status # "reading"
  /\ reader' = Fresh
  /\ UNCHANGED <<external, log, queue, file, pos, retries>>

StartPass ==
  /\ reader.status # "reading"
  /\ reader' = Fresh
  /\ pos' = 0
  /\ UNCHANGED <<external, log, queue, file, retries>>

ReadLine ==
  /\ reader.status = "reading"
  /\ pos < Len(file)
  /\ reader' = ReadLineOf(reader, file[pos + 1])
  /\ pos' = pos + 1
  /\ UNCHANGED <<external, log, queue, file, retries>>

\* The section at the end of the file is applied without a check.
ReadEof ==
  /\ reader.status = "reading"
  /\ pos = Len(file)
  /\ reader' = [ApplySection(reader) EXCEPT !.status = "done"]
  /\ UNCHANGED <<external, log, queue, file, pos, retries>>

\* A file of patches to a version kept elsewhere starts with that one's ID.
Init ==
  /\ \/ external = FALSE /\ log = <<>>
     \/ external = TRUE /\ \E v \in Versions : log = <<v>>
  /\ queue = <<>>
  /\ file = <<>>
  /\ pos = 0
  /\ reader = [Fresh EXCEPT !.status = "idle"]
  /\ retries = 0

Next == Commit \/ Flush \/ Retry \/ StartPass \/ ReadLine \/ ReadEof

Spec == Init /\ [][Next]_vars

\* The writer writes what it has committed, and the reader reads the file again
\* and again, each pass to its end.  The last conjunct is weak fairness of
\* reading, which is enabled in every state of a pass, with the guard in place
\* of ENABLED.
FairSpec ==
  /\ Spec
  /\ WF_vars(Flush)
  /\ WF_vars(StartPass)
  /\ []<>(reader.status # "reading") \/ []<><<ReadLine \/ ReadEof>>_vars

-----------------------------------------------------------------------------
(* DecodePatchChain and ResolvePatchChain: the second reader of the format,   *)
(* with an entry parser of its own.                                          *)

\* The text of an ID is none that a target has otherwise.
INSTANCE SecondParser WITH
  EndsInSlash <- LAMBDA name : name \in DirNames,
  IDText <- LAMBDA id : <<"id", id>>

NewSection(id) == [baseID |-> id, entries |-> <<>>]

DecodeLine(d, line) ==
  IF line.kind = "id"
  THEN IF d.current.entries = <<>> /\ (d.firstLine \/ d.sections # <<>>)
       THEN [d EXCEPT !.current.baseID = line.id, !.firstLine = FALSE]
       ELSE [d EXCEPT !.sections = IF d.current.entries = <<>> THEN @
                                   ELSE Append(@, d.current),
                      !.current = NewSection(line.id),
                      !.firstLine = FALSE]
  ELSE LET width == Width(d.indentWidth, line)
           \* an indented line before any width is known counts as width 2
           depth == DepthOf(IF width = 0 THEN 2 ELSE width, line)
       IN [d EXCEPT !.current.entries =
                       Append(@, EntryAtDepth(ParseEntryLine(line.entry), depth)),
                    !.indentWidth = width,
                    !.firstLine = FALSE]

DecodeEofDropping(d) == d.sections

DecodeEof(d) ==
  IF d.current.entries = <<>> THEN d.sections ELSE Append(d.sections, d.current)

DecodePatchChain(lines) ==
  DecodeEof(FoldLeft(DecodeLine,
                     [sections |-> <<>>, current |-> NewSection(NilId),
                      firstLine |-> TRUE, indentWidth |-> 0], lines))

LimitFromZero(sections, stopAt) ==
  IF stopAt > 0 THEN Min({stopAt + 1, Len(sections)}) ELSE Len(sections)

\* stopAt = 0 means all sections.
Limit(sections, stopAt) ==
  IF stopAt > 0 THEN Min({stopAt, Len(sections)}) ELSE Len(sections)

ResolvePatchChain(sections, stopAt) ==
  IF sections = <<>> THEN <<>>
  ELSE FoldLeft(LAMBDA m, section : ApplyPatch(m, section.entries),
                sections[1].entries, SubSeq(sections, 2, Limit(sections, stopAt)))

-----------------------------------------------------------------------------
(* c4m-aware identification of the file: the ID of the manifest in canonical  *)
(* form if the data is one, and of the data otherwise.                        *)

ParseFile(lines) ==
  ApplySection(FoldLeft(LAMBDA r, line : IF r.status = "rejected" THEN r ELSE ReadLineOf(r, line),
                        Fresh, lines))

CanonicalizeC4mUnresolved(lines) ==
  Encode(FoldLeft(LAMBDA r, line : IF line.kind = "entry" THEN ReadEntry(r, line) ELSE r,
                  Fresh, lines).section)

\* Nothing when Parse throws or there is no entry.
CanonicalizeC4m(lines) ==
  LET r == ParseFile(lines)
  IN IF r.status = "rejected" \/ r.m = <<>> THEN <<>> ELSE Encode(r.m)

\* A line of either kind begins with a letter of a mode: an ID with c.
LooksLikeC4m(lines) == lines # <<>>

\* A digest is what was hashed.
IdentifyC4mAware(lines) ==
  IF LooksLikeC4m(lines) /\ CanonicalizeC4m(lines) # <<>> THEN CanonicalizeC4m(lines) ELSE lines

-----------------------------------------------------------------------------
(* What the versions of a chain must be like for what is proved of it.        *)

\* None is empty, since the nil ID of an empty one is not written; and in two of
\* them a directory is the same only if all below it is.
Chainable ==
  /\ \A v \in Versions : v # <<>>
  /\ \A v, w \in Versions : SealedTrees(BuildPatchTree(v), BuildPatchTree(w))

\* What a torn patch leaves has the ID of the version before it only if it is
\* that version: an ID does not cover what lies below a directory.
Telling ==
  \A v, w \in Versions :
    LET p == PatchDiff(v, w).patch
    IN \A n \in 1..Len(p) :
         LET m == ApplyPatch(SortEntries(v), SubSeq(p, 1, n))
         IN ComputeC4ID(m) = ComputeC4ID(v) => m = SortEntries(v)

-----------------------------------------------------------------------------
\* Parse never throws a checkpoint mismatch at a chain whose patches were
\* appended once each, wherever the file ends.
NeverRejects == reader.status = "rejected" => retries > 0

\* When a reader gets past an ID that it checks, it holds a version that was
\* committed, also where the file has a torn patch followed by the whole of it,
\* or a patch twice, which ApplyPatch would apply twice.
ConfirmedIsCommitted ==
  /\ ~external
  /\ reader.status = "reading"
  /\ pos > 0
  /\ file[pos].kind = "id"
  => \E k \in DOMAIN log : reader.m = SortEntries(log[k])

\* A pass that meets the end of the file where the writer has finished a
\* version returns exactly that version, if it gets there.
WholeVersionResolves ==
  [][ReadEof /\ ~external /\ queue = <<>> /\ log # <<>>
       => reader'.m = SortEntries(Last(log))]_vars

\* DecodePatchChain with ResolvePatchChain returns what Parse returns, also
\* for a file that ends within a version, if both read its lines alike.
ResolveAgreesWithParse ==
  /\ reader.status = "done"
  /\ \A i \in 1..pos : file[i].kind # "id" => ReadAlike(file[i].entry)
  => ResolvePatchChain(DecodePatchChain(SubSeq(file, 1, pos)), 0) = reader.m

\* stopAt = k resolves the k-th version, when each differs from the one before
\* (an empty patch leaves no section) and all entries until then are read alike:
\* a later version that is misread does not spoil it.
StopAtResolvesVersion ==
  /\ ~external
  /\ retries = 0
  /\ queue = <<>>
  /\ \A k \in 2..Len(log) : SortEntries(log[k]) # SortEntries(log[k - 1])
  => \A k \in 1..Len(log) :
       (\A j \in 1..k : \A i \in 1..Len(log[j]) : ReadAlike(log[j][i]))
       => ResolvePatchChain(DecodePatchChain(file), k) = SortEntries(log[k])

\* The c4m-aware ID of a chain is that of its last version written on its own:
\* it depends on the state, and not on the patches that led to it.
AwareIDNamesState ==
  /\ ~external
  /\ retries = 0
  /\ queue = <<>>
  /\ log # <<>>
  => IdentifyC4mAware(file) = IdentifyC4mAware(Encode(Last(log)))

\* What a reader has seen confirmed so far: the state at the last checkpoint
\* it passed, and the number of the version it belongs to.
Checkpoints == Cardinality({i \in 1..pos : file[i].kind = "id"})
InPass == ~external /\ retries = 0 /\ reader.status = "reading" /\ reader.patchMode

Published == INSTANCE VersionLog WITH
  States <- Versions,
  Form <- SortEntries,
  Nothing <- <<>>,
  history <- IF external THEN <<>> ELSE log,
  at <- IF InPass THEN Checkpoints \div 2 + 1 ELSE 0,
  shown <- IF InPass THEN reader.m ELSE <<>>

\* A chain implements the version log: at every checkpoint a reader passes, it
\* holds a version that was committed, and never an earlier one than before.
ImplementsVersionLog == Published!Spec

\* A reader that keeps reading is, once the writer stops, again and again shown
\* the last version: no end of the file that it met on the way keeps it from it.
CatchesUp ==
  []<>(\/ external \/ log = <<>> \/ retries > 0
       \/ reader.status = "done" /\ reader.m = SortEntries(Last(log)))
=============================================================================
