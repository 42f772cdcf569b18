---------------------------- MODULE ChainProofs -----------------------------
(* A chain file and its readers, for any versions and any number of them.     *)
EXTENDS PatchChain, TreeProofs

-----------------------------------------------------------------------------
(* The text of a history h of versions.                                      *)

\* The lines of the k-th version of h.
TextOf(h, k) == IF k = 1 THEN Encode(h[1]) ELSE EncodePatch(PatchDiff(h[k - 1], h[k]))

\* The state a reader should find there, and the patch that leads to it.
StateOf(h, k) == SortEntries(h[k])
PatchOf(h, k) == PatchDiff(h[k - 1], h[k]).patch

\* A list whose lines can be read back.
Readable(es) == IsList(es) /\ Nested(es) /\ \A i \in 1..Len(es) : IsEntry(es[i])

LEMMA VersionIs ==
  ASSUME NEW v \in Versions
  PROVE  HasEntries(v) /\ Clean(v) /\ IsList(v) /\ Measured(v)
BY ChainAssumption, EntriesAreList, ManifestMeasured

LEMMA SortedIsReadable ==
  ASSUME NEW v \in Versions, v # <<>>
  PROVE  /\ Readable(SortEntries(v)) /\ SortEntries(v) # <<>>
         /\ \A k \in 1..Len(SortEntries(v)) : \E i \in 1..Len(v) : SortEntries(v)[k] = v[i]
<1> DEFINE s == SortEntries(v)
<1>1. HasEntries(v) /\ Clean(v) /\ IsList(v)
  BY VersionIs
<1>2. IsList(s) /\ \A k \in 1..Len(s) : \E i \in 1..Len(v) : s[k] = v[i]
  BY <1>1, SortIsList
<1>3. Nested(s)
  BY <1>1, SortIsSorted DEF Clean
<1>4. \A i \in 1..Len(v) : IsEntry(v[i])
  BY <1>1 DEF HasEntries
<1>5. \A i \in 1..Len(v) : \E k \in 1..Len(s) : s[k] = v[i]
  BY <1>1, SortKeepsPaths
<1>6. 1 \in 1..Len(v)
  BY <1>1 DEF IsList
<1> HIDE DEF s
<1>7. Readable(s)
  BY <1>2, <1>3, <1>4 DEF Readable
<1>8. s # <<>>
  <2>1. PICK k \in 1..Len(s) : s[k] = v[1]
    BY <1>5, <1>6
  <2>2. Len(<<>>) = 0
    OBVIOUS
  <2> QED
    BY <2>1, <2>2
<1> QED
  BY <1>2, <1>7, <1>8 DEF s

LEMMA PatchIsReadable ==
  ASSUME NEW old \in Versions, NEW new \in Versions
  PROVE  LET P == PatchDiff(old, new).patch
         IN /\ Readable(P) /\ Clean(P)
            /\ \A k \in 1..Len(P) :
                 \/ \E i \in 1..Len(old) : EntriesIdentical(P[k], old[i])
                 \/ \E i \in 1..Len(new) : EntriesIdentical(P[k], new[i])
<1> DEFINE s == BuildPatchTree(old)
           t == BuildPatchTree(new)
           p == PatchTree(s, t)
           P == Listing(p)
           o == PathsInOrder(p)
<1>1. HasEntries(old) /\ Clean(old) /\ IsList(old) /\ HasEntries(new) /\ Clean(new) /\ IsList(new)
  BY VersionIs
<1>2. WellFormed(p) /\ PatchDiff(old, new).patch = P
  BY <1>1, DiffIsListing
<1>3. \A v \in {old, new} : \A q \in DOMAIN BuildPatchTree(v) :
        \E i \in 1..Len(v) : BuildPatchTree(v)[q] = v[i]
  <2> SUFFICES ASSUME NEW v \in {old, new}, NEW q \in DOMAIN BuildPatchTree(v)
               PROVE  \E i \in 1..Len(v) : BuildPatchTree(v)[q] = v[i]
    OBVIOUS
  <2> DEFINE path == EntryPaths(v)
             u == BuildPatchTree(v)
  <2>1. DOMAIN u = {path[i] : i \in 1..Len(v)} /\ \A i \in 1..Len(v) : u[path[i]] = v[i]
    BY <1>1, TreeOfClean
  <2> HIDE DEF u, path
  <2>2. PICK i \in 1..Len(v) : q = path[i]
    BY <2>1 DEF u
  <2> QED
    BY <2>1, <2>2 DEF u
<1>4. /\ \A q \in DOMAIN s : \E i \in 1..Len(old) : s[q] = old[i]
      /\ \A q \in DOMAIN t : \E i \in 1..Len(new) : t[q] = new[i]
  BY <1>3
<1>5. \A q \in DOMAIN p : (q \in DOMAIN t /\ p[q] = t[q]) \/ (q \in DOMAIN s /\ p[q] = s[q])
  BY DEF PatchTree, Added, Removed, Changed, Enclosing
<1> HIDE DEF s, t, p
<1>6. /\ IsList(P) /\ Clean(P) /\ Len(P) = Len(o)
      /\ \A k \in 1..Len(o) : P[k] = p[o[k]]
  BY <1>2, ListingIsClean
<1>7. \A k \in 1..Len(o) : o[k] \in DOMAIN p
  BY <1>2, PathsEnumerated DEF Enumerating
<1>8. \A q \in DOMAIN p : IsEntry(p[q])
  BY <1>2 DEF WellFormed
<1> HIDE DEF P, o
<1>9. Readable(P)
  BY <1>6, <1>7, <1>8 DEF Readable, Clean
<1>10. ASSUME NEW k \in 1..Len(P)
       PROVE  \/ \E i \in 1..Len(old) : EntriesIdentical(P[k], old[i])
              \/ \E i \in 1..Len(new) : EntriesIdentical(P[k], new[i])
  <2>1. o[k] \in DOMAIN p /\ P[k] = p[o[k]]
    BY <1>6, <1>7
  <2>2. \/ \E i \in 1..Len(old) : P[k] = old[i]
        \/ \E i \in 1..Len(new) : P[k] = new[i]
    BY <1>5, <1>4, <2>1
  <2> QED
    BY <2>2 DEF EntriesIdentical
<1> QED
  BY <1>2, <1>6, <1>9, <1>10

\* Only the manifest without entries has the nil ID.
LEMMA IDIsKnown ==
  ASSUME NEW v \in Versions, v # <<>>
  PROVE  ComputeC4ID(v) # NilId
<1> DEFINE c == Canonicalize(v)
           s == SortEntries(c)
           R == {i \in DOMAIN s : s[i].depth = 0}
<1>1. Measured(v) /\ Clean(v) /\ IsList(v)
  BY VersionIs
<1>2. Alike(v, c) /\ Measured(c)
  BY <1>1, CanonicalIs
<1>3. Clean(c) /\ c # <<>>
  <2>1. Clean(c)
    BY <1>1, <1>2, AlikeClean DEF Measured
  <2>2. Len(c) = Len(v)
    BY <1>2 DEF Alike
  <2> QED
    BY <1>1, <2>1, <2>2 DEF IsList
<1> HIDE DEF c
<1>4. IsList(s) /\ Clean(s)
  BY <1>2, <1>3, SortIsList, SortIsSorted DEF Measured
<1>5. s # <<>>
  <2>1. 1 \in 1..Len(c)
    BY <1>2, <1>3 DEF Measured, IsList
  <2>2. PICK k \in 1..Len(s) : s[k] = c[1]
    BY <1>2, <1>3, <2>1, SortKeepsPaths DEF Measured
  <2>3. Len(<<>>) = 0
    OBVIOUS
  <2> QED
    BY <2>2, <2>3
<1> HIDE DEF s
<1>6. 1 \in R /\ R \in SUBSET (1..Len(s)) /\ Len(s) \in Nat
  <2>1. Len(s) \in Nat /\ DOMAIN s = 1..Len(s) /\ 1 \in 1..Len(s)
    BY <1>4, <1>5 DEF IsList
  <2>2. s[1].depth = 0 \/ 1 > 1
    BY <1>4, <2>1 DEF Clean, Nested
  <2> QED
    BY <2>1, <2>2
<1> HIDE DEF R
<1>7. RootsOf(s) # <<>>
  <2> DEFINE q == InOrder(R, <)
  <2>1. Enumerating(q, R)
    BY <1>6, NumbersInOrder
  <2>2. RootsOf(s) = Pick(s, q)
    BY DEF RootsOf, Kept, R
  <2> HIDE DEF q
  <2>3. PICK k \in 1..Len(q) : q[k] = 1
    BY <1>6, <2>1 DEF Enumerating
  <2>4. Len(q) \in Nat /\ Len(RootsOf(s)) = Len(q)
    BY <2>1, <2>2 DEF Pick, Enumerating
  <2>5. Len(<<>>) = 0
    OBVIOUS
  <2> QED
    BY <2>3, <2>4, <2>5
<1> QED
  BY <1>7 DEF ComputeC4ID, NilId, c, s

-----------------------------------------------------------------------------
(* The lines of a version.                                                   *)

LEMMA LinesOf ==
  ASSUME NEW es, Readable(es)
  PROVE  /\ EntryLines(es) \in Seq(Range(EntryLines(es)))
         /\ Len(EntryLines(es)) = Len(es) /\ Len(es) \in Nat
         /\ \A i \in 1..Len(es) : EntryLines(es)[i] = EntryLine(es[i])
<1>1. DOMAIN es = 1..Len(es) /\ Len(es) \in Nat
  BY DEF Readable, IsList
<1>2. EntryLines(es) = [i \in 1..Len(es) |-> EntryLine(es[i])]
  BY <1>1 DEF EntryLines
<1> QED
  BY <1>1, <1>2 DEF Range

\* A line, some lines, a line.
LEMMA Enclosed ==
  ASSUME NEW V, NEW s \in Seq(V), NEW a \in V, NEW b \in V
  PROVE  LET t == <<a>> \o s \o <<b>>
         IN /\ t \in Seq(V) /\ Len(t) = Len(s) + 2 /\ Len(s) \in Nat
            /\ t[1] = a /\ t[Len(s) + 2] = b
            /\ \A i \in 1..Len(s) : t[i + 1] = s[i]
<1> DEFINE u == <<a>> \o s
           t == u \o <<b>>
<1>1. /\ <<a>> \in Seq(V) /\ Len(<<a>>) = 1 /\ <<a>>[1] = a
      /\ <<b>> \in Seq(V) /\ Len(<<b>>) = 1 /\ <<b>>[1] = b
      /\ Len(s) \in Nat
  OBVIOUS
<1>2. /\ u \in Seq(V) /\ Len(u) = Len(s) + 1 /\ u[1] = a
      /\ \A i \in 1..Len(s) : u[i + 1] = s[i]
  BY <1>1
<1> HIDE DEF u
<1>3. /\ t \in Seq(V) /\ Len(t) = Len(s) + 2 /\ t[Len(s) + 2] = b
      /\ \A i \in 1..(Len(s) + 1) : t[i] = u[i]
  BY <1>1, <1>2
<1>4. 1 \in 1..(Len(s) + 1) /\ \A i \in 1..Len(s) : i + 1 \in 1..(Len(s) + 1)
  BY <1>1
<1> HIDE DEF t
<1>5. /\ t \in Seq(V) /\ Len(t) = Len(s) + 2 /\ Len(s) \in Nat
      /\ t[1] = a /\ t[Len(s) + 2] = b
      /\ \A i \in 1..Len(s) : t[i + 1] = s[i]
  BY <1>1, <1>2, <1>3, <1>4
<1> QED
  BY <1>5 DEF t, u

\* The first version of a history is written as its entries, and a later one as
\* the patch between the IDs of the two states.
LEMMA FirstText ==
  ASSUME Chainable, NEW h \in Seq(Versions), 1 \in 1..Len(h)
  PROVE  LET t == TextOf(h, 1)
             s == StateOf(h, 1)
         IN /\ Readable(s)
            /\ t \in Seq(Range(t)) /\ Len(t) = Len(s) /\ Len(s) \in Nat \ {0}
            /\ \A i \in 1..Len(s) : t[i] = EntryLine(s[i])
<1> DEFINE s == StateOf(h, 1)
<1>1. h[1] \in Versions
  OBVIOUS
<1>2. Readable(s) /\ s # <<>>
  BY <1>1, SortedIsReadable DEF Chainable, StateOf
<1>3. TextOf(h, 1) = EntryLines(s)
  BY DEF TextOf, Encode, StateOf
<1> HIDE DEF s
<1>4. Len(s) \in Nat /\ Len(s) # 0
  BY <1>2 DEF Readable, IsList
<1>5. /\ Readable(s)
      /\ TextOf(h, 1) \in Seq(Range(TextOf(h, 1)))
      /\ Len(TextOf(h, 1)) = Len(s) /\ Len(s) \in Nat \ {0}
      /\ \A i \in 1..Len(s) : TextOf(h, 1)[i] = EntryLine(s[i])
  BY <1>2, <1>3, <1>4, LinesOf
<1> QED
  BY <1>5 DEF s

LEMMA LaterText ==
  ASSUME Chainable, NEW h \in Seq(Versions), NEW k \in 2..Len(h)
  PROVE  LET t == TextOf(h, k)
             p == PatchOf(h, k)
         IN /\ h[k] \in Versions /\ h[k - 1] \in Versions
            /\ Readable(p)
            /\ t \in Seq(Range(t)) /\ Len(t) = Len(p) + 2 /\ Len(p) \in Nat
            /\ t[1] = IdLine(ComputeC4ID(h[k - 1]))
            /\ t[Len(p) + 2] = IdLine(ComputeC4ID(h[k]))
            /\ \A i \in 1..Len(p) : t[i + 1] = EntryLine(p[i])
<1> DEFINE t == TextOf(h, k)
           p == PatchOf(h, k)
           old == h[k - 1]
           new == h[k]
           a == IdLine(ComputeC4ID(old))
           b == IdLine(ComputeC4ID(new))
           V == Range(EntryLines(p)) \cup {a, b}
<1>1. k - 1 \in 1..Len(h) /\ k \in 1..Len(h) /\ k # 1
  BY LenProperties
<1>2. old \in Versions /\ new \in Versions
  BY <1>1
<1>3. Readable(p)
  BY <1>2, PatchIsReadable DEF PatchOf
<1>4. ComputeC4ID(old) # NilId /\ ComputeC4ID(new) # NilId
  BY <1>2, IDIsKnown DEF Chainable
<1>5. t = <<a>> \o EntryLines(p) \o <<b>>
  BY <1>1, <1>4 DEF TextOf, EncodePatch, PatchDiff, IdLines, PatchOf
<1>6. /\ EntryLines(p) \in Seq(Range(EntryLines(p)))
      /\ Len(EntryLines(p)) = Len(p) /\ Len(p) \in Nat
      /\ \A i \in 1..Len(p) : EntryLines(p)[i] = EntryLine(p[i])
  BY <1>3, LinesOf
<1> DEFINE e == EntryLines(p)
<1>7. a \in V /\ b \in V /\ e \in Seq(V)
  BY <1>6
<1> HIDE DEF a, b, V, p, t, e
<1>8. /\ t \in Seq(V) /\ Len(t) = Len(e) + 2 /\ Len(e) \in Nat
      /\ t[1] = a /\ t[Len(e) + 2] = b
      /\ \A i \in 1..Len(e) : t[i + 1] = e[i]
  BY <1>5, <1>7, Enclosed DEF e
<1>9. t \in Seq(Range(t))
  BY <1>8 DEF Range
<1>10. /\ Len(t) = Len(p) + 2 /\ Len(p) \in Nat /\ t[1] = a /\ t[Len(p) + 2] = b
       /\ \A i \in 1..Len(p) : t[i + 1] = EntryLine(p[i])
  BY <1>6, <1>8 DEF e
<1> QED
  BY <1>2, <1>3, <1>9, <1>10 DEF t, p, a, b

-----------------------------------------------------------------------------
(* Manifest::Parse on the text of a history.                                 *)

\* The reader in a pass, before anything is rejected and without external base.
Reader(m, section, firstLine, patchMode, width) ==
  [status |-> "reading", m |-> m, base |-> NilId, section |-> section,
   firstLine |-> firstLine, patchMode |-> patchMode, indentWidth |-> width]

\* Two spaces are a level, once an indented line has been met; until then the
\* first n entries are roots.
Indents(width, es, n) ==
  /\ width \in {0, 2}
  /\ width = 0 => \A i \in 1..n : es[i].depth = 0

\* The reader after line j of the first version of h,
InFirst(h, r, j) ==
  \E w \in {0, 2} : /\ r = Reader(<<>>, SubSeq(StateOf(h, 1), 1, j), FALSE, FALSE, w)
                    /\ Indents(w, StateOf(h, 1), j)

\* after line j, but not the last one, of the patch to the k-th version,
InPatch(h, r, k, j) ==
  \E w \in {0, 2} : /\ r = Reader(StateOf(h, k - 1), SubSeq(PatchOf(h, k), 1, j - 1), FALSE, TRUE, w)
                    /\ Indents(w, PatchOf(h, k), j - 1)

\* and after an ID that confirms the k-th version.
Confirmed(h, r, k) ==
  \E w \in {0, 2} : r = Reader(StateOf(h, k), <<>>, FALSE, TRUE, w)

\* The reader after line j of the k-th version of h.
ReaderAt(h, r, k, j) ==
  \/ k = 1 /\ InFirst(h, r, j)
  \/ k > 1 /\ j < Len(PatchOf(h, k)) + 2 /\ InPatch(h, r, k, j)
  \/ k > 1 /\ j = Len(PatchOf(h, k)) + 2 /\ Confirmed(h, r, k)

\* Twice the depth, halved: as long as the lines before were roots the next is
\* one, or one level down, and sets the width.
LEMMA DepthReadBack ==
  ASSUME NEW es, Readable(es), NEW j \in Nat, j + 1 \in 1..Len(es), NEW w, Indents(w, es, j)
  PROVE  LET line == EntryLine(es[j + 1])
             v == Width(w, line)
         IN /\ Indents(v, es, j + 1)
            /\ DepthOf(v, line) = es[j + 1].depth
<1> DEFINE d == es[j + 1].depth
           line == EntryLine(es[j + 1])
           v == Width(w, line)
<1>1. line.indent = 2 * d
  BY DEF EntryLine
<1>2. d \in Nat /\ \A i \in 1..Len(es) : es[i].depth \in Nat
  BY DEF Readable, IsList
<1>3. d = 0 \/ (j + 1 > 1 /\ d <= es[j].depth + 1)
  <2>1. \/ es[j + 1].depth = 0
        \/ j + 1 > 1 /\ es[j + 1].depth <= es[(j + 1) - 1].depth + (IF IsDir(es[(j + 1) - 1]) THEN 1 ELSE 0)
    BY DEF Readable, Nested
  <2>2. (j + 1) - 1 = j
    OBVIOUS
  <2>3. CASE j = 0
    BY <2>1, <2>3
  <2>4. CASE j # 0
    <3>1. j \in 1..Len(es)
      BY <2>4
    <3> QED
      BY <1>2, <2>1, <2>2, <3>1
  <2> QED
    BY <2>3, <2>4
<1>4. v = IF w = 0 THEN 2 * d ELSE w
  BY <1>1 DEF Width
<1>5. w \in {0, 2} /\ (w = 0 => \A i \in 1..j : es[i].depth = 0)
  BY DEF Indents
<1>6. DepthOf(v, line) = IF 2 * d = 0 THEN 0 ELSE (2 * d) \div v
  BY <1>1 DEF DepthOf
<1> HIDE DEF v, line
<1>7. w = 0 => d \in {0, 1}
  <2>1. CASE j = 0
    BY <1>3, <2>1
  <2>2. CASE j # 0
    <3>1. w = 0 => es[j].depth = 0
      BY <1>5, <2>2
    <3> QED
      BY <1>2, <1>3, <3>1
  <2> QED
    BY <2>1, <2>2
<1>8. v \in {0, 2} /\ (v = 0 => w = 0 /\ d = 0)
  BY <1>4, <1>5, <1>7
<1>9. DepthOf(v, line) = d
  BY <1>2, <1>6, <1>8, SMT
<1>10. ASSUME v = 0, NEW i \in 1..(j + 1)
       PROVE  es[i].depth = 0
  <2>1. i \in 1..j \/ i = j + 1
    OBVIOUS
  <2> QED
    BY <1>5, <1>8, <1>10, <2>1
<1>11. Indents(v, es, j + 1)
  BY <1>8, <1>10 DEF Indents
<1> QED
  BY <1>9, <1>11 DEF v, line

LEMMA EntryReadBack ==
  ASSUME NEW e, IsEntry(e)
  PROVE  EntryAtDepth(EntryAtDepth(e, 0), e.depth) = e
BY DEF IsEntry, EntryAtDepth

LEMMA SubSeqGrows ==
  ASSUME NEW V, NEW s \in Seq(V), NEW j \in Nat, j + 1 \in 1..Len(s)
  PROVE  Append(SubSeq(s, 1, j), s[j + 1]) = SubSeq(s, 1, j + 1)
<1> DEFINE a == Append(SubSeq(s, 1, j), s[j + 1])
           b == SubSeq(s, 1, j + 1)
<1>1. Len(s) \in Nat
  OBVIOUS
<1>2. /\ SubSeq(s, 1, j) \in Seq(V) /\ Len(SubSeq(s, 1, j)) = j
      /\ \A i \in 1..j : SubSeq(s, 1, j)[i] = s[i]
  BY <1>1
<1>3. a \in Seq(V) /\ Len(a) = j + 1 /\ \A i \in 1..(j + 1) : a[i] = s[i]
  BY <1>1, <1>2
<1>4. b \in Seq(V) /\ Len(b) = j + 1 /\ \A i \in 1..(j + 1) : b[i] = s[i]
  BY <1>1
<1> HIDE DEF a, b
<1>5. a = b
  BY <1>3, <1>4, SMTT(30)
<1> QED
  BY <1>5 DEF a, b

\* A reader r that read the first j entries of es has, after line, read one more.
ReadsOn(r, line, es, j, m, mode) ==
  \E v \in {0, 2} :
    /\ Indents(v, es, j + 1)
    /\ ReadLineOf(r, line) = Reader(m, SubSeq(es, 1, j + 1), FALSE, mode, v)

LEMMA EntryRead ==
  ASSUME NEW es, Readable(es), NEW j \in Nat, j + 1 \in 1..Len(es), NEW w, Indents(w, es, j),
         NEW m, NEW first, NEW mode, NEW r, r = Reader(m, SubSeq(es, 1, j), first, mode, w),
         NEW line, line = EntryLine(es[j + 1])
  PROVE  ReadsOn(r, line, es, j, m, mode)
<1> DEFINE v == Width(w, line)
           e == EntryAtDepth(line.entry, DepthOf(v, line))
<1>1. Indents(v, es, j + 1) /\ DepthOf(v, line) = es[j + 1].depth
  BY DepthReadBack
<1>2. line.kind = "entry" /\ line.entry = EntryAtDepth(es[j + 1], 0)
  BY DEF EntryLine
<1>3. e = es[j + 1]
  BY <1>1, <1>2, EntryReadBack DEF Readable
<1>4. ReadLineOf(r, line) = [r EXCEPT !.section = Append(@, e), !.indentWidth = v, !.firstLine = FALSE]
  BY <1>2 DEF ReadLineOf, ReadEntry, Reader
<1>5. Append(SubSeq(es, 1, j), es[j + 1]) = SubSeq(es, 1, j + 1)
  BY SubSeqGrows DEF Readable, IsList
<1> HIDE DEF e, v
<1>6. ReadLineOf(r, line) = Reader(m, SubSeq(es, 1, j + 1), FALSE, mode, v)
  BY <1>3, <1>4, <1>5 DEF Reader
<1>7. v \in {0, 2}
  BY <1>1 DEF Indents
<1> QED
  BY <1>1, <1>6, <1>7 DEF ReadsOn

\* What the reader holds when a section ends.
Applied(m, section, mode) ==
  IF ~mode THEN m \o section ELSE IF section = <<>> THEN m ELSE ApplyPatch(m, section)

\* After line the reader r, with a section read on top of m, holds x.
Closes(r, line, m, section, mode, w, x) ==
  ReadLineOf(r, line) = Reader(x, <<>>, FALSE, TRUE, w)

\* An ID that is that of the state so far is no more than the end of a section.
LEMMA IdRead ==
  ASSUME NEW m, NEW section, NEW mode, NEW w, NEW r, r = Reader(m, section, FALSE, mode, w),
         NEW x, x = Applied(m, section, mode),
         NEW line, line = IdLine(ComputeC4ID(x))
  PROVE  Closes(r, line, m, section, mode, w, x)
<1> DEFINE id == ComputeC4ID(x)
           a == [ApplySection(r) EXCEPT !.patchMode = TRUE, !.firstLine = FALSE]
<1>1. r.m = m /\ r.section = section /\ r.patchMode = mode /\ r.firstLine = FALSE
  BY DEF Reader
<1>2. ApplySection(r) = [r EXCEPT !.m = x, !.section = <<>>]
  BY <1>1 DEF ApplySection, Applied
<1>3. a = [[r EXCEPT !.m = x, !.section = <<>>] EXCEPT !.patchMode = TRUE, !.firstLine = FALSE]
  BY <1>2
<1>4. line.kind = "id" /\ line.id = id
  BY DEF IdLine
<1>5. ReadLineOf(r, line)
        = [a EXCEPT !.status = IF a.base = NilId /\ ~(ComputeC4ID(a.m) = id) THEN "rejected" ELSE @]
  BY <1>1, <1>4 DEF ReadLineOf, ReadId
<1> HIDE DEF a
<1>6. a = Reader(x, <<>>, FALSE, TRUE, w)
  BY <1>3 DEF Reader
<1>7. a.m = x /\ a.status = "reading"
  BY <1>6 DEF Reader
<1>8. ReadLineOf(r, line) = [a EXCEPT !.status = a.status]
  BY <1>5, <1>7
<1> QED
  BY <1>6, <1>8 DEF Reader, Closes

\* An empty patch says that nothing changed.
LEMMA EmptyPatch ==
  ASSUME NEW old \in Versions, NEW new \in Versions, PatchDiff(old, new).patch = <<>>,
         SealedTrees(BuildPatchTree(old), BuildPatchTree(new))
  PROVE  SortEntries(old) = SortEntries(new)
<1> DEFINE s == BuildPatchTree(old)
           t == BuildPatchTree(new)
           p == PatchTree(s, t)
<1>1. HasEntries(old) /\ Clean(old) /\ IsList(old) /\ HasEntries(new) /\ Clean(new) /\ IsList(new)
  BY VersionIs
<1>2. WellFormed(s) /\ WellFormed(t)
  BY <1>1, CleanIsTree
<1>3. WellFormed(p) /\ Listing(p) = <<>>
  BY <1>1, DiffIsListing
<1>4. ApplyPatchTree(s, p) = t
  BY <1>2, ApplyGivesNew
<1> HIDE DEF s, t, p
<1>5. DOMAIN p = {}
  <2> DEFINE o == PathsInOrder(p)
  <2>1. Len(o) = 0
    BY <1>3, ListingIsClean
  <2>2. Enumerating(o, DOMAIN p)
    BY <1>3, PathsEnumerated
  <2> HIDE DEF o
  <2> QED
    BY <2>1, <2>2 DEF Enumerating
<1>6. ApplyPatchTree(s, p) = s
  <2> DEFINE result == ApplyPatchTree(s, p)
  <2>1. result = [q \in DOMAIN s |-> s[q]]
    BY <1>5 DEF ApplyPatchTree
  <2> QED
    BY <1>2, <2>1 DEF WellFormed
<1>7. s = t
  BY <1>4, <1>6
<1> QED
  BY <1>1, <1>7, SortOfTree DEF s, t

\* The patch to the next version, applied to the state of the last.
LEMMA VersionApplied ==
  ASSUME Chainable, NEW h \in Seq(Versions), NEW k \in 2..Len(h)
  PROVE  /\ Applied(StateOf(h, k - 1), PatchOf(h, k), TRUE) = StateOf(h, k)
         /\ ComputeC4ID(StateOf(h, k)) = ComputeC4ID(h[k])
<1> DEFINE old == h[k - 1]
           new == h[k]
<1>1. old \in Versions /\ new \in Versions
  BY LaterText
<1>2. SealedTrees(BuildPatchTree(old), BuildPatchTree(new))
  BY <1>1 DEF Chainable
<1>3. /\ HasEntries(old) /\ Clean(old) /\ Measured(old)
      /\ HasEntries(new) /\ Clean(new) /\ Measured(new)
  BY <1>1, VersionIs
<1> HIDE DEF old, new
<1>4. ApplyPatch(SortEntries(old), PatchDiff(old, new).patch) = SortEntries(new)
  BY <1>2, <1>3, DiffApplies
<1>5. PatchDiff(old, new).patch = <<>> => SortEntries(old) = SortEntries(new)
  BY <1>1, <1>2, EmptyPatch
<1>6. ComputeC4ID(SortEntries(new)) = ComputeC4ID(new)
  BY <1>3, IDOfSorted
<1> QED
  BY <1>4, <1>5, <1>6 DEF Applied, StateOf, PatchOf, old, new

LEMMA FirstApplied ==
  ASSUME Chainable, NEW h \in Seq(Versions), 1 \in 1..Len(h)
  PROVE  /\ Applied(<<>>, StateOf(h, 1), FALSE) = StateOf(h, 1)
         /\ ComputeC4ID(StateOf(h, 1)) = ComputeC4ID(h[1])
<1> DEFINE s == StateOf(h, 1)
<1>1. h[1] \in Versions
  OBVIOUS
<1>2. Measured(h[1]) /\ Clean(h[1])
  BY <1>1, VersionIs
<1>3. ComputeC4ID(s) = ComputeC4ID(h[1])
  BY <1>2, IDOfSorted DEF StateOf
<1>4. s \in Seq(Range(s))
  BY FirstText DEF Readable, IsList
<1> HIDE DEF s
<1>5. <<>> \o s = s
  BY <1>4
<1> QED
  BY <1>3, <1>5 DEF Applied, s

\* None, or all, of a list.
LEMMA PartOf ==
  ASSUME NEW es, Readable(es)
  PROVE  SubSeq(es, 1, 0) = <<>> /\ SubSeq(es, 1, Len(es)) = es /\ Len(es) \in Nat
<1>1. es \in Seq(Range(es))
  BY DEF Readable, IsList
<1> QED
  BY <1>1, LenProperties, SubSeqEmpty, SubSeqFull

\* The reader goes through the text of a history line by line: from nowhere to
\* its first line,
LEMMA FirstLineRead ==
  ASSUME Chainable, NEW h \in Seq(Versions), 1 \in 1..Len(h)
  PROVE  ReaderAt(h, ReadLineOf(Fresh, TextOf(h, 1)[1]), 1, 1)
<1> DEFINE s == StateOf(h, 1)
           line == TextOf(h, 1)[1]
<1>1. Readable(s) /\ Len(s) \in Nat \ {0} /\ line = EntryLine(s[1])
  BY FirstText
<1>2. Fresh = Reader(<<>>, <<>>, TRUE, FALSE, 0)
  BY DEF Fresh, Reader
<1> HIDE DEF s, line
<1>3. Fresh = Reader(<<>>, SubSeq(s, 1, 0), TRUE, FALSE, 0)
  BY <1>1, <1>2, PartOf
<1>4. Indents(0, s, 0) /\ 0 + 1 \in 1..Len(s) /\ 0 + 1 = 1 /\ 0 \in Nat
  BY <1>1 DEF Indents
<1>5. ReadsOn(Fresh, line, s, 0, <<>>, FALSE)
  BY <1>1, <1>3, <1>4, EntryRead
<1>6. PICK v \in {0, 2} : /\ Indents(v, s, 1)
                         /\ ReadLineOf(Fresh, line) = Reader(<<>>, SubSeq(s, 1, 1), FALSE, FALSE, v)
  BY <1>4, <1>5 DEF ReadsOn
<1> QED
  BY <1>6 DEF ReaderAt, InFirst, s, line

\* from a line of a version to the next one of it,
LEMMA NextLineRead ==
  ASSUME Chainable, NEW h \in Seq(Versions), NEW k \in 1..Len(h), NEW j \in Nat \ {0},
         j < Len(TextOf(h, k)), NEW r, ReaderAt(h, r, k, j)
  PROVE  ReaderAt(h, ReadLineOf(r, TextOf(h, k)[j + 1]), k, j + 1)
<1> DEFINE line == TextOf(h, k)[j + 1]
<1>1. CASE k = 1
  <2> DEFINE s == StateOf(h, 1)
  <2>1. 1 \in 1..Len(h)
    BY <1>1
  <2>2. /\ Readable(s) /\ Len(s) \in Nat /\ Len(TextOf(h, 1)) = Len(s)
        /\ \A i \in 1..Len(s) : TextOf(h, 1)[i] = EntryLine(s[i])
    BY <2>1, FirstText
  <2> HIDE DEF s
  <2>3. j + 1 \in 1..Len(s) /\ line = EntryLine(s[j + 1])
    BY <1>1, <2>2
  <2>4. PICK w \in {0, 2} : r = Reader(<<>>, SubSeq(s, 1, j), FALSE, FALSE, w) /\ Indents(w, s, j)
    <3>1. InFirst(h, r, j)
      BY <1>1 DEF ReaderAt
    <3> QED
      BY <3>1 DEF InFirst, s
  <2> HIDE DEF line
  <2>5. ReadsOn(r, line, s, j, <<>>, FALSE)
    BY <2>2, <2>3, <2>4, EntryRead
  <2> QED
    BY <1>1, <2>5 DEF ReadsOn, ReaderAt, InFirst, s, line
<1>2. CASE k # 1
  <2> DEFINE p == PatchOf(h, k)
             m == StateOf(h, k - 1)
             n == Len(p)
  <2>1. k \in 2..Len(h) /\ k > 1
    BY <1>2, LenProperties
  <2>2. /\ Readable(p) /\ n \in Nat /\ Len(TextOf(h, k)) = n + 2
        /\ TextOf(h, k)[n + 2] = IdLine(ComputeC4ID(h[k]))
        /\ \A i \in 1..n : TextOf(h, k)[i + 1] = EntryLine(p[i])
    BY <2>1, LaterText
  <2> HIDE DEF p, n
  <2>3. PICK w \in {0, 2} : /\ r = Reader(m, SubSeq(p, 1, j - 1), FALSE, TRUE, w)
                            /\ Indents(w, p, j - 1)
    <3>1. j < n + 2 /\ j # n + 2
      BY <2>2
    <3> QED
      BY <1>2, <3>1 DEF ReaderAt, InPatch, p, n, m
  <2> HIDE DEF m
  <2>4. CASE j <= n
    <3>1. j - 1 \in Nat /\ (j - 1) + 1 = j /\ j \in 1..n /\ (j + 1) - 1 = j /\ j + 1 < n + 2
      BY <2>2, <2>4
    <3>2. line = EntryLine(p[j])
      BY <2>2, <3>1
    <3> HIDE DEF line
    <3>3. ReadsOn(r, line, p, j - 1, m, TRUE)
      BY <2>2, <2>3, <3>1, <3>2, EntryRead DEF n
    <3>4. PICK v \in {0, 2} : /\ Indents(v, p, j)
                              /\ ReadLineOf(r, line) = Reader(m, SubSeq(p, 1, j), FALSE, TRUE, v)
      BY <3>1, <3>3 DEF ReadsOn
    <3> QED
      BY <2>1, <3>1, <3>4 DEF ReaderAt, InPatch, m, n, p, line
  <2>5. CASE j > n
    <3> DEFINE id == ComputeC4ID(h[k])
    <3>1. j = n + 1 /\ j + 1 = n + 2 /\ j - 1 = n
      BY <2>2, <2>5
    <3>2. line = IdLine(id)
      BY <2>2, <3>1
    <3>3. SubSeq(p, 1, j - 1) = p
      BY <2>2, <3>1, PartOf DEF n
    <3>4. Applied(m, p, TRUE) = StateOf(h, k) /\ ComputeC4ID(StateOf(h, k)) = id
      BY <2>1, VersionApplied DEF m, p
    <3> DEFINE x == StateOf(h, k)
    <3>5. r = Reader(m, p, FALSE, TRUE, w) /\ x = Applied(m, p, TRUE) /\ line = IdLine(ComputeC4ID(x))
      BY <2>3, <3>2, <3>3, <3>4
    <3> HIDE DEF line, id, x
    <3>6. Closes(r, line, m, p, TRUE, w, x)
      BY ONLY <3>5, IdRead
    <3> QED
      BY <2>1, <3>1, <3>6 DEF ReaderAt, Confirmed, Closes, n, p, line, x
  <2> QED
    BY <2>2, <2>4, <2>5
<1> QED
  BY <1>1, <1>2

\* and from the last line of a version to the first one of the next.
LEMMA NextVersionRead ==
  ASSUME Chainable, NEW h \in Seq(Versions), NEW k \in 1..Len(h), k + 1 \in 1..Len(h),
         NEW r, ReaderAt(h, r, k, Len(TextOf(h, k)))
  PROVE  ReaderAt(h, ReadLineOf(r, TextOf(h, k + 1)[1]), k + 1, 1)
<1> DEFINE id == ComputeC4ID(h[k])
           line == TextOf(h, k + 1)[1]
           p == PatchOf(h, k + 1)
<1>1. /\ k + 1 \in 2..Len(h) /\ (k + 1) - 1 = k /\ k + 1 > 1 /\ Len(h) \in Nat
  BY LenProperties
<1>2. line = IdLine(id) /\ Len(p) \in Nat /\ Readable(p)
  BY <1>1, LaterText
<1>3. \E w \in {0, 2} : ReadLineOf(r, line) = Reader(StateOf(h, k), <<>>, FALSE, TRUE, w)
  <2>1. CASE k = 1
    <3> DEFINE s == StateOf(h, 1)
    <3>1. 1 \in 1..Len(h)
      BY <2>1
    <3>2. Readable(s) /\ Len(TextOf(h, 1)) = Len(s)
      BY <3>1, FirstText
    <3>3. Applied(<<>>, s, FALSE) = s /\ ComputeC4ID(s) = id
      BY <2>1, <3>1, FirstApplied
    <3> HIDE DEF s, id, line
    <3>4. InFirst(h, r, Len(s))
      BY <2>1, <3>2 DEF ReaderAt
    <3>5. PICK w \in {0, 2} : r = Reader(<<>>, SubSeq(s, 1, Len(s)), FALSE, FALSE, w)
      BY <3>4 DEF InFirst, s
    <3>6. r = Reader(<<>>, s, FALSE, FALSE, w)
      BY <3>2, <3>5, PartOf
    <3>7. s = Applied(<<>>, s, FALSE) /\ line = IdLine(ComputeC4ID(s))
      BY <1>2, <3>3
    <3>8. Closes(r, line, <<>>, s, FALSE, w, s)
      BY ONLY <3>6, <3>7, IdRead
    <3> QED
      BY <2>1, <3>8 DEF s, Closes
  <2>2. CASE k # 1
    <3> DEFINE s == StateOf(h, k)
    <3>1. k \in 2..Len(h) /\ k > 1
      BY <1>1, <2>2
    <3>2. Len(TextOf(h, k)) = Len(PatchOf(h, k)) + 2 /\ Len(PatchOf(h, k)) \in Nat
      BY <3>1, LaterText
    <3>3. Applied(s, <<>>, TRUE) = s /\ ComputeC4ID(s) = id
      BY <3>1, VersionApplied DEF Applied
    <3> HIDE DEF s, id, line
    <3>4. Confirmed(h, r, k)
      BY <2>2, <3>2 DEF ReaderAt
    <3>5. PICK w \in {0, 2} : r = Reader(s, <<>>, FALSE, TRUE, w)
      BY <3>4 DEF Confirmed, s
    <3>6. s = Applied(s, <<>>, TRUE) /\ line = IdLine(ComputeC4ID(s))
      BY <1>2, <3>3
    <3>7. Closes(r, line, s, <<>>, TRUE, w, s)
      BY ONLY <3>5, <3>6, IdRead
    <3> QED
      BY <3>7 DEF s, Closes
  <2> QED
    BY <2>1, <2>2
<1> HIDE DEF line, id, p
<1>4. PICK w \in {0, 2} : ReadLineOf(r, line) = Reader(StateOf(h, k), <<>>, FALSE, TRUE, w)
  BY <1>3
<1>5. SubSeq(p, 1, 0) = <<>>
  BY <1>2, PartOf
<1>6. Indents(w, p, 0)
  BY DEF Indents
<1>7. 1 < Len(p) + 2 /\ 1 - 1 = 0
  BY <1>2
<1> QED
  BY <1>1, <1>4, <1>5, <1>6, <1>7 DEF ReaderAt, InPatch, p, line

\* An ID that a reader does not turn down is that of the state so far.
LEMMA IdAsked ==
  ASSUME NEW m, NEW section, NEW mode, NEW w, NEW r, r = Reader(m, section, FALSE, mode, w),
         NEW id, NEW line, line = IdLine(id), ReadLineOf(r, line).status = "reading"
  PROVE  ComputeC4ID(Applied(m, section, mode)) = id
<1> DEFINE x == Applied(m, section, mode)
           a == [ApplySection(r) EXCEPT !.patchMode = TRUE, !.firstLine = FALSE]
<1>1. r.m = m /\ r.section = section /\ r.patchMode = mode /\ r.firstLine = FALSE
  BY DEF Reader
<1>2. ApplySection(r) = [r EXCEPT !.m = x, !.section = <<>>]
  BY <1>1 DEF ApplySection, Applied
<1>3. a = [[r EXCEPT !.m = x, !.section = <<>>] EXCEPT !.patchMode = TRUE, !.firstLine = FALSE]
  BY <1>2
<1>4. line.kind = "id" /\ line.id = id
  BY DEF IdLine
<1>5. ReadLineOf(r, line)
        = [a EXCEPT !.status = IF a.base = NilId /\ ~(ComputeC4ID(a.m) = id) THEN "rejected" ELSE @]
  BY <1>1, <1>4 DEF ReadLineOf, ReadId
<1> HIDE DEF a, x
<1>6. a = Reader(x, <<>>, FALSE, TRUE, w)
  BY <1>3 DEF Reader
<1>7. a.m = x /\ a.base = NilId
  BY <1>6 DEF Reader
<1>8. SUFFICES ASSUME ComputeC4ID(x) # id PROVE FALSE
  BY DEF x
<1>9. ReadLineOf(r, line) = [a EXCEPT !.status = "rejected"]
  BY <1>5, <1>7, <1>8
<1>10. ReadLineOf(r, line).status = "rejected"
  BY <1>6, <1>9 DEF Reader
<1> QED
  BY <1>10

\* A reader that gets past the first line of a patch, which is there again,
\* holds the state before the patch: the torn one has led nowhere else.
LEMMA AgainRead ==
  ASSUME Chainable, Telling, NEW h \in Seq(Versions), NEW k \in 2..Len(h), NEW j \in Nat \ {0},
         NEW r, ReaderAt(h, r, k, j), j <= Len(TextOf(h, k)),
         ReadLineOf(r, TextOf(h, k)[1]).status = "reading"
  PROVE  ReaderAt(h, ReadLineOf(r, TextOf(h, k)[1]), k, 1)
<1> DEFINE id == ComputeC4ID(h[k - 1])
           line == TextOf(h, k)[1]
           p == PatchOf(h, k)
           m == StateOf(h, k - 1)
           Torn(n) == ApplyPatch(m, SubSeq(p, 1, n))
<1>1. /\ line = IdLine(id) /\ Len(p) \in Nat /\ Readable(p)
      /\ k > 1 /\ k # 1 /\ h[k - 1] \in Versions /\ h[k] \in Versions
  BY LaterText
<1>2. ASSUME NEW n \in 1..Len(p), ComputeC4ID(Torn(n)) = id
      PROVE  Torn(n) = m
  BY <1>1, <1>2 DEF Telling, PatchOf, StateOf
<1>3. \E w \in {0, 2} : ReadLineOf(r, line) = Reader(m, <<>>, FALSE, TRUE, w)
  <2>1. CASE InPatch(h, r, k, j) /\ j < Len(p) + 2
    <3> DEFINE n == j - 1
               sec == SubSeq(p, 1, n)
               x == Applied(m, sec, TRUE)
    <3>1. PICK w \in {0, 2} : r = Reader(m, sec, FALSE, TRUE, w)
      BY <2>1 DEF InPatch
    <3>2. n \in Nat /\ (n = 0 \/ n \in 1..Len(p))
      BY <1>1, <2>1
    <3>3. n = 0 => sec = <<>>
      BY <1>1, PartOf
    <3>4. x = m \/ (n \in 1..Len(p) /\ x = Torn(n))
      BY <3>2, <3>3 DEF Applied
    <3>5. ComputeC4ID(x) = id
      <4> HIDE DEF sec, line, id, m
      <4>1. ComputeC4ID(Applied(m, sec, TRUE)) = id
        BY <1>1, <3>1, IdAsked DEF line
      <4> QED
        BY <4>1
    <3>6. x = m
      <4> HIDE DEF x, m, n, id
      <4> QED
        BY <1>2, <3>4, <3>5
    <3>7. m = Applied(m, sec, TRUE) /\ line = IdLine(ComputeC4ID(m))
      BY <1>1, <3>5, <3>6
    <3> HIDE DEF x, sec, line, m, id
    <3>8. Closes(r, line, m, sec, TRUE, w, m)
      BY ONLY <3>1, <3>7, IdRead
    <3> QED
      BY <3>8 DEF Closes
  <2>2. CASE Confirmed(h, r, k)
    <3> DEFINE x == StateOf(h, k)
    <3>1. PICK w \in {0, 2} : r = Reader(x, <<>>, FALSE, TRUE, w)
      BY <2>2 DEF Confirmed
    <3>2. Applied(x, <<>>, TRUE) = x
      BY DEF Applied
    <3>3. ComputeC4ID(x) = id
      <4> HIDE DEF x, line, id
      <4> QED
        BY <1>1, <3>1, <3>2, IdAsked DEF line
    <3>4. x = m
      <4>1. Applied(m, p, TRUE) = x
        BY VersionApplied
      <4>2. CASE Len(p) = 0
        <5>1. p = <<>>
          BY <1>1, <4>2, PartOf
        <5> HIDE DEF x, m, p
        <5> QED
          BY <4>1, <5>1 DEF Applied
      <4>3. CASE Len(p) # 0
        <5>1. Len(p) \in 1..Len(p) /\ SubSeq(p, 1, Len(p)) = p /\ p # <<>>
          BY <1>1, <4>3, PartOf
        <5>2. x = Torn(Len(p))
          <6> HIDE DEF x, m, p
          <6> QED
            BY <4>1, <5>1 DEF Applied
        <5> HIDE DEF x, m, p, id
        <5> QED
          BY <1>2, <3>3, <5>1, <5>2
      <4> QED
        BY <4>2, <4>3
    <3>5. x = Applied(x, <<>>, TRUE) /\ line = IdLine(ComputeC4ID(x))
      BY <1>1, <3>2, <3>3
    <3> HIDE DEF x, line, m, id
    <3>6. Closes(r, line, x, <<>>, TRUE, w, x)
      BY ONLY <3>1, <3>5, IdRead
    <3> QED
      BY <3>4, <3>6 DEF Closes
  <2>3. (j < Len(p) + 2 /\ InPatch(h, r, k, j)) \/ Confirmed(h, r, k)
    BY <1>1 DEF ReaderAt
  <2> QED
    BY <2>1, <2>2, <2>3
<1> HIDE DEF line, id, p, m
<1>4. PICK w \in {0, 2} : ReadLineOf(r, line) = Reader(m, <<>>, FALSE, TRUE, w)
  BY <1>3
<1>5. SubSeq(p, 1, 0) = <<>>
  BY <1>1, PartOf
<1>6. Indents(w, p, 0)
  BY DEF Indents
<1>7. 1 < Len(p) + 2 /\ 1 - 1 = 0
  BY <1>1
<1> QED
  BY <1>1, <1>4, <1>5, <1>6, <1>7 DEF ReaderAt, InPatch, p, line, m

-----------------------------------------------------------------------------
(* The text of a whole history: its lines are those of the first version,     *)
(* then those of the second, and so on.                                      *)

\* Line i is line off[i] of version blk[i], and follows the line before; or it
\* starts the patch, of which that one is a line, again: the last argument is how
\* often a patch may have been appended once more.
LaidLine(h, w, blk, off, i, again) ==
  /\ blk[i] \in 1..Len(h)
  /\ off[i] \in 1..Len(TextOf(h, blk[i]))
  /\ w[i] = TextOf(h, blk[i])[off[i]]
  /\ \/ i = 1 /\ blk[i] = 1 /\ off[i] = 1
     \/ i > 1 /\ blk[i] = blk[i - 1] /\ off[i] = off[i - 1] + 1
     \/ /\ i > 1 /\ blk[i] = blk[i - 1] + 1 /\ off[i] = 1
        /\ off[i - 1] = Len(TextOf(h, blk[i - 1]))
     \/ again # 0 /\ i > 1 /\ blk[i] = blk[i - 1] /\ blk[i] > 1 /\ off[i] = 1

Laid(h, w, blk, off, again) ==
  /\ h \in Seq(Versions)
  /\ w \in Seq(Range(w))
  /\ \A i \in 1..Len(w) : LaidLine(h, w, blk, off, i, again)
  /\ h = <<>> => w = <<>>
  /\ h # <<>> => /\ w # <<>>
                 /\ blk[Len(w)] = Len(h)
                 /\ off[Len(w)] = Len(TextOf(h, Len(h)))

\* What is the same for a longer history.
LEMMA TextKept ==
  ASSUME NEW h \in Seq(Versions), NEW v \in Versions
  PROVE  LET g == Append(h, v)
         IN /\ g \in Seq(Versions) /\ Len(g) = Len(h) + 1 /\ Len(h) \in Nat
            /\ \A k \in 1..Len(h) : TextOf(g, k) = TextOf(h, k)
            /\ TextOf(g, Len(h) + 1) = Block(h, v)
<1> DEFINE g == Append(h, v)
           n == Len(h)
<1>1. /\ g \in Seq(Versions) /\ Len(g) = n + 1 /\ n \in Nat /\ g[n + 1] = v
      /\ \A k \in 1..n : g[k] = h[k]
  OBVIOUS
<1>2. h # <<>> => Last(h) = h[n]
  BY DEF Last
<1>3. h = <<>> <=> n = 0
  BY EmptySeq
<1> HIDE DEF g, n
<1>4. ASSUME NEW k \in 1..n
      PROVE  TextOf(g, k) = TextOf(h, k)
  <2>1. k # 1 => k - 1 \in 1..n
    BY <1>1
  <2>2. g[k] = h[k] /\ (k = 1 => g[1] = h[1]) /\ (k # 1 => g[k - 1] = h[k - 1])
    BY <1>1, <2>1
  <2> QED
    BY <2>2 DEF TextOf
<1>5. TextOf(g, n + 1) = Block(h, v)
  <2>1. CASE n = 0
    <3>1. n + 1 = 1
      BY <2>1
    <3> QED
      BY <1>1, <1>3, <2>1, <3>1 DEF TextOf, Block
  <2>2. CASE n # 0
    <3>1. n + 1 # 1 /\ (n + 1) - 1 = n /\ n \in 1..n
      BY <1>1, <2>2
    <3> QED
      BY <1>1, <1>2, <1>3, <2>2, <3>1 DEF TextOf, Block
  <2> QED
    BY <2>1, <2>2
<1> QED
  BY <1>1, <1>4, <1>5 DEF g, n

\* Every version is written in at least one line.
LEMMA TextIs ==
  ASSUME Chainable, NEW h \in Seq(Versions), NEW k \in 1..Len(h)
  PROVE  /\ TextOf(h, k) \in Seq(Range(TextOf(h, k)))
         /\ Len(TextOf(h, k)) \in Nat \ {0}
         /\ \A j \in 1..Len(TextOf(h, k)) :
              TextOf(h, k)[j].kind = "id" <=> k > 1 /\ (j = 1 \/ j = Len(TextOf(h, k)))
         /\ k > 1 => Len(TextOf(h, k)) > 1
<1>1. CASE k = 1
  <2>1. 1 \in 1..Len(h)
    BY <1>1
  <2>2. \A e : EntryLine(e).kind # "id"
    BY DEF EntryLine
  <2> QED
    BY <1>1, <2>1, <2>2, FirstText
<1>2. CASE k # 1
  <2> DEFINE t == TextOf(h, k)
             p == PatchOf(h, k)
             n == Len(p)
  <2>1. k \in 2..Len(h) /\ k > 1
    BY <1>2, LenProperties
  <2>2. /\ t \in Seq(Range(t)) /\ Len(t) = n + 2 /\ n \in Nat
        /\ t[1] = IdLine(ComputeC4ID(h[k - 1]))
        /\ t[n + 2] = IdLine(ComputeC4ID(h[k]))
        /\ \A i \in 1..n : t[i + 1] = EntryLine(p[i])
    BY <2>1, LaterText
  <2>3. (\A e : EntryLine(e).kind # "id") /\ (\A id : IdLine(id).kind = "id")
    BY DEF EntryLine, IdLine
  <2> HIDE DEF t, p, n
  <2>4. ASSUME NEW j \in 1..(n + 2)
        PROVE  t[j].kind = "id" <=> j = 1 \/ j = n + 2
    <3>1. CASE j = 1 \/ j = n + 2
      BY <2>2, <2>3, <3>1
    <3>2. CASE ~(j = 1 \/ j = n + 2)
      <4>1. j - 1 \in 1..n /\ (j - 1) + 1 = j
        BY <2>2, <3>2
      <4> QED
        BY <2>2, <2>3, <3>2, <4>1
    <3> QED
      BY <3>1, <3>2
  <2> QED
    BY <2>1, <2>2, <2>4 DEF t
<1> QED
  BY <1>1, <1>2

\* A sequence is one of its own elements.
LEMMA InOwnRange ==
  ASSUME NEW V, NEW s \in Seq(V)
  PROVE  s \in Seq(Range(s))
<1> DEFINE n == Len(s)
           R == Range(s)
<1>1. n \in Nat /\ DOMAIN s = 1..n /\ s \in [1..n -> V]
  BY LenProperties
<1>2. \A i \in 1..n : s[i] \in R
  BY <1>1 DEF Range
<1> HIDE DEF n, R
<1>3. s \in [1..n -> R]
  BY <1>1, <1>2
<1>4. s \in Seq(R)
  BY <1>1, <1>3, SeqDef
<1> QED
  BY <1>4 DEF R

\* The text w of versions of g, with the k-th one after it.
Continues(g, w, k, blk, off, again, b, o) ==
  /\ Laid(g, w \o TextOf(g, k), b, o, again)
  /\ \A i \in 1..Len(w) : b[i] = blk[i] /\ o[i] = off[i]
  /\ \A i \in 1..Len(w \o TextOf(g, k)) : i > Len(w) => b[i] = k

LEMMA LaidContinues ==
  ASSUME Chainable, NEW g \in Seq(Versions), NEW w, w \in Seq(Range(w)), NEW blk, NEW off,
         NEW again,
         \A i \in 1..Len(w) : LaidLine(g, w, blk, off, i, again),
         NEW k, k = Len(g), g # <<>>,
         Len(w) = 0 => k = 1,
         Len(w) > 0 => \/ blk[Len(w)] = k - 1 /\ off[Len(w)] = Len(TextOf(g, k - 1))
                       \/ again # 0 /\ k > 1 /\ blk[Len(w)] = k
  PROVE  \E b, o : Continues(g, w, k, blk, off, again, b, o)
<1> DEFINE t == TextOf(g, k)
           x == w \o t
           n == Len(w)
           b == [i \in 1..(n + Len(t)) |-> IF i <= n THEN blk[i] ELSE k]
           o == [i \in 1..(n + Len(t)) |-> IF i <= n THEN off[i] ELSE i - n]
<1>1. n \in Nat /\ k \in Nat /\ k \in 1..Len(g)
  BY EmptySeq
<1>2. t \in Seq(Range(t)) /\ Len(t) \in Nat \ {0}
  BY <1>1, TextIs
<1> HIDE DEF t
<1>3. /\ x \in Seq(Range(w) \cup Range(t)) /\ Len(x) = n + Len(t)
      /\ \A i \in 1..n : x[i] = w[i]
      /\ \A i \in 1..Len(t) : x[n + i] = t[i]
  <2>1. w \in Seq(Range(w) \cup Range(t)) /\ t \in Seq(Range(w) \cup Range(t))
    BY <1>2
  <2> QED
    BY <2>1
<1> HIDE DEF x
<1>4. x \in Seq(Range(x))
  BY <1>3, InOwnRange
<1> HIDE DEF n
<1>5. ASSUME NEW i \in 1..n
      PROVE  LaidLine(g, x, b, o, i, again)
  <2>1. b[i] = blk[i] /\ o[i] = off[i] /\ x[i] = w[i]
    BY <1>1, <1>2, <1>3
  <2>2. i > 1 => i - 1 \in 1..n /\ b[i - 1] = blk[i - 1] /\ o[i - 1] = off[i - 1]
    BY <1>1, <1>2
  <2>3. LaidLine(g, w, blk, off, i, again)
    BY DEF n
  <2> HIDE DEF b, o
  <2> QED
    BY <2>1, <2>2, <2>3 DEF LaidLine
<1>6. ASSUME NEW i \in 1..Len(x), i > n
      PROVE  LaidLine(g, x, b, o, i, again) /\ b[i] = k
  <2>1. b[i] = k /\ o[i] = i - n /\ i - n \in 1..Len(t) /\ x[i] = t[i - n]
    <3>1. i - n \in 1..Len(t) /\ n + (i - n) = i /\ ~(i <= n) /\ i \in 1..(n + Len(t))
      BY <1>1, <1>2, <1>3, <1>6
    <3>2. x[n + (i - n)] = t[i - n]
      BY <1>3, <3>1
    <3> QED
      BY <3>1, <3>2
  <2>2. b[i] \in 1..Len(g) /\ TextOf(g, b[i]) = t
    BY <1>1, <2>1 DEF t
  <2>3. \/ i = 1 /\ b[i] = 1 /\ o[i] = 1
        \/ i > 1 /\ b[i] = b[i - 1] /\ o[i] = o[i - 1] + 1
        \/ /\ i > 1 /\ b[i] = b[i - 1] + 1 /\ o[i] = 1
           /\ o[i - 1] = Len(TextOf(g, b[i - 1]))
        \/ again # 0 /\ i > 1 /\ b[i] = b[i - 1] /\ b[i] > 1 /\ o[i] = 1
    <3>1. CASE i > n + 1
      <4>1. i - 1 \in 1..(n + Len(t)) /\ ~(i - 1 <= n)
        BY <1>1, <1>2, <1>3, <3>1
      <4>2. b[i - 1] = k /\ o[i - 1] = (i - 1) - n
        BY <4>1
      <4> HIDE DEF b, o
      <4> QED
        BY <1>1, <2>1, <3>1, <4>2
    <3>2. CASE i = n + 1 /\ n = 0
      <4>1. k = 1
        BY <3>2 DEF n
      <4> HIDE DEF b, o
      <4> QED
        BY <1>1, <2>1, <3>2, <4>1
    <3>3. CASE i = n + 1 /\ n > 0
      <4>1. i - 1 = n /\ n \in 1..(n + Len(t)) /\ n <= n /\ i - n = 1 /\ i > 1
        BY <1>1, <1>2, <3>3
      <4>2. b[i - 1] = blk[n] /\ o[i - 1] = off[n]
        BY <4>1
      <4>3. \/ blk[n] = k - 1 /\ off[n] = Len(TextOf(g, k - 1))
            \/ again # 0 /\ k > 1 /\ blk[n] = k
        BY <3>3 DEF n
      <4> HIDE DEF b, o
      <4>4. o[i] = 1 /\ i > 1
        BY <2>1, <4>1
      <4>5. CASE blk[n] = k - 1 /\ off[n] = Len(TextOf(g, k - 1))
        <5>1. b[i] = b[i - 1] + 1 /\ o[i - 1] = Len(TextOf(g, b[i - 1]))
          BY <1>1, <2>1, <4>2, <4>5
        <5> QED
          BY <4>4, <5>1
      <4>6. CASE again # 0 /\ k > 1 /\ blk[n] = k
        <5>1. b[i] = b[i - 1] /\ b[i] > 1
          BY <2>1, <4>2, <4>6
        <5> QED
          BY <4>4, <4>6, <5>1
      <4> QED
        BY <4>3, <4>5, <4>6
    <3> QED
      BY <1>1, <1>6, <3>1, <3>2, <3>3
  <2> HIDE DEF b, o
  <2> QED
    BY <2>1, <2>2, <2>3 DEF LaidLine
<1>7. Len(x) \in 1..(n + Len(t)) /\ Len(x) > n /\ x # <<>>
  <2>1. Len(<<>>) = 0
    OBVIOUS
  <2> QED
    BY <1>1, <1>2, <1>3, <2>1
<1>8. b[Len(x)] = Len(g) /\ o[Len(x)] = Len(TextOf(g, Len(g)))
  <2>1. ~(Len(x) <= n) /\ Len(x) - n = Len(t)
    BY <1>1, <1>2, <1>3, <1>7
  <2> QED
    BY <1>7, <2>1 DEF t
<1>9. \A i \in 1..n : b[i] = blk[i] /\ o[i] = off[i]
  BY <1>1, <1>2
<1> HIDE DEF b, o
<1>10. \A i \in 1..Len(x) : LaidLine(g, x, b, o, i, again)
  <2>1. \A i \in 1..Len(x) : i \in 1..n \/ i > n
    BY <1>1, <1>2, <1>3
  <2> QED
    BY <1>5, <1>6, <2>1
<1>11. Laid(g, x, b, o, again)
  BY <1>4, <1>7, <1>8, <1>10 DEF Laid
<1>12. \A i \in 1..Len(x) : i > n => b[i] = k
  BY <1>6
<1> QED
  BY <1>9, <1>11, <1>12 DEF Continues, x, n, t

\* A new version extends the text.
LEMMA LaidGrows ==
  ASSUME Chainable, NEW h, NEW w, NEW blk, NEW off, NEW again, Laid(h, w, blk, off, again),
         NEW v \in Versions
  PROVE  /\ \E b, o : Continues(Append(h, v), w, Len(h) + 1, blk, off, again, b, o)
         /\ TextOf(Append(h, v), Len(h) + 1) = Block(h, v)
<1> DEFINE g == Append(h, v)
           n == Len(w)
           m == Len(h)
<1>1. h \in Seq(Versions) /\ w \in Seq(Range(w)) /\ n \in Nat /\ m \in Nat
  BY DEF Laid
<1>2. /\ g \in Seq(Versions) /\ Len(g) = m + 1
      /\ \A k \in 1..m : TextOf(g, k) = TextOf(h, k)
      /\ TextOf(g, m + 1) = Block(h, v)
  BY <1>1, TextKept
<1> HIDE DEF g
<1>3. n > 0 => m > 0 /\ blk[n] = m /\ off[n] = Len(TextOf(h, m))
  <2>1. n > 0 => w # <<>>
    BY <1>1
  <2>2. h # <<>> => m > 0
    BY <1>1
  <2> QED
    BY <2>1, <2>2 DEF Laid
<1>4. n = 0 => m = 0
  BY <1>1 DEF Laid
<1>5. ASSUME NEW i \in 1..n
      PROVE  LaidLine(g, w, blk, off, i, again)
  <2>1. i > 1 => i - 1 \in 1..n
    BY <1>1
  <2>2. LaidLine(h, w, blk, off, i, again) /\ (i > 1 => LaidLine(h, w, blk, off, i - 1, again))
    BY <2>1 DEF Laid
  <2>3. blk[i] \in 1..m /\ (i > 1 => blk[i - 1] \in 1..m)
    BY <2>2 DEF LaidLine
  <2>4. blk[i] \in 1..Len(g) /\ TextOf(g, blk[i]) = TextOf(h, blk[i])
    BY <1>1, <1>2, <2>3
  <2>5. i > 1 => TextOf(g, blk[i - 1]) = TextOf(h, blk[i - 1])
    BY <1>2, <2>3
  <2> QED
    BY <2>2, <2>4, <2>5 DEF LaidLine
<1>6. n > 0 => blk[n] = (m + 1) - 1 /\ off[n] = Len(TextOf(g, (m + 1) - 1))
  <2>1. n > 0 => m \in 1..m /\ (m + 1) - 1 = m
    BY <1>1, <1>3
  <2> QED
    BY <1>2, <1>3, <2>1
<1> HIDE DEF n, m
<1>7. g # <<>> /\ m + 1 = Len(g) /\ (n = 0 => m + 1 = 1)
  BY <1>1, <1>2, <1>4
<1> DEFINE k == m + 1
<1>8. \E b, o : Continues(g, w, k, blk, off, again, b, o)
  <2>1. k = Len(g) /\ g # <<>> /\ (Len(w) = 0 => k = 1)
    BY <1>7 DEF n
  <2>2. Len(w) > 0 => blk[Len(w)] = k - 1 /\ off[Len(w)] = Len(TextOf(g, k - 1))
    BY <1>6 DEF n
  <2>3. \A i \in 1..Len(w) : LaidLine(g, w, blk, off, i, again)
    BY <1>5 DEF n
  <2> HIDE DEF k
  <2> QED
    BY <1>1, <1>2, <2>1, <2>2, <2>3, LaidContinues
<1> QED
  BY <1>2, <1>8 DEF g, m

\* A patch may be appended once more at any line of it, or before it.
LEMMA LaidAgain ==
  ASSUME Chainable, NEW h \in Seq(Versions), NEW w, w \in Seq(Range(w)), NEW blk, NEW off,
         NEW again, \A i \in 1..Len(w) : LaidLine(h, w, blk, off, i, again),
         NEW more, more # 0, NEW k, k = Len(h), k > 1, Len(w) > 0,
         \/ blk[Len(w)] = k - 1 /\ off[Len(w)] = Len(TextOf(h, k - 1))
         \/ blk[Len(w)] = k
  PROVE  \E b, o : Continues(h, w, k, blk, off, more, b, o)
<1>1. \A i \in 1..Len(w) : LaidLine(h, w, blk, off, i, more)
  BY DEF LaidLine
<1>2. Len(h) \in Nat /\ h # <<>>
  BY EmptySeq
<1>3. k # 1 /\ Len(w) # 0
  BY <1>2
<1>4. \/ blk[Len(w)] = k - 1 /\ off[Len(w)] = Len(TextOf(h, k - 1))
      \/ more # 0 /\ k > 1 /\ blk[Len(w)] = k
  OBVIOUS
<1> QED
  BY <1>1, <1>2, <1>3, <1>4, LaidContinues

-----------------------------------------------------------------------------
(* Manifest::Parse over the lines of a file.                                 *)

Parsing == INSTANCE FoldFacts WITH
  Op <- LAMBDA c, r, line : IF r.status = "rejected" THEN r ELSE ReadLineOf(r, line)

\* The reader after the lines w, before it has met the end of the file.
ParseTo(w) ==
  FoldLeft(LAMBDA r, line : IF r.status = "rejected" THEN r ELSE ReadLineOf(r, line), Fresh, w)

LEMMA ParseFolds ==
  ASSUME NEW w
  PROVE  ParseTo(w) = Parsing!Fold(0, Fresh, w)
BY DEF ParseTo, FoldLeft, MapThenFoldSet, Max,
       Parsing!Fold, Parsing!FoldLeft, Parsing!MapThenFoldSet, Parsing!Max

\* Before the first line, and from one line to the next.
LEMMA ParseStarts == ParseTo(<<>>) = Fresh
BY ParseFolds, Parsing!FoldEmpty

LEMMA ParseStep ==
  ASSUME NEW w, w \in Seq(Range(w)), NEW n \in Nat, n + 1 \in 1..Len(w)
  PROVE  LET r == ParseTo(SubSeq(w, 1, n))
         IN ParseTo(SubSeq(w, 1, n + 1))
              = IF r.status = "rejected" THEN r ELSE ReadLineOf(r, w[n + 1])
<1> DEFINE s == SubSeq(w, 1, n)
           a == w[n + 1]
           r == ParseTo(s)
<1>1. Append(s, a) = SubSeq(w, 1, n + 1)
  BY SubSeqGrows
<1>2. s \in Seq(Range(w)) /\ a \in Range(w)
  BY DEF Range
<1> HIDE DEF s, a
<1>3. Parsing!Fold(0, Fresh, Append(s, a))
        = LET q == Parsing!Fold(0, Fresh, s)
          IN IF q.status = "rejected" THEN q ELSE ReadLineOf(q, a)
  BY <1>2, Parsing!FoldAppend
<1>4. ParseTo(Append(s, a)) = IF r.status = "rejected" THEN r ELSE ReadLineOf(r, a)
  BY <1>3, ParseFolds
<1> QED
  BY <1>1, <1>4 DEF s, a

IsReader(r) ==
  r = [status |-> r.status, m |-> r.m, base |-> r.base, section |-> r.section,
       firstLine |-> r.firstLine, patchMode |-> r.patchMode, indentWidth |-> r.indentWidth]

\* A line can only turn a reader down, and the base is settled by the first one.
LEMMA ReadKeeps ==
  ASSUME NEW r, IsReader(r), NEW line
  PROVE  LET q == ReadLineOf(r, line)
         IN /\ IsReader(q)
            /\ q.status \in {r.status, "rejected"}
            /\ ~q.firstLine
            /\ ~r.firstLine => q.base = r.base
            /\ r.base # NilId => q.status = r.status
<1> DEFINE q == ReadLineOf(r, line)
           Good(x) == /\ IsReader(x)
                      /\ x.status \in {r.status, "rejected"}
                      /\ ~x.firstLine
                      /\ ~r.firstLine => x.base = r.base
                      /\ r.base # NilId => x.status = r.status
<1>1. ASSUME line.kind # "id"
      PROVE  Good(q)
  <2> DEFINE v == Width(r.indentWidth, line)
             s == Append(r.section, EntryAtDepth(line.entry, DepthOf(v, line)))
  <2>1. q = [r EXCEPT !.section = s, !.indentWidth = v, !.firstLine = FALSE]
    BY <1>1 DEF ReadLineOf, ReadEntry
  <2> HIDE DEF q, s, v
  <2>2. q = [status |-> r.status, m |-> r.m, base |-> r.base, section |-> s,
             firstLine |-> FALSE, patchMode |-> r.patchMode, indentWidth |-> v]
    BY <2>1 DEF IsReader
  <2> QED
    BY <2>2 DEF IsReader
<1>2. ASSUME line.kind = "id", r.firstLine, r.section = <<>>
      PROVE  Good(q)
  <2>1. q = [r EXCEPT !.base = line.id, !.firstLine = FALSE]
    BY <1>2 DEF ReadLineOf, ReadId
  <2> HIDE DEF q
  <2>2. q = [status |-> r.status, m |-> r.m, base |-> line.id, section |-> r.section,
             firstLine |-> FALSE, patchMode |-> r.patchMode, indentWidth |-> r.indentWidth]
    BY <2>1 DEF IsReader
  <2> QED
    BY <1>2, <2>2 DEF IsReader
<1>3. ASSUME line.kind = "id", ~(r.firstLine /\ r.section = <<>>)
      PROVE  Good(q)
  <2> DEFINE x == IF ~r.patchMode THEN r.m \o r.section
                  ELSE IF r.section = <<>> THEN r.m ELSE ApplyPatch(r.m, r.section)
             a == [ApplySection(r) EXCEPT !.patchMode = TRUE, !.firstLine = FALSE]
             z == IF a.base = NilId /\ ~(ComputeC4ID(a.m) = line.id) THEN "rejected" ELSE a.status
  <2>1. ApplySection(r) = [r EXCEPT !.m = x, !.section = <<>>]
    BY DEF ApplySection, IsReader
  <2>2. a = [[r EXCEPT !.m = x, !.section = <<>>] EXCEPT !.patchMode = TRUE, !.firstLine = FALSE]
    BY <2>1
  <2>3. q = [a EXCEPT !.status = z]
    BY <1>3 DEF ReadLineOf, ReadId
  <2> HIDE DEF x, a, q
  <2>4. a = [status |-> r.status, m |-> x, base |-> r.base, section |-> <<>>,
             firstLine |-> FALSE, patchMode |-> TRUE, indentWidth |-> r.indentWidth]
    BY <2>2 DEF IsReader
  <2>5. z \in {r.status, "rejected"} /\ (r.base # NilId => z = r.status)
    BY <2>4
  <2> HIDE DEF z
  <2>6. q = [status |-> z, m |-> x, base |-> r.base, section |-> <<>>,
             firstLine |-> FALSE, patchMode |-> TRUE, indentWidth |-> r.indentWidth]
    BY <2>3, <2>4
  <2> QED
    BY <2>5, <2>6 DEF IsReader
<1>4. Good(q)
  BY <1>1, <1>2, <1>3
<1> QED
  BY <1>4

LEMMA ParsedIs ==
  ASSUME NEW w, w \in Seq(Range(w)), NEW n \in 0..Len(w)
  PROVE  LET r == ParseTo(SubSeq(w, 1, n))
         IN IsReader(r) /\ r.status \in {"reading", "rejected"}
<1> DEFINE R(i) == ParseTo(SubSeq(w, 1, i))
           Good(i) == IsReader(R(i)) /\ R(i).status \in {"reading", "rejected"}
           S == {i \in Nat : i <= Len(w) => Good(i)}
<1>1. Len(w) \in Nat /\ n \in Nat /\ n <= Len(w)
  BY LenProperties
<1>2. 0 \in S
  <2>1. SubSeq(w, 1, 0) = <<>>
    BY SubSeqEmpty
  <2>2. IsReader(Fresh) /\ Fresh.status = "reading"
    BY DEF Fresh, IsReader
  <2>3. Good(0)
    BY <2>1, <2>2, ParseStarts
  <2> QED
    BY <2>3
<1>3. ASSUME NEW i \in Nat, i \in S
      PROVE  i + 1 \in S
  <2> SUFFICES ASSUME i + 1 <= Len(w) PROVE Good(i + 1)
    OBVIOUS
  <2>1. i + 1 \in 1..Len(w) /\ i <= Len(w)
    BY <1>1
  <2>2. Good(i)
    BY <1>3, <2>1
  <2>3. R(i + 1) = IF R(i).status = "rejected" THEN R(i) ELSE ReadLineOf(R(i), w[i + 1])
    BY <2>1, ParseStep
  <2> DEFINE r == R(i)
             q == R(i + 1)
  <2>4. q = (IF r.status = "rejected" THEN r ELSE ReadLineOf(r, w[i + 1]))
        /\ IsReader(r) /\ r.status \in {"reading", "rejected"}
    BY <2>2, <2>3
  <2> HIDE DEF r, q
  <2>5. IsReader(q) /\ q.status \in {"reading", "rejected"}
    BY <2>4, ReadKeeps
  <2> QED
    BY <2>5 DEF q
<1>4. Nat \subseteq S
  <2> HIDE DEF S
  <2> QED
    BY <1>2, <1>3, Parsing!NatInSet
<1> QED
  BY <1>1, <1>4

\* A reader in the text of a history is where the text says, unless it met a
\* patch that was started again and was turned down.
LEMMA ParsedAt ==
  ASSUME Chainable, NEW h, NEW w, NEW blk, NEW off, NEW again, again # 0 => Telling,
         Laid(h, w, blk, off, again), NEW n \in 1..Len(w),
         again # 0 => ParseTo(SubSeq(w, 1, n)).status = "reading"
  PROVE  ReaderAt(h, ParseTo(SubSeq(w, 1, n)), blk[n], off[n])
<1> DEFINE Goes(i) == again # 0 => ParseTo(SubSeq(w, 1, i)).status = "reading"
           There(i) == Goes(i) => ReaderAt(h, ParseTo(SubSeq(w, 1, i)), blk[i], off[i])
           S == {i \in Nat : i \in 1..Len(w) => There(i)}
<1>1. h \in Seq(Versions) /\ w \in Seq(Range(w)) /\ Len(w) \in Nat
  BY DEF Laid
<1>2. \A i \in 1..Len(w) : LaidLine(h, w, blk, off, i, again)
  BY DEF Laid
<1>3. 0 \in S
  OBVIOUS
<1>4. ASSUME NEW i \in Nat, i \in S
      PROVE  i + 1 \in S
  <2> SUFFICES ASSUME i + 1 \in 1..Len(w), Goes(i + 1)
               PROVE  ReaderAt(h, ParseTo(SubSeq(w, 1, i + 1)), blk[i + 1], off[i + 1])
    OBVIOUS
  <2> DEFINE r == ParseTo(SubSeq(w, 1, i))
             k == blk[i + 1]
             j == off[i + 1]
  <2>1. ParseTo(SubSeq(w, 1, i + 1)) = IF r.status = "rejected" THEN r ELSE ReadLineOf(r, w[i + 1])
    BY <1>1, ParseStep
  <2>2. LaidLine(h, w, blk, off, i + 1, again)
    BY <1>2
  <2>3. k \in 1..Len(h) /\ w[i + 1] = TextOf(h, k)[j] /\ j \in 1..Len(TextOf(h, k))
    BY <2>2 DEF LaidLine
  <2>4. Len(h) \in Nat
    BY <1>1
  <2>5. CASE i = 0
    <3>1. SubSeq(w, 1, i) = <<>>
      BY <1>1, <2>5, SubSeqEmpty
    <3>2. r = Fresh /\ Fresh.status = "reading"
      <4>1. r = ParseTo(<<>>)
        BY <3>1
      <4>2. Fresh.status = "reading"
        BY DEF Fresh
      <4> HIDE DEF r
      <4> QED
        BY <4>1, <4>2, ParseStarts
    <3>3. k = 1 /\ j = 1
      BY <2>2, <2>5 DEF LaidLine
    <3> HIDE DEF r, k, j
    <3>4. ReaderAt(h, ReadLineOf(Fresh, TextOf(h, 1)[1]), 1, 1)
      BY <1>1, <2>3, <3>3, FirstLineRead
    <3> QED
      BY <2>1, <2>3, <3>2, <3>3, <3>4 DEF k, j
  <2>6. CASE i # 0
    <3> DEFINE x == blk[i]
               y == off[i]
    <3>1. i \in 1..Len(w) /\ (i + 1) - 1 = i /\ i + 1 > 1 /\ i + 1 # 1
      BY <1>1, <2>6
    <3>2. ReaderAt(h, r, x, y)
      <4>1. r.status = "rejected" => ParseTo(SubSeq(w, 1, i + 1)) = r
        BY <2>1
      <4>2. r.status \in {"reading", "rejected"}
        BY <1>1, <3>1, ParsedIs
      <4>3. Goes(i)
        BY <4>1, <4>2
      <4> QED
        BY <1>4, <3>1, <4>3
    <3>3. LaidLine(h, w, blk, off, i, again)
      BY <1>2, <3>1
    <3>4. x \in 1..Len(h) /\ y \in 1..Len(TextOf(h, x)) /\ y \in Nat \ {0}
      BY <3>3 DEF LaidLine
    <3>5. r.status # "rejected"
      BY <3>2 DEF ReaderAt, InFirst, InPatch, Confirmed, Reader
    <3>6. ParseTo(SubSeq(w, 1, i + 1)) = ReadLineOf(r, TextOf(h, k)[j])
      BY <2>1, <2>3, <3>5
    <3>7. \/ k = x /\ j = y + 1
          \/ k = x + 1 /\ j = 1 /\ y = Len(TextOf(h, x))
          \/ again # 0 /\ k = x /\ k > 1 /\ j = 1
      BY <2>2, <3>1 DEF LaidLine
    <3> HIDE DEF r, x, y, k, j
    <3>8. CASE k = x /\ j = y + 1
      <4>1. y < Len(TextOf(h, x))
        <5>1. Len(TextOf(h, x)) \in Nat
          BY <1>1, <3>4, TextIs
        <5> QED
          BY <2>3, <3>4, <3>8, <5>1
      <4>2. ReaderAt(h, ReadLineOf(r, TextOf(h, x)[y + 1]), x, y + 1)
        BY <1>1, <3>2, <3>4, <4>1, NextLineRead
      <4> QED
        BY <3>6, <3>8, <4>2 DEF k, j
    <3>9. CASE k = x + 1 /\ j = 1 /\ y = Len(TextOf(h, x))
      <4>1. ReaderAt(h, ReadLineOf(r, TextOf(h, x + 1)[1]), x + 1, 1)
        BY <1>1, <2>3, <3>2, <3>4, <3>9, NextVersionRead
      <4> QED
        BY <3>6, <3>9, <4>1 DEF k, j
    <3>10. CASE again # 0 /\ k = x /\ k > 1 /\ j = 1
      <4>1. Telling /\ x \in 2..Len(h) /\ y <= Len(TextOf(h, x))
        BY <2>4, <3>4, <3>10
      <4>2. ReadLineOf(r, TextOf(h, x)[1]).status = "reading"
        BY <3>6, <3>10
      <4>3. ReaderAt(h, ReadLineOf(r, TextOf(h, x)[1]), x, 1)
        BY <1>1, <3>2, <3>4, <4>1, <4>2, AgainRead
      <4> QED
        BY <3>6, <3>10, <4>3 DEF k, j
    <3> QED
      BY <3>7, <3>8, <3>9, <3>10
  <2> QED
    BY <2>5, <2>6
<1>5. Nat \subseteq S
  <2> HIDE DEF S
  <2> QED
    BY <1>3, <1>4, Parsing!NatInSet
<1>6. n \in Nat
  OBVIOUS
<1> QED
  BY <1>5, <1>6

\* At the end of the text the section that the end of the file applies leads to
\* the last version.
LEMMA ParsedAll ==
  ASSUME Chainable, NEW h, NEW w, NEW blk, NEW off, NEW again, again # 0 => Telling,
         Laid(h, w, blk, off, again), h # <<>>, again # 0 => ParseTo(w).status = "reading"
  PROVE  /\ ParseTo(w).status = "reading"
         /\ ApplySection(ParseTo(w)).m = SortEntries(Last(h))
         /\ ApplySection(ParseTo(w)).status = "reading"
<1> DEFINE k == Len(h)
           j == Len(TextOf(h, k))
           r == ParseTo(w)
<1>1. h \in Seq(Versions) /\ w \in Seq(Range(w)) /\ w # <<>> /\ Len(w) \in Nat /\ k \in Nat
  BY DEF Laid
<1>2. SubSeq(w, 1, Len(w)) = w /\ Len(w) \in 1..Len(w) /\ k \in 1..Len(h)
  BY <1>1, SubSeqFull
<1>3. blk[Len(w)] = k /\ off[Len(w)] = j
  BY DEF Laid
<1>4. ReaderAt(h, r, k, j)
  BY <1>2, <1>3, ParsedAt
<1> HIDE DEF r
<1>5. StateOf(h, k) = SortEntries(Last(h))
  BY DEF StateOf, Last
<1>6. CASE k = 1
  <2> DEFINE s == StateOf(h, 1)
  <2>1. 1 \in 1..Len(h)
    BY <1>2, <1>6
  <2>2. Readable(s) /\ j = Len(s)
    BY <1>1, <1>6, <2>1, FirstText
  <2>3. Applied(<<>>, s, FALSE) = s
    BY <1>1, <2>1, FirstApplied
  <2> HIDE DEF s
  <2>4. InFirst(h, r, Len(s))
    BY <1>4, <1>6, <2>2 DEF ReaderAt
  <2>5. PICK v \in {0, 2} : r = Reader(<<>>, SubSeq(s, 1, Len(s)), FALSE, FALSE, v)
    BY <2>4 DEF InFirst, s
  <2>6. r = Reader(<<>>, s, FALSE, FALSE, v)
    BY <2>2, <2>5, PartOf
  <2>7. r.m = <<>> /\ r.section = s /\ r.patchMode = FALSE /\ r.status = "reading"
        /\ r = [status |-> r.status, m |-> r.m, base |-> r.base, section |-> r.section,
                firstLine |-> r.firstLine, patchMode |-> r.patchMode, indentWidth |-> r.indentWidth]
    BY <2>6 DEF Reader
  <2>8. ApplySection(r).m = Applied(<<>>, s, FALSE) /\ ApplySection(r).status = "reading"
    BY <2>7 DEF ApplySection, Applied
  <2> QED
    BY <1>5, <1>6, <2>3, <2>7, <2>8 DEF s, r
<1>7. CASE k # 1
  <2> DEFINE s == StateOf(h, k)
  <2>1. k \in 2..Len(h)
    <3>1. \A x \in Nat : x \in 1..x /\ x # 1 => x \in 2..x
      OBVIOUS
    <3> QED
      BY ONLY <1>1, <1>2, <1>7, <3>1
  <2>2. j = Len(PatchOf(h, k)) + 2 /\ Len(PatchOf(h, k)) \in Nat
    BY <1>1, <2>1, LaterText
  <2> HIDE DEF s
  <2>3. Confirmed(h, r, k)
    BY <1>4, <1>7, <2>2 DEF ReaderAt
  <2>4. PICK v \in {0, 2} : r = Reader(s, <<>>, FALSE, TRUE, v)
    BY <2>3 DEF Confirmed, s
  <2>5. r.m = s /\ r.section = <<>> /\ r.patchMode = TRUE /\ r.status = "reading"
        /\ r = [status |-> r.status, m |-> r.m, base |-> r.base, section |-> r.section,
                firstLine |-> r.firstLine, patchMode |-> r.patchMode, indentWidth |-> r.indentWidth]
    BY <2>4 DEF Reader
  <2>6. ApplySection(r).m = s /\ ApplySection(r).status = "reading"
    BY <2>5 DEF ApplySection
  <2> QED
    BY <1>5, <2>5, <2>6 DEF s, r
<1> QED
  BY <1>6, <1>7

-----------------------------------------------------------------------------
(* The checkpoints among the lines.                                          *)

\* The IDs among the first n lines of w.
IDsIn(w, n) == {i \in 1..n : w[i].kind = "id"}

\* As many as there are up to line j of the k-th version of h.
Marks(h, k, j) ==
  IF k = 1 THEN 0 ELSE 2 * (k - 2) + (IF j = Len(TextOf(h, k)) THEN 2 ELSE 1)

LEMMA IDsCounted ==
  ASSUME Chainable, NEW h, NEW w, NEW blk, NEW off, Laid(h, w, blk, off, 0), NEW n \in 1..Len(w)
  PROVE  IsFiniteSet(IDsIn(w, n)) /\ Cardinality(IDsIn(w, n)) = Marks(h, blk[n], off[n])
<1> DEFINE Right(i) == /\ IsFiniteSet(IDsIn(w, i))
                       /\ Cardinality(IDsIn(w, i)) = Marks(h, blk[i], off[i])
           S == {i \in Nat : i \in 1..Len(w) => Right(i)}
<1>1. h \in Seq(Versions) /\ Len(w) \in Nat
  BY DEF Laid
<1>2. \A i \in 1..Len(w) : LaidLine(h, w, blk, off, i, 0)
  BY DEF Laid
<1>3. 0 \in S
  OBVIOUS
<1>4. ASSUME NEW i \in Nat, i \in S
      PROVE  i + 1 \in S
  <2> SUFFICES ASSUME i + 1 \in 1..Len(w) PROVE Right(i + 1)
    OBVIOUS
  <2> DEFINE a == IDsIn(w, i)
             b == IDsIn(w, i + 1)
             k == blk[i + 1]
             j == off[i + 1]
             id == w[i + 1].kind = "id"
  <2>1. b = IF id THEN a \cup {i + 1} ELSE a
    <3>1. 1..(i + 1) = 1..i \cup {i + 1}
      OBVIOUS
    <3> QED
      BY <3>1 DEF IDsIn
  <2>2. i + 1 \notin a
    BY DEF IDsIn
  <2>3. ASSUME IsFiniteSet(a)
        PROVE  /\ IsFiniteSet(b) /\ Cardinality(a) \in Nat
               /\ Cardinality(b) = IF id THEN Cardinality(a) + 1 ELSE Cardinality(a)
    <3> HIDE DEF a, b, id
    <3> QED
      BY <2>1, <2>2, <2>3, FS_AddElement, FS_CardinalityType
  <2>4. LaidLine(h, w, blk, off, i + 1, 0)
    BY <1>2
  <2>5. k \in 1..Len(h) /\ Len(h) \in Nat /\ j \in 1..Len(TextOf(h, k)) /\ w[i + 1] = TextOf(h, k)[j]
    BY <1>1, <2>4 DEF LaidLine
  <2>6. /\ id <=> k > 1 /\ (j = 1 \/ j = Len(TextOf(h, k)))
        /\ k > 1 => Len(TextOf(h, k)) > 1
        /\ Len(TextOf(h, k)) \in Nat
    BY <1>1, <2>5, TextIs
  <2>7. Len(TextOf(h, k)) \in Nat /\ (k > 1 => Len(TextOf(h, k)) > 1)
    BY <2>6
  <2>8. CASE i = 0
    <3>1. a = {}
      BY <2>8 DEF IDsIn
    <3>2. IsFiniteSet(a) /\ Cardinality(a) = 0
      BY <3>1, FS_EmptySet
    <3>3. k = 1
      BY <2>4, <2>8 DEF LaidLine
    <3> HIDE DEF a, b, id, k, j
    <3>4. IsFiniteSet(b) /\ Cardinality(b) = 0
      BY <2>3, <2>6, <3>2, <3>3
    <3> QED
      BY <3>3, <3>4 DEF Marks, b, k
  <2>9. CASE i # 0
    <3> DEFINE x == blk[i]
               y == off[i]
    <3>1. i \in 1..Len(w) /\ (i + 1) - 1 = i /\ i + 1 > 1 /\ i + 1 # 1
      BY <1>1, <2>9
    <3>2. IsFiniteSet(a) /\ Cardinality(a) = Marks(h, x, y)
      BY <1>4, <3>1
    <3>3. x \in 1..Len(h) /\ y \in 1..Len(TextOf(h, x))
      BY <1>2, <3>1 DEF LaidLine
    <3>4. Len(TextOf(h, x)) \in Nat
      BY <1>1, <3>3, TextIs
    <3>5. \/ k = x /\ j = y + 1
          \/ k = x + 1 /\ j = 1 /\ y = Len(TextOf(h, x))
      BY <2>4, <3>1 DEF LaidLine
    <3> HIDE DEF a, b, id, k, j, x, y
    <3>6. IsFiniteSet(b) /\ Cardinality(b) = IF id THEN Cardinality(a) + 1 ELSE Cardinality(a)
      BY <2>3, <3>2
    <3>7. CASE k = x /\ j = y + 1
      <4>1. y # Len(TextOf(h, x))
        BY <2>5, <3>3, <3>4, <3>7
      <4>2. id <=> k > 1 /\ j = Len(TextOf(h, k))
        BY <2>5, <2>6, <3>3, <3>7
      <4>3. Marks(h, k, j) = IF id THEN Marks(h, x, y) + 1 ELSE Marks(h, x, y)
        BY <2>5, <3>7, <4>1, <4>2 DEF Marks
      <4> QED
        BY <3>2, <3>6, <4>3 DEF b, k, j
    <3>8. CASE k = x + 1 /\ j = 1 /\ y = Len(TextOf(h, x))
      <4>1. id /\ k > 1 /\ j # Len(TextOf(h, k)) /\ x \in Nat
        <5>1. k > 1 /\ x \in Nat
          BY <3>3, <3>8
        <5>2. Len(TextOf(h, k)) \in Nat /\ Len(TextOf(h, k)) > 1
          BY <2>7, <5>1
        <5>3. \A z \in Nat : z > 1 => z # 1
          OBVIOUS
        <5>4. j # Len(TextOf(h, k))
          BY ONLY <3>8, <5>2, <5>3
        <5> QED
          BY <2>6, <3>8, <5>1, <5>4, Zenon
      <4>2. Marks(h, k, j) = Marks(h, x, y) + 1
        BY <3>3, <3>8, <4>1 DEF Marks
      <4> QED
        BY <3>2, <3>6, <4>1, <4>2 DEF b, k, j
    <3> QED
      BY <3>5, <3>7, <3>8
  <2> QED
    BY <2>8, <2>9
<1>5. Nat \subseteq S
  <2> HIDE DEF S
  <2> QED
    BY <1>3, <1>4, Parsing!NatInSet
<1>6. n \in Nat
  OBVIOUS
<1> QED
  BY <1>5, <1>6

-----------------------------------------------------------------------------
(* What holds in every state.                                                *)

\* A reader of patches to a version kept elsewhere checks nothing.
LEMMA ExternalIsRead ==
  ASSUME NEW w, w \in Seq(Range(w)), w # <<>>, w[1].kind = "id", w[1].id # NilId,
         NEW n \in 0..Len(w)
  PROVE  ParseTo(SubSeq(w, 1, n)).status = "reading"
<1> DEFINE R(i) == ParseTo(SubSeq(w, 1, i))
           Good(i) == /\ IsReader(R(i)) /\ R(i).status = "reading"
                      /\ i > 0 => ~R(i).firstLine /\ R(i).base # NilId
           S == {i \in Nat : i <= Len(w) => Good(i)}
<1>1. Len(w) \in Nat /\ n \in Nat /\ n <= Len(w)
  BY LenProperties
<1>2. R(0) = Fresh
  <2>1. SubSeq(w, 1, 0) = <<>>
    BY SubSeqEmpty
  <2> QED
    BY <2>1, ParseStarts
<1>3. IsReader(Fresh) /\ Fresh.status = "reading"
  BY DEF Fresh, IsReader
<1>4. 0 \in S
  BY <1>2, <1>3
<1>5. ASSUME NEW i \in Nat, i \in S
      PROVE  i + 1 \in S
  <2> SUFFICES ASSUME i + 1 <= Len(w) PROVE Good(i + 1)
    OBVIOUS
  <2>1. i + 1 \in 1..Len(w) /\ i <= Len(w)
    BY <1>1
  <2>2. Good(i)
    BY <1>5, <2>1
  <2>3. R(i + 1) = IF R(i).status = "rejected" THEN R(i) ELSE ReadLineOf(R(i), w[i + 1])
    BY <2>1, ParseStep
  <2> DEFINE r == R(i)
             q == R(i + 1)
  <2>4. q = ReadLineOf(r, w[i + 1]) /\ IsReader(r) /\ r.status = "reading"
    BY <2>2, <2>3
  <2>5. i > 0 => ~r.firstLine /\ r.base # NilId
    BY <2>2
  <2>6. i = 0 => r = Fresh
    BY <1>2
  <2> HIDE DEF r, q
  <2>7. CASE i = 0
    <3>1. q = [Fresh EXCEPT !.base = w[1].id, !.firstLine = FALSE]
      <4>1. q = ReadLineOf(Fresh, w[1]) /\ i + 1 = 1
        BY <2>4, <2>6, <2>7
      <4>2. Fresh.firstLine /\ Fresh.section = <<>>
        BY DEF Fresh
      <4> QED
        BY <4>1, <4>2 DEF ReadLineOf, ReadId
    <3>2. q.base = w[1].id
      BY <3>1 DEF Fresh
    <3>3. q.status = "reading"
      BY <3>1 DEF Fresh
    <3> QED
      BY <2>4, <3>2, <3>3, ReadKeeps DEF q
  <2>8. CASE i # 0
    <3>1. ~r.firstLine /\ r.base # NilId
      BY <2>5, <2>8
    <3>2. IsReader(q) /\ ~q.firstLine /\ q.base = r.base /\ q.status = r.status
      BY <2>4, <3>1, ReadKeeps
    <3> QED
      BY <2>4, <3>1, <3>2 DEF q
  <2> QED
    BY <2>7, <2>8
<1>6. Nat \subseteq S
  <2> HIDE DEF S
  <2> QED
    BY <1>4, <1>5, Parsing!NatInSet
<1> QED
  BY <1>1, <1>6

\* The file and the queue are lines, of which the reader has read some.
LinesHold ==
  /\ log \in Seq(Versions)
  /\ file \in Seq(Range(file))
  /\ queue \in Seq(Range(queue))
  /\ pos \in 0..Len(file)
  /\ retries \in 0..MaxRetries
  /\ external \in BOOLEAN

\* The reader is a parser of what it has read.
ReaderHolds ==
  /\ IsReader(reader)
  /\ reader.status \in {"reading", "rejected"} => reader = ParseTo(SubSeq(file, 1, pos))
  /\ reader.status = "done" =>
       LET r == ParseTo(SubSeq(file, 1, pos))
       IN r.status = "reading" /\ reader.m = ApplySection(r).m

\* Of the text x the first n lines are in the file: what is not is of the last
\* version, and what is goes up to a line of it or to the end of the one before.
Pending(h, x, n, blk, off) ==
  /\ \A i \in 1..Len(x) : i > n => blk[i] = Len(h)
  /\ Len(h) > 1 =>
       /\ n > 0
       /\ \/ blk[n] = Len(h) - 1 /\ off[n] = Len(TextOf(h, Len(h) - 1))
          \/ blk[n] = Len(h)

Written(h, x, n, again) ==
  \E blk, off : Laid(h, x, blk, off, again) /\ Pending(h, x, n, blk, off)

\* The file and what is still to be written is the text of the versions
\* committed; for a chain of patches only, all that counts is that it starts
\* with an ID.
HistoryHolds ==
  /\ ~external => Written(log, file \o queue, Len(file), retries)
  /\ external => /\ log # <<>>
                 /\ file \o queue # <<>> =>
                      (file \o queue)[1].kind = "id" /\ (file \o queue)[1].id # NilId

ChainHolds == LinesHold /\ ReaderHolds /\ HistoryHolds

LEMMA JoinLines ==
  ASSUME NEW s, NEW t, s \in Seq(Range(s)), t \in Seq(Range(t))
  PROVE  /\ s \o t \in Seq(Range(s \o t))
         /\ Len(s \o t) = Len(s) + Len(t) /\ Len(s) \in Nat /\ Len(t) \in Nat
         /\ \A i \in 1..Len(s) : (s \o t)[i] = s[i]
         /\ \A n \in 0..Len(s) : SubSeq(s \o t, 1, n) = SubSeq(s, 1, n)
<1> DEFINE V == Range(s) \cup Range(t)
           x == s \o t
<1>1. s \in Seq(V) /\ t \in Seq(V)
  OBVIOUS
<1> HIDE DEF V
<1>2. /\ x \in Seq(V) /\ Len(x) = Len(s) + Len(t) /\ Len(s) \in Nat /\ Len(t) \in Nat
      /\ \A i \in 1..Len(s) : x[i] = s[i]
  BY <1>1
<1> HIDE DEF x
<1>3. x \in Seq(Range(x))
  BY <1>2, InOwnRange
<1>4. ASSUME NEW n \in 0..Len(s)
      PROVE  SubSeq(x, 1, n) = SubSeq(s, 1, n)
  <2> DEFINE a == SubSeq(x, 1, n)
             b == SubSeq(s, 1, n)
  <2>1. a \in Seq(V) /\ Len(a) = n /\ \A i \in 1..n : a[i] = x[i]
    BY <1>1, <1>2
  <2>2. b \in Seq(V) /\ Len(b) = n /\ \A i \in 1..n : b[i] = s[i]
    BY <1>1, <1>2
  <2> HIDE DEF a, b
  <2>3. \A i \in 1..n : a[i] = b[i]
    BY <1>2, <2>1, <2>2
  <2>4. a = b
    BY <2>1, <2>2, <2>3, SeqEqual
  <2> QED
    BY <2>4 DEF a, b
<1> QED
  BY <1>2, <1>3, <1>4 DEF x

\* A line goes from the queue to the file: nothing of the whole changes.
LEMMA FlushJoins ==
  ASSUME NEW s, NEW t, s \in Seq(Range(s)), t \in Seq(Range(t)), t # <<>>
  PROVE  LET a == Append(s, Head(t))
             b == Tail(t)
         IN /\ a \in Seq(Range(a)) /\ b \in Seq(Range(b))
            /\ Len(a) = Len(s) + 1 /\ Len(s) \in Nat
            /\ \A i \in 1..Len(s) : a[i] = s[i]
            /\ a \o b = s \o t
<1> DEFINE V == Range(s) \cup Range(t)
           a == Append(s, Head(t))
           b == Tail(t)
<1>1. s \in Seq(V) /\ t \in Seq(V)
  OBVIOUS
<1> HIDE DEF V
<1>2. Head(t) \in V /\ b \in Seq(V)
  BY <1>1
<1>3. a \in Seq(V) /\ Len(a) = Len(s) + 1 /\ Len(s) \in Nat /\ \A i \in 1..Len(s) : a[i] = s[i]
  BY <1>1, <1>2
<1>4. a = s \o <<Head(t)>> /\ t = <<Head(t)>> \o b
  BY <1>1, <1>2
<1>5. a \o b = s \o t
  <2>1. <<Head(t)>> \in Seq(V)
    BY <1>2
  <2> QED
    BY <1>1, <1>2, <1>4, <2>1, ConcatAssociative
<1> HIDE DEF a, b
<1>6. a \in Seq(Range(a)) /\ b \in Seq(Range(b))
  BY <1>2, <1>3, InOwnRange
<1> QED
  BY <1>3, <1>5, <1>6 DEF a, b

\* Before the first version there is nothing.
LEMMA NothingLaid == Laid(<<>>, <<>>, 0, 0, 0)
<1>1. <<>> \in Seq(Versions) /\ <<>> \in Seq(Range(<<>>)) /\ Len(<<>>) = 0
  BY EmptySeq
<1>2. \A i \in 1..Len(<<>>) : LaidLine(<<>>, <<>>, 0, 0, i, 0)
  BY <1>1
<1> QED
  BY <1>1, <1>2 DEF Laid

LEMMA ChainStarts == Init => ChainHolds
<1> SUFFICES ASSUME Init PROVE ChainHolds
  OBVIOUS
<1>1. log \in Seq(Versions) /\ external \in BOOLEAN
  <2>1. external \in BOOLEAN /\ (log = <<>> \/ \E v \in Versions : log = <<v>>)
    BY DEF Init
  <2>2. <<>> \in Seq(Versions) /\ \A v \in Versions : <<v>> \in Seq(Versions)
    OBVIOUS
  <2> QED
    BY <2>1, <2>2
<1>2. file = <<>> /\ queue = <<>> /\ pos = 0 /\ retries = 0 /\ reader = [Fresh EXCEPT !.status = "idle"]
  BY DEF Init
<1>3. <<>> \in Seq(Range(<<>>)) /\ Len(<<>>) = 0
  BY EmptySeq
<1>4. LinesHold
  <2>1. 0 \in 0..MaxRetries
    BY ChainAssumption
  <2> QED
    BY <1>1, <1>2, <1>3, <2>1 DEF LinesHold
<1>5. ReaderHolds
  BY <1>2 DEF ReaderHolds, IsReader, Fresh
<1>6. file \o queue = <<>>
  BY <1>2, <1>3
<1>7. external => log # <<>>
  BY DEF Init
<1>8. ~external => Written(log, file \o queue, Len(file), retries)
  <2> SUFFICES ASSUME ~external PROVE Written(<<>>, <<>>, 0, 0)
    <3>1. ~external => log = <<>>
      BY DEF Init
    <3> QED
      BY <1>2, <1>3, <1>6, <3>1
  <2>1. Laid(<<>>, <<>>, 0, 0, 0)
    BY NothingLaid
  <2>2. Pending(<<>>, <<>>, 0, 0, 0)
    BY <1>3 DEF Pending
  <2> QED
    BY <2>1, <2>2 DEF Written
<1>9. HistoryHolds
  BY <1>6, <1>7, <1>8 DEF HistoryHolds
<1> QED
  BY <1>4, <1>5, <1>9 DEF ChainHolds

\* What the writer appends.
LEMMA BlockIs ==
  ASSUME Chainable, NEW h \in Seq(Versions), NEW v \in Versions
  PROVE  /\ Block(h, v) \in Seq(Range(Block(h, v)))
         /\ Len(Block(h, v)) \in Nat \ {0}
         /\ h # <<>> => Block(h, v)[1].kind = "id" /\ Block(h, v)[1].id # NilId
<1> DEFINE g == Append(h, v)
           k == Len(h) + 1
           t == Block(h, v)
<1>1. /\ g \in Seq(Versions) /\ Len(g) = k /\ Len(h) \in Nat
      /\ TextOf(g, k) = t
  BY TextKept
<1> HIDE DEF g, t
<1>2. k \in 1..Len(g)
  BY <1>1
<1>3. t \in Seq(Range(t)) /\ Len(t) \in Nat \ {0}
  BY <1>1, <1>2, TextIs
<1>4. ASSUME h # <<>>
      PROVE  t[1].kind = "id" /\ t[1].id # NilId
  <2>1. Len(h) # 0
    BY <1>4, EmptySeq
  <2>2. k \in 2..Len(g)
    BY <1>1, <2>1
  <2>3. g[k - 1] \in Versions /\ t[1] = IdLine(ComputeC4ID(g[k - 1]))
    BY <1>1, <2>2, LaterText
  <2>4. ComputeC4ID(g[k - 1]) # NilId
    BY <2>3, IDIsKnown DEF Chainable
  <2> QED
    BY <2>3, <2>4 DEF IdLine
<1> QED
  BY <1>3, <1>4 DEF t

\* All but the last version.
LEMMA FrontOf ==
  ASSUME NEW V, NEW h \in Seq(V), Len(h) > 1
  PROVE  /\ Front(h) \in Seq(V) /\ Front(h) # <<>> /\ Last(h) \in V
         /\ Last(Front(h)) = h[Len(h) - 1]
<1>1. /\ Front(h) \in Seq(V) /\ Len(Front(h)) = Len(h) - 1 /\ Last(h) \in V
      /\ \A i \in 1..(Len(h) - 1) : Front(h)[i] = h[i]
  BY DEF Front, Last
<1>2. Len(h) - 1 \in 1..(Len(h) - 1) /\ Len(<<>>) = 0
  BY LenProperties
<1> QED
  BY <1>1, <1>2 DEF Last

\* What the writer does to the text.
LEMMA CommitWrites ==
  ASSUME Chainable, NEW h, NEW w, NEW again, Written(h, w, Len(w), again), NEW v \in Versions
  PROVE  Written(Append(h, v), w \o Block(h, v), Len(w), again)
<1> DEFINE g == Append(h, v)
           m == Len(h)
           n == Len(w)
           x == w \o Block(h, v)
<1>1. PICK blk, off : Laid(h, w, blk, off, again)
  BY DEF Written
<1>2. PICK b, o : Continues(g, w, m + 1, blk, off, again, b, o)
  BY <1>1, LaidGrows
<1>3. TextOf(g, m + 1) = Block(h, v)
  BY <1>1, LaidGrows
<1>4. h \in Seq(Versions) /\ w \in Seq(Range(w)) /\ m \in Nat /\ n \in Nat
  BY <1>1 DEF Laid
<1>5. /\ Len(g) = m + 1
      /\ \A k \in 1..m : TextOf(g, k) = TextOf(h, k)
  BY <1>4, TextKept
<1> HIDE DEF g
<1>6. /\ Laid(g, x, b, o, again)
      /\ \A i \in 1..n : b[i] = blk[i] /\ o[i] = off[i]
      /\ \A i \in 1..Len(x) : i > n => b[i] = m + 1
  BY <1>2, <1>3 DEF Continues
<1> HIDE DEF x
<1>7. ASSUME Len(g) > 1
      PROVE  n > 0 /\ b[n] = Len(g) - 1 /\ o[n] = Len(TextOf(g, Len(g) - 1))
  <2>1. h # <<>> /\ m \in 1..m /\ (m + 1) - 1 = m
    BY <1>4, <1>5, <1>7
  <2>2. w # <<>> /\ blk[n] = m /\ off[n] = Len(TextOf(h, m))
    BY <1>1, <2>1 DEF Laid
  <2>3. n > 0 /\ n \in 1..n
    BY <1>4, <2>2
  <2> QED
    BY <1>5, <1>6, <2>1, <2>2, <2>3
<1>8. Pending(g, x, n, b, o)
  BY <1>5, <1>6, <1>7 DEF Pending
<1> QED
  BY <1>6, <1>8 DEF Written, g, x

LEMMA FlushWrites ==
  ASSUME NEW h, NEW x, NEW n \in Nat, NEW again, Written(h, x, n, again), n < Len(x)
  PROVE  Written(h, x, n + 1, again)
<1>1. PICK blk, off : Laid(h, x, blk, off, again) /\ Pending(h, x, n, blk, off)
  BY DEF Written
<1>2. x \in Seq(Range(x)) /\ Len(x) \in Nat
  BY <1>1 DEF Laid
<1>3. n + 1 \in 1..Len(x) /\ n + 1 > n /\ n + 1 > 0
  BY <1>2
<1>4. blk[n + 1] = Len(h)
  BY <1>1, <1>3 DEF Pending
<1>5. \A i \in 1..Len(x) : i > n + 1 => blk[i] = Len(h)
  <2>1. \A i \in 1..Len(x) : i > n + 1 => i > n
    BY <1>2
  <2> QED
    BY <1>1, <2>1 DEF Pending
<1>6. Pending(h, x, n + 1, blk, off)
  BY <1>3, <1>4, <1>5 DEF Pending
<1> QED
  BY <1>1, <1>6 DEF Written

LEMMA RetryWrites ==
  ASSUME Chainable, NEW h, NEW s, NEW t, s \in Seq(Range(s)), t \in Seq(Range(t)), NEW again,
         NEW more, more # 0, Written(h, s \o t, Len(s), again), Len(h) > 1
  PROVE  Written(h, s \o Block(Front(h), Last(h)), Len(s), more)
<1> DEFINE x == s \o t
           n == Len(s)
           k == Len(h)
           y == s \o TextOf(h, k)
<1>1. PICK blk, off : Laid(h, x, blk, off, again) /\ Pending(h, x, n, blk, off)
  BY DEF Written
<1>2. h \in Seq(Versions) /\ k \in Nat /\ \A i \in 1..Len(x) : LaidLine(h, x, blk, off, i, again)
  BY <1>1 DEF Laid
<1>3. n \in Nat /\ Len(x) = n + Len(t) /\ Len(t) \in Nat /\ \A i \in 1..n : x[i] = s[i]
  BY JoinLines
<1> HIDE DEF x
<1>4. \A i \in 1..n : LaidLine(h, s, blk, off, i, again)
  <2> TAKE i \in 1..n
  <2>1. i \in 1..Len(x) /\ x[i] = s[i]
    BY <1>3
  <2> QED
    BY <1>2, <2>1 DEF LaidLine
<1>5. /\ n > 0
      /\ \/ blk[n] = k - 1 /\ off[n] = Len(TextOf(h, k - 1))
         \/ blk[n] = k
  BY <1>1 DEF Pending
<1> HIDE DEF n
<1>6. PICK b, o : Continues(h, s, k, blk, off, more, b, o)
  <2> HIDE DEF k
  <2>1. k = Len(h) /\ k > 1
    BY DEF k
  <2>2. \A i \in 1..Len(s) : LaidLine(h, s, blk, off, i, again)
    BY <1>4 DEF n
  <2>3. /\ Len(s) > 0
        /\ \/ blk[Len(s)] = k - 1 /\ off[Len(s)] = Len(TextOf(h, k - 1))
           \/ blk[Len(s)] = k
    BY <1>5 DEF n
  <2> QED
    BY <1>2, <2>1, <2>2, <2>3, LaidAgain
<1>7. /\ Laid(h, y, b, o, more)
      /\ \A i \in 1..n : b[i] = blk[i] /\ o[i] = off[i]
      /\ \A i \in 1..Len(y) : i > n => b[i] = k
  BY <1>6 DEF Continues, n
<1>8. n \in 1..n
  BY <1>3, <1>5
<1>9. Pending(h, y, n, b, o)
  <2> HIDE DEF y
  <2> QED
    BY <1>5, <1>7, <1>8 DEF Pending
<1>10. Block(Front(h), Last(h)) = TextOf(h, k)
  <2>1. Front(h) # <<>> /\ Last(Front(h)) = h[k - 1] /\ Last(h) = h[k] /\ k # 1
    BY <1>2, FrontOf DEF Last
  <2> QED
    BY <2>1 DEF Block, TextOf
<1> QED
  BY <1>7, <1>9, <1>10 DEF Written, n

LEMMA CommitHolds == ASSUME Chainable, ChainHolds, Commit PROVE ChainHolds'
<1>1. PICK v \in Versions : log' = Append(log, v) /\ queue' = Block(log, v)
  BY DEF Commit
<1>2. queue = <<>> /\ file' = file /\ pos' = pos /\ reader' = reader /\ retries' = retries
      /\ external' = external
  BY DEF Commit
<1>3. LinesHold /\ ReaderHolds /\ HistoryHolds
  BY DEF ChainHolds
<1>4. log \in Seq(Versions) /\ file \in Seq(Range(file)) /\ queue \in Seq(Range(queue))
  BY <1>3 DEF LinesHold
<1>5. /\ queue' \in Seq(Range(queue')) /\ Len(queue') \in Nat \ {0}
      /\ log # <<>> => queue'[1].kind = "id" /\ queue'[1].id # NilId
  BY <1>1, <1>4, BlockIs
<1>6. log' \in Seq(Versions) /\ log' # <<>>
  BY <1>1, <1>4
<1>7. LinesHold'
  BY <1>2, <1>3, <1>5, <1>6 DEF LinesHold
<1>8. ReaderHolds'
  BY <1>2, <1>3 DEF ReaderHolds
<1>9. file \o queue = file
  BY <1>2, <1>4
<1>10. ASSUME ~external
       PROVE  Written(log', file' \o queue', Len(file'), retries')
  <2>1. Written(log, file, Len(file), retries)
    BY <1>3, <1>9, <1>10 DEF HistoryHolds
  <2> QED
    BY <1>1, <1>2, <2>1, CommitWrites
<1>11. ASSUME external
       PROVE  (file' \o queue')[1].kind = "id" /\ (file' \o queue')[1].id # NilId
  <2>1. log # <<>> /\ (file # <<>> => file[1].kind = "id" /\ file[1].id # NilId)
    BY <1>3, <1>9, <1>11 DEF HistoryHolds
  <2>2. CASE file = <<>>
    <3>1. file' \o queue' = queue'
      BY <1>2, <1>5, <2>2
    <3> QED
      BY <1>5, <2>1, <3>1
  <2>3. CASE file # <<>>
    <3>1. 1 \in 1..Len(file)
      BY <1>4, <2>3
    <3>2. (file' \o queue')[1] = file[1]
      BY <1>2, <1>4, <1>5, <3>1, JoinLines
    <3> QED
      BY <2>1, <2>3, <3>2
  <2> QED
    BY <2>2, <2>3
<1>12. HistoryHolds'
  BY <1>2, <1>6, <1>10, <1>11 DEF HistoryHolds
<1> QED
  BY <1>7, <1>8, <1>12 DEF ChainHolds

LEMMA FlushHolds == ASSUME ChainHolds, Flush PROVE ChainHolds'
<1>1. /\ queue # <<>> /\ file' = Append(file, Head(queue)) /\ queue' = Tail(queue)
      /\ external' = external /\ log' = log /\ pos' = pos /\ reader' = reader /\ retries' = retries
  BY DEF Flush
<1>2. LinesHold /\ ReaderHolds /\ HistoryHolds
  BY DEF ChainHolds
<1>3. file \in Seq(Range(file)) /\ queue \in Seq(Range(queue)) /\ pos \in 0..Len(file)
  BY <1>2 DEF LinesHold
<1>4. /\ file' \in Seq(Range(file')) /\ queue' \in Seq(Range(queue'))
      /\ Len(file') = Len(file) + 1 /\ Len(file) \in Nat
      /\ file' \o queue' = file \o queue
  BY <1>1, <1>3, FlushJoins
<1>5. pos \in 0..Len(file')
  BY <1>3, <1>4
<1>6. SubSeq(file', 1, pos) = SubSeq(file, 1, pos)
  <2>1. SubSeq(file \o queue, 1, pos) = SubSeq(file, 1, pos)
    BY <1>3, JoinLines
  <2> DEFINE f == file'
             q == queue'
  <2>2. f \in Seq(Range(f)) /\ q \in Seq(Range(q)) /\ pos \in 0..Len(f)
    BY <1>4, <1>5
  <2> HIDE DEF f, q
  <2>3. SubSeq(f \o q, 1, pos) = SubSeq(f, 1, pos)
    BY <2>2, JoinLines
  <2> QED
    BY <1>4, <2>1, <2>3 DEF f, q
<1>7. LinesHold'
  BY <1>1, <1>2, <1>4, <1>5 DEF LinesHold
<1>8. ReaderHolds'
  BY <1>1, <1>2, <1>6 DEF ReaderHolds
<1>9. ASSUME ~external
      PROVE  Written(log, file \o queue, Len(file'), retries)
  <2>1. Written(log, file \o queue, Len(file), retries)
    BY <1>2, <1>9 DEF HistoryHolds
  <2>2. Len(file) < Len(file \o queue)
    <3>1. Len(file \o queue) = Len(file) + Len(queue) /\ Len(queue) \in Nat
      BY <1>3, JoinLines
    <3>2. Len(queue) # 0
      BY <1>1, <1>3, EmptySeq
    <3> QED
      BY <1>4, <3>1, <3>2
  <2> QED
    BY <1>4, <2>1, <2>2, FlushWrites
<1>10. HistoryHolds'
  BY <1>1, <1>2, <1>4, <1>9 DEF HistoryHolds
<1> QED
  BY <1>7, <1>8, <1>10 DEF ChainHolds

LEMMA RetryHolds == ASSUME Chainable, ChainHolds, Retry PROVE ChainHolds'
<1>1. /\ Len(log) > 1 /\ queue' = Block(Front(log), Last(log)) /\ retries' = retries + 1
      /\ external' = external /\ log' = log /\ file' = file /\ pos' = pos /\ reader' = reader
      /\ retries < MaxRetries
  BY DEF Retry
<1>2. LinesHold /\ ReaderHolds /\ HistoryHolds
  BY DEF ChainHolds
<1>3. /\ log \in Seq(Versions) /\ retries \in 0..MaxRetries
      /\ file \in Seq(Range(file)) /\ queue \in Seq(Range(queue))
  BY <1>2 DEF LinesHold
<1>4. Front(log) \in Seq(Versions) /\ Last(log) \in Versions /\ Front(log) # <<>>
  BY <1>1, <1>3, FrontOf
<1>5. /\ queue' \in Seq(Range(queue')) /\ Len(queue') \in Nat \ {0}
      /\ queue'[1].kind = "id" /\ queue'[1].id # NilId
  BY <1>1, <1>4, BlockIs
<1>6. retries' \in 0..MaxRetries /\ retries' # 0
  BY <1>1, <1>3, ChainAssumption
<1>7. LinesHold'
  BY <1>1, <1>2, <1>5, <1>6 DEF LinesHold
<1>8. ReaderHolds'
  BY <1>1, <1>2 DEF ReaderHolds
<1>9. ASSUME ~external
      PROVE  Written(log, file \o queue', Len(file), retries')
  <2>1. Written(log, file \o queue, Len(file), retries)
    BY <1>2, <1>9 DEF HistoryHolds
  <2> QED
    BY <1>1, <1>3, <1>6, <2>1, RetryWrites
<1>10. ASSUME external
       PROVE  (file \o queue')[1].kind = "id" /\ (file \o queue')[1].id # NilId
  <2>1. CASE file = <<>>
    <3>1. file \o queue' = queue'
      BY <1>5, <2>1
    <3> QED
      BY <1>5, <3>1
  <2>2. CASE file # <<>>
    <3>1. 1 \in 1..Len(file)
      BY <1>3, <2>2
    <3>2. (file \o queue')[1] = file[1] /\ (file \o queue)[1] = file[1]
      BY <1>3, <1>5, <3>1, JoinLines
    <3>3. file \o queue # <<>>
      <4>1. Len(file \o queue) = Len(file) + Len(queue) /\ Len(file) \in Nat /\ Len(queue) \in Nat
        BY <1>3, JoinLines
      <4> QED
        BY <3>1, <4>1, EmptySeq
    <3> QED
      BY <1>2, <1>10, <3>2, <3>3 DEF HistoryHolds
  <2> QED
    BY <2>1, <2>2
<1>11. HistoryHolds'
  BY <1>1, <1>2, <1>9, <1>10 DEF HistoryHolds
<1> QED
  BY <1>7, <1>8, <1>11 DEF ChainHolds

LEMMA StartPassHolds == ASSUME ChainHolds, StartPass PROVE ChainHolds'
<1>1. /\ reader' = Fresh /\ pos' = 0
      /\ external' = external /\ log' = log /\ queue' = queue /\ file' = file /\ retries' = retries
  BY DEF StartPass
<1>2. LinesHold /\ HistoryHolds
  BY DEF ChainHolds
<1>3. file \in Seq(Range(file)) /\ 0 \in 0..Len(file)
  <2>1. file \in Seq(Range(file))
    BY <1>2 DEF LinesHold
  <2> QED
    BY <2>1, LenProperties
<1>4. SubSeq(file', 1, pos') = <<>>
  BY <1>1, <1>3, SubSeqEmpty
<1>5. IsReader(Fresh) /\ Fresh.status = "reading"
  BY DEF Fresh, IsReader
<1>6. ReaderHolds'
  BY <1>1, <1>4, <1>5, ParseStarts DEF ReaderHolds
<1>7. LinesHold'
  BY <1>1, <1>2, <1>3 DEF LinesHold
<1>8. HistoryHolds'
  BY <1>1, <1>2 DEF HistoryHolds
<1> QED
  BY <1>6, <1>7, <1>8 DEF ChainHolds

LEMMA ReadLineHolds == ASSUME ChainHolds, ReadLine PROVE ChainHolds'
<1>1. /\ reader.status = "reading" /\ pos < Len(file)
      /\ reader' = ReadLineOf(reader, file[pos + 1]) /\ pos' = pos + 1
      /\ external' = external /\ log' = log /\ queue' = queue /\ file' = file /\ retries' = retries
  BY DEF ReadLine
<1>2. LinesHold /\ ReaderHolds /\ HistoryHolds
  BY DEF ChainHolds
<1>3. file \in Seq(Range(file)) /\ pos \in 0..Len(file)
  BY <1>2 DEF LinesHold
<1>4. pos \in Nat /\ pos + 1 \in 1..Len(file) /\ pos + 1 \in 0..Len(file)
  BY <1>1, <1>3
<1>5. IsReader(reader) /\ reader = ParseTo(SubSeq(file, 1, pos))
  BY <1>1, <1>2 DEF ReaderHolds
<1>6. reader' = ParseTo(SubSeq(file, 1, pos + 1))
  <2>1. ParseTo(SubSeq(file, 1, pos + 1))
          = IF reader.status = "rejected" THEN reader ELSE ReadLineOf(reader, file[pos + 1])
    BY <1>3, <1>4, <1>5, ParseStep
  <2> QED
    BY <1>1, <2>1
<1>7. IsReader(reader') /\ reader'.status \in {"reading", "rejected"}
  BY <1>1, <1>5, ReadKeeps
<1>8. ReaderHolds'
  BY <1>1, <1>6, <1>7 DEF ReaderHolds
<1>9. LinesHold'
  BY <1>1, <1>2, <1>4 DEF LinesHold
<1>10. HistoryHolds'
  BY <1>1, <1>2 DEF HistoryHolds
<1> QED
  BY <1>8, <1>9, <1>10 DEF ChainHolds

LEMMA ReadEofHolds ==
  ASSUME ChainHolds, ReadEof
  PROVE  /\ ChainHolds'
         /\ reader'.m = ApplySection(ParseTo(file)).m
         /\ reader'.status = "done"
<1>1. /\ reader.status = "reading" /\ pos = Len(file)
      /\ reader' = [ApplySection(reader) EXCEPT !.status = "done"]
      /\ external' = external /\ log' = log /\ queue' = queue /\ file' = file
      /\ pos' = pos /\ retries' = retries
  BY DEF ReadEof
<1>2. LinesHold /\ ReaderHolds /\ HistoryHolds
  BY DEF ChainHolds
<1>3. IsReader(reader) /\ reader = ParseTo(SubSeq(file, 1, pos))
  BY <1>1, <1>2 DEF ReaderHolds
<1> DEFINE a == ApplySection(reader)
           x == IF ~reader.patchMode THEN reader.m \o reader.section
                ELSE IF reader.section = <<>> THEN reader.m ELSE ApplyPatch(reader.m, reader.section)
<1>4. a = [reader EXCEPT !.m = x, !.section = <<>>]
  BY <1>3 DEF ApplySection, IsReader
<1> HIDE DEF a, x
<1>5. a = [status |-> reader.status, m |-> x, base |-> reader.base, section |-> <<>>,
           firstLine |-> reader.firstLine, patchMode |-> reader.patchMode,
           indentWidth |-> reader.indentWidth]
  BY <1>3, <1>4 DEF IsReader
<1>6. reader' = [a EXCEPT !.status = "done"]
  BY <1>1 DEF a
<1>7. reader' = [status |-> "done", m |-> a.m, base |-> reader.base, section |-> <<>>,
                 firstLine |-> reader.firstLine, patchMode |-> reader.patchMode,
                 indentWidth |-> reader.indentWidth]
  BY <1>5, <1>6
<1>8. IsReader(reader') /\ reader'.status = "done" /\ reader'.m = a.m
  BY <1>7 DEF IsReader
<1>9. ReaderHolds'
  BY <1>1, <1>3, <1>8 DEF ReaderHolds, a
<1>10. LinesHold'
  BY <1>1, <1>2 DEF LinesHold
<1>11. HistoryHolds'
  BY <1>1, <1>2 DEF HistoryHolds
<1>12. SubSeq(file, 1, pos) = file
  BY <1>1, <1>2, SubSeqFull DEF LinesHold
<1> QED
  BY <1>3, <1>8, <1>9, <1>10, <1>11, <1>12 DEF ChainHolds, a

LEMMA ChainAlwaysHolds == ASSUME Chainable PROVE Spec => []ChainHolds
<1>1. Init => ChainHolds
  BY ChainStarts
<1>2. ChainHolds /\ [Next]_vars => ChainHolds'
  <2> SUFFICES ASSUME ChainHolds, [Next]_vars PROVE ChainHolds'
    OBVIOUS
  <2>1. CASE Commit
    BY <2>1, CommitHolds
  <2>2. CASE Flush
    BY <2>2, FlushHolds
  <2>3. CASE Retry
    BY <2>3, RetryHolds
  <2>4. CASE StartPass
    BY <2>4, StartPassHolds
  <2>5. CASE ReadLine
    BY <2>5, ReadLineHolds
  <2>6. CASE ReadEof
    BY <2>6, ReadEofHolds
  <2>7. CASE UNCHANGED vars
    <3>1. /\ external' = external /\ log' = log /\ queue' = queue /\ file' = file
          /\ pos' = pos /\ reader' = reader /\ retries' = retries
      BY <2>7 DEF vars
    <3>2. LinesHold' /\ ReaderHolds' /\ HistoryHolds'
      BY <3>1 DEF ChainHolds, LinesHold, ReaderHolds, HistoryHolds
    <3> QED
      BY <3>2 DEF ChainHolds
  <2> QED
    BY <2>1, <2>2, <2>3, <2>4, <2>5, <2>6, <2>7 DEF Next
<1> QED
  BY <1>1, <1>2, PTL DEF Spec

-----------------------------------------------------------------------------
(* What follows of what a reader can rely on.                                *)

\* The reader is within the text of the versions committed.
Within(blk, off) ==
  /\ Laid(log, file \o queue, blk, off, retries)
  /\ pos \in 1..Len(file \o queue)
  /\ (file \o queue)[pos] = file[pos]
  /\ LaidLine(log, file \o queue, blk, off, pos, retries)
  /\ ReaderAt(log, reader, blk[pos], off[pos])

LEMMA ReaderIsWithin ==
  ASSUME Chainable, ChainHolds, ~external, pos > 0,
         \/ retries = 0 /\ reader.status \in {"reading", "rejected"}
         \/ Telling /\ reader.status = "reading"
  PROVE  \E blk, off : Within(blk, off)
<1> DEFINE x == file \o queue
           again == retries
<1>1. LinesHold /\ ReaderHolds /\ HistoryHolds
  BY DEF ChainHolds
<1>2. PICK blk, off : Laid(log, x, blk, off, again)
  BY <1>1 DEF HistoryHolds, Written
<1>3. file \in Seq(Range(file)) /\ queue \in Seq(Range(queue)) /\ pos \in 0..Len(file)
  BY <1>1 DEF LinesHold
<1>4. /\ Len(x) = Len(file) + Len(queue) /\ Len(file) \in Nat /\ Len(queue) \in Nat
      /\ \A i \in 1..Len(file) : x[i] = file[i]
      /\ SubSeq(x, 1, pos) = SubSeq(file, 1, pos)
  BY <1>3, JoinLines
<1> HIDE DEF x
<1>5. pos \in 1..Len(x) /\ x[pos] = file[pos]
  BY <1>3, <1>4
<1>6. reader = ParseTo(SubSeq(x, 1, pos))
  BY <1>1, <1>4 DEF ReaderHolds
<1>7. ReaderAt(log, reader, blk[pos], off[pos])
  <2>1. (again # 0 => Telling) /\ (again # 0 => ParseTo(SubSeq(x, 1, pos)).status = "reading")
    BY <1>6
  <2> HIDE DEF again
  <2> QED
    BY <1>2, <1>5, <1>6, <2>1, ParsedAt
<1>8. LaidLine(log, x, blk, off, pos, again)
  BY <1>2, <1>5 DEF Laid
<1> QED
  BY <1>2, <1>5, <1>7, <1>8 DEF Within, x

LEMMA AtIsReading ==
  ASSUME NEW h, NEW r, NEW k, NEW j, ReaderAt(h, r, k, j)
  PROVE  r.status = "reading"
BY DEF ReaderAt, InFirst, InPatch, Confirmed, Reader

\* A reader is never turned down unless a patch was appended again.
LEMMA HoldsNeverRejects ==
  ASSUME Chainable, ChainHolds
  PROVE  NeverRejects
<1> SUFFICES ASSUME reader.status = "rejected", ~(retries > 0)
             PROVE  FALSE
  BY DEF NeverRejects
<1>1. LinesHold /\ ReaderHolds /\ HistoryHolds
  BY DEF ChainHolds
<1>2. retries = 0 /\ pos \in 0..Len(file) /\ pos \in Nat /\ external \in BOOLEAN
  BY <1>1, LenProperties DEF LinesHold
<1>3. file \in Seq(Range(file)) /\ queue \in Seq(Range(queue))
  BY <1>1 DEF LinesHold
<1>4. reader = ParseTo(SubSeq(file, 1, pos))
  BY <1>1 DEF ReaderHolds
<1>5. CASE pos = 0
  <2>1. SubSeq(file, 1, 0) = <<>>
    BY <1>3, SubSeqEmpty
  <2>2. reader = Fresh
    BY <1>4, <1>5, <2>1, ParseStarts
  <2> QED
    BY <2>2 DEF Fresh
<1>6. CASE pos > 0 /\ ~external
  <2>1. PICK blk, off : Within(blk, off)
    BY <1>2, <1>6, ReaderIsWithin
  <2>2. ReaderAt(log, reader, blk[pos], off[pos])
    BY <2>1 DEF Within
  <2> QED
    BY <2>2, AtIsReading
<1>7. CASE pos > 0 /\ external
  <2> DEFINE x == file \o queue
  <2>1. /\ x \in Seq(Range(x)) /\ Len(x) = Len(file) + Len(queue)
        /\ Len(file) \in Nat /\ Len(queue) \in Nat
        /\ SubSeq(x, 1, pos) = SubSeq(file, 1, pos)
    BY <1>2, <1>3, JoinLines
  <2>2. x # <<>> => x[1].kind = "id" /\ x[1].id # NilId
    BY <1>1, <1>2, <1>7 DEF HistoryHolds
  <2> HIDE DEF x
  <2>3. pos \in 0..Len(x) /\ x # <<>>
    BY <1>2, <1>7, <2>1, EmptySeq
  <2>4. ParseTo(SubSeq(x, 1, pos)).status = "reading"
    BY <2>1, <2>2, <2>3, ExternalIsRead
  <2> QED
    BY <1>4, <2>1, <2>4
<1> QED
  BY <1>2, <1>5, <1>6, <1>7

\* Manifest::Parse never throws a checkpoint mismatch at a chain whose patches
\* were appended once each, wherever the file ends.
THEOREM RejectsNothing == ASSUME Chainable PROVE Spec => []NeverRejects
<1>1. ChainHolds => NeverRejects
  BY HoldsNeverRejects
<1> QED
  BY <1>1, ChainAlwaysHolds, PTL

\* In the first version a reader has confirmed nothing, in a patch the state
\* before it, and after the patch the state after it.
LEMMA AtShows ==
  ASSUME Chainable, NEW h \in Seq(Versions), NEW k \in 1..Len(h), NEW j \in 1..Len(TextOf(h, k)),
         NEW r, ReaderAt(h, r, k, j)
  PROVE  /\ k = 1 => ~r.patchMode
         /\ k # 1 => /\ r.patchMode
                     /\ r.m = IF j = Len(TextOf(h, k)) THEN StateOf(h, k) ELSE StateOf(h, k - 1)
<1>1. CASE k = 1
  <2>1. InFirst(h, r, j)
    BY <1>1 DEF ReaderAt
  <2> QED
    BY <1>1, <2>1 DEF InFirst, Reader
<1>2. CASE k # 1
  <2> DEFINE n == Len(PatchOf(h, k)) + 2
  <2>1. k \in 2..Len(h) /\ k > 1 /\ k # 1
    BY <1>2, LenProperties
  <2>2. Len(TextOf(h, k)) = n /\ n \in Nat
    BY <2>1, LaterText
  <2>3. (j < n /\ InPatch(h, r, k, j)) \/ (j = n /\ Confirmed(h, r, k))
    BY <2>1 DEF ReaderAt
  <2> HIDE DEF n
  <2>4. CASE j < n /\ InPatch(h, r, k, j)
    <3>1. r.patchMode /\ r.m = StateOf(h, k - 1)
      BY <2>4 DEF InPatch, Reader
    <3>2. j # n
      BY <2>2, <2>4
    <3> QED
      BY <2>1, <2>2, <3>1, <3>2
  <2>5. CASE j = n /\ Confirmed(h, r, k)
    <3>1. r.patchMode /\ r.m = StateOf(h, k)
      BY <2>5 DEF Confirmed, Reader
    <3> QED
      BY <2>1, <2>2, <2>5, <3>1
  <2> QED
    BY <2>3, <2>4, <2>5
<1> QED
  BY <1>1, <1>2

LEMMA HoldsConfirmed ==
  ASSUME Chainable, ChainHolds, MaxRetries = 0 \/ Telling
  PROVE  ConfirmedIsCommitted
<1> SUFFICES ASSUME ~external, reader.status = "reading", pos > 0, file[pos].kind = "id"
             PROVE  \E k \in DOMAIN log : reader.m = SortEntries(log[k])
  BY DEF ConfirmedIsCommitted
<1>1. PICK blk, off : Within(blk, off)
  <2>1. MaxRetries = 0 => retries = 0
    BY DEF ChainHolds, LinesHold
  <2> QED
    BY <2>1, ReaderIsWithin
<1> DEFINE k == blk[pos]
           j == off[pos]
           n == Len(TextOf(log, k))
<1>2. /\ log \in Seq(Versions) /\ k \in 1..Len(log) /\ j \in 1..n
      /\ file[pos] = TextOf(log, k)[j] /\ ReaderAt(log, reader, k, j)
  BY <1>1 DEF Within, LaidLine, Laid
<1> HIDE DEF k, j
<1>3. k > 1
  BY <1>2, TextIs
<1>4. reader.m = IF j = n THEN StateOf(log, k) ELSE StateOf(log, k - 1)
  BY <1>2, <1>3, AtShows
<1>5. DOMAIN log = 1..Len(log) /\ k - 1 \in 1..Len(log)
  BY <1>2, <1>3, LenProperties
<1>6. CASE j = n
  BY <1>2, <1>4, <1>5, <1>6 DEF StateOf
<1>7. CASE j # n
  BY <1>4, <1>5, <1>7 DEF StateOf
<1> QED
  BY <1>6, <1>7

\* When a reader gets past an ID that it checks, it holds a version that was
\* committed: if nothing is appended again, or if no torn patch leads to
\* something else with the ID of the version before it.
THEOREM ConfirmsCommitted ==
  ASSUME Chainable, MaxRetries = 0 \/ Telling PROVE Spec => []ConfirmedIsCommitted
<1>1. ChainHolds => ConfirmedIsCommitted
  BY HoldsConfirmed
<1> QED
  BY <1>1, ChainAlwaysHolds, PTL

LEMMA HoldsResolves ==
  ASSUME Chainable, ChainHolds, MaxRetries = 0 \/ Telling,
         ReadEof, ~external, queue = <<>>, log # <<>>
  PROVE  reader'.m = SortEntries(Last(log))
<1>1. LinesHold /\ ReaderHolds /\ HistoryHolds
  BY DEF ChainHolds
<1> DEFINE again == retries
<1>2. PICK blk, off : Laid(log, file \o queue, blk, off, again)
  BY <1>1 DEF HistoryHolds, Written
<1>3. file \in Seq(Range(file)) /\ pos = Len(file) /\ reader.status = "reading"
  BY <1>1 DEF LinesHold, ReadEof
<1>4. file \o queue = file
  BY <1>3
<1>5. ParseTo(file).status = "reading"
  <2>1. SubSeq(file, 1, pos) = file
    BY <1>3, SubSeqFull
  <2> QED
    BY <1>1, <1>3, <2>1 DEF ReaderHolds
<1>6. again # 0 => Telling
  BY <1>1 DEF LinesHold
<1> HIDE DEF again
<1>7. ApplySection(ParseTo(file)).m = SortEntries(Last(log))
  BY <1>2, <1>4, <1>5, <1>6, ParsedAll
<1> QED
  BY <1>7, ReadEofHolds

\* A pass that meets the end of the file where the writer has finished a
\* version returns exactly that version, also after a torn patch.
THEOREM ResolvesWholeVersion ==
  ASSUME Chainable, MaxRetries = 0 \/ Telling PROVE Spec => WholeVersionResolves
<1>1. ChainHolds /\ [Next]_vars =>
        [ReadEof /\ ~external /\ queue = <<>> /\ log # <<>> => reader'.m = SortEntries(Last(log))]_vars
  BY HoldsResolves
<1> QED
  BY <1>1, ChainAlwaysHolds, PTL DEF Spec, WholeVersionResolves

\* The c4m-aware ID of a chain is that of its last version.
LEMMA LaidFirst ==
  ASSUME Chainable, NEW v \in Versions
  PROVE  \E blk, off : Laid(<<v>>, Encode(v), blk, off, 0)
<1>1. Laid(<<>>, <<>>, 0, 0, 0) /\ Append(<<>>, v) = <<v>> /\ <<>> \in Seq(Versions)
  BY NothingLaid
<1>2. Block(<<>>, v) = Encode(v)
  BY DEF Block
<1>3. <<>> \o Encode(v) = Encode(v)
  <2>1. Encode(v) \in Seq(Range(Encode(v)))
    BY <1>1, <1>2, BlockIs
  <2> QED
    BY <2>1
<1> DEFINE k == Len(<<>>) + 1
<1>4. PICK b, o : Continues(Append(<<>>, v), <<>>, k, 0, 0, 0, b, o)
  BY <1>1, LaidGrows
<1>5. TextOf(Append(<<>>, v), k) = Encode(v)
  BY <1>1, <1>2, LaidGrows
<1> HIDE DEF k
<1>6. Laid(Append(<<>>, v), <<>> \o TextOf(Append(<<>>, v), k), b, o, 0)
  BY <1>4 DEF Continues
<1> QED
  BY <1>1, <1>3, <1>5, <1>6

LEMMA ParsedFile ==
  ASSUME NEW w
  PROVE  ParseFile(w) = ApplySection(ParseTo(w))
BY DEF ParseFile, ParseTo

\* Either way the data is taken for what it holds at the end.
LEMMA CanonicalText ==
  ASSUME Chainable, NEW h, NEW w, NEW blk, NEW off, Laid(h, w, blk, off, 0), h # <<>>
  PROVE  IdentifyC4mAware(w) = Encode(Last(h))
<1> DEFINE v == Last(h)
           r == ParseFile(w)
<1>1. h \in Seq(Versions) /\ w # <<>>
  BY DEF Laid
<1>2. v \in Versions
  BY <1>1 DEF Last
<1>3. r.status = "reading" /\ r.m = SortEntries(v)
  BY ParsedAll, ParsedFile
<1>4. Clean(v) /\ IsList(v) /\ v # <<>>
  BY <1>2, VersionIs DEF Chainable
<1> HIDE DEF v, r
<1>5. SortEntries(SortEntries(v)) = SortEntries(v)
  BY <1>4, SortTwice DEF Clean
<1>6. Readable(SortEntries(v)) /\ SortEntries(v) # <<>>
  <2>1. Len(v) \in Nat \ {0}
    BY <1>4, EmptySeq, LenProperties DEF IsList
  <2> QED
    BY <1>2, <1>4, <2>1, SortedIsReadable, EmptySeq
<1>7. CanonicalizeC4m(w) = Encode(v)
  <2>1. CanonicalizeC4m(w) = Encode(SortEntries(v))
    BY <1>3, <1>6 DEF CanonicalizeC4m, r
  <2> QED
    BY <1>5, <2>1 DEF Encode
<1>8. Encode(v) # <<>>
  <2>1. Block(<<>>, v) = Encode(v) /\ <<>> \in Seq(Versions)
    BY DEF Block
  <2>2. Len(Encode(v)) # 0
    BY <1>2, <2>1, BlockIs
  <2> QED
    BY <2>2, EmptySeq
<1> QED
  BY <1>1, <1>7, <1>8 DEF IdentifyC4mAware, LooksLikeC4m, v

LEMMA HoldsAware ==
  ASSUME Chainable, ChainHolds
  PROVE  AwareIDNamesState
<1> SUFFICES ASSUME ~external, retries = 0, queue = <<>>, log # <<>>
             PROVE  IdentifyC4mAware(file) = IdentifyC4mAware(Encode(Last(log)))
  BY DEF AwareIDNamesState
<1>1. LinesHold /\ HistoryHolds
  BY DEF ChainHolds
<1>2. PICK blk, off : Laid(log, file \o queue, blk, off, 0)
  BY <1>1 DEF HistoryHolds, Written
<1>3. file \in Seq(Range(file)) /\ log \in Seq(Versions)
  BY <1>1 DEF LinesHold
<1>4. file \o queue = file
  BY <1>3
<1>5. IdentifyC4mAware(file) = Encode(Last(log))
  BY <1>2, <1>4, CanonicalText
<1> DEFINE v == Last(log)
<1>6. v \in Versions
  BY <1>3 DEF Last
<1> HIDE DEF v
<1>7. PICK b, o : Laid(<<v>>, Encode(v), b, o, 0)
  BY <1>6, LaidFirst
<1>8. <<v>> # <<>> /\ Last(<<v>>) = v
  BY DEF Last
<1>9. IdentifyC4mAware(Encode(v)) = Encode(v)
  BY <1>7, <1>8, CanonicalText
<1> QED
  BY <1>5, <1>9 DEF v

\* It depends on the state, and not on the patches that led to it.
THEOREM AwareIDIsOfState == ASSUME Chainable PROVE Spec => []AwareIDNamesState
<1>1. ChainHolds => AwareIDNamesState
  BY HoldsAware
<1> QED
  BY <1>1, ChainAlwaysHolds, PTL

-----------------------------------------------------------------------------
(* A chain implements the version log.                                        *)

\* What a reader in a pass was shown is the version its checkpoints count up to.
Shown ==
  InPass =>
    /\ Checkpoints \div 2 + 1 \in 1..Len(log)
    /\ reader.m = SortEntries(log[Checkpoints \div 2 + 1])

\* The checkpoints passed are the IDs read.
LEMMA CheckpointsAre ==
  ASSUME file \in Seq(Range(file)), queue \in Seq(Range(queue)), pos \in 0..Len(file)
  PROVE  Checkpoints = Cardinality(IDsIn(file \o queue, pos))
<1> DEFINE x == file \o queue
<1>1. Len(file) \in Nat /\ \A i \in 1..Len(file) : x[i] = file[i]
  BY JoinLines
<1> HIDE DEF x
<1>2. \A i \in 1..pos : i \in 1..Len(file)
  BY <1>1
<1>3. {i \in 1..pos : file[i].kind = "id"} = IDsIn(x, pos)
  BY <1>1, <1>2 DEF IDsIn
<1> QED
  BY <1>3 DEF Checkpoints, x

LEMMA HoldsShown ==
  ASSUME Chainable, ChainHolds
  PROVE  Shown
<1> SUFFICES ASSUME InPass
             PROVE  /\ Checkpoints \div 2 + 1 \in 1..Len(log)
                    /\ reader.m = SortEntries(log[Checkpoints \div 2 + 1])
  BY DEF Shown
<1>1. ~external /\ retries = 0 /\ reader.status = "reading" /\ reader.patchMode
  BY DEF InPass
<1>2. LinesHold /\ ReaderHolds
  BY DEF ChainHolds
<1>3. file \in Seq(Range(file)) /\ queue \in Seq(Range(queue)) /\ pos \in 0..Len(file) /\ pos \in Nat
  BY <1>2, LenProperties DEF LinesHold
<1>4. pos > 0
  <2>1. SUFFICES ASSUME pos = 0 PROVE FALSE
    BY <1>3
  <2>2. SubSeq(file, 1, 0) = <<>>
    BY <1>3, SubSeqEmpty
  <2>3. reader = Fresh
    BY <1>1, <1>2, <2>1, <2>2, ParseStarts DEF ReaderHolds
  <2> QED
    BY <1>1, <2>3 DEF Fresh
<1>5. PICK blk, off : Within(blk, off)
  BY <1>1, <1>4, ReaderIsWithin
<1> DEFINE x == file \o queue
           k == blk[pos]
           j == off[pos]
           n == Len(TextOf(log, k))
           c == Checkpoints
<1>6. /\ Laid(log, x, blk, off, 0) /\ pos \in 1..Len(x)
      /\ log \in Seq(Versions) /\ k \in 1..Len(log) /\ j \in 1..n /\ ReaderAt(log, reader, k, j)
  <2>1. Laid(log, x, blk, off, 0)
    BY <1>1, <1>5 DEF Within
  <2> QED
    BY <1>5, <2>1 DEF Within, LaidLine, Laid
<1>7. c = Marks(log, k, j)
  <2>1. c = Cardinality(IDsIn(x, pos))
    BY <1>3, CheckpointsAre
  <2> HIDE DEF x, c
  <2>2. Cardinality(IDsIn(x, pos)) = Marks(log, blk[pos], off[pos])
    BY <1>6, IDsCounted
  <2> QED
    BY <2>1, <2>2
<1> HIDE DEF x, k, j, c
<1>8. k # 1
  BY <1>1, <1>6, AtShows
<1>9. reader.m = IF j = n THEN StateOf(log, k) ELSE StateOf(log, k - 1)
  BY <1>6, <1>8, AtShows
<1>10. Len(log) \in Nat /\ k \in Nat /\ k > 1 /\ k <= Len(log)
  BY <1>6, <1>8, LenProperties
<1>11. CASE j = n
  <2>1. c = 2 * (k - 2) + 2
    BY <1>7, <1>8, <1>11 DEF Marks
  <2>2. c \div 2 + 1 = k
    BY <1>10, <2>1
  <2> QED
    BY <1>6, <1>9, <1>11, <2>2 DEF StateOf, c
<1>12. CASE j # n
  <2>1. c = 2 * (k - 2) + 1
    BY <1>7, <1>8, <1>12 DEF Marks
  <2>2. c \div 2 + 1 = k - 1 /\ k - 1 \in 1..Len(log)
    BY <1>10, <2>1
  <2> QED
    BY <1>9, <1>12, <2>2 DEF StateOf, c
<1> QED
  BY <1>11, <1>12

\* A line read passes no fewer checkpoints than before.
LEMMA CheckpointsGrow ==
  ASSUME LinesHold, ReadLine
  PROVE  /\ Checkpoints \in Nat /\ Checkpoints' \in Nat
         /\ Checkpoints <= Checkpoints'
<1>1. file' = file /\ pos' = pos + 1 /\ pos \in Nat
  <2>1. file' = file /\ pos' = pos + 1
    BY DEF ReadLine
  <2>2. pos \in 0..Len(file) /\ file \in Seq(Range(file))
    BY DEF LinesHold
  <2> QED
    BY <2>1, <2>2, LenProperties
<1> DEFINE a == IDsIn(file, pos)
           b == IDsIn(file, pos + 1)
<1>2. Checkpoints = Cardinality(a)
  BY DEF Checkpoints, IDsIn
<1>3. Checkpoints' = Cardinality(b)
  BY <1>1 DEF Checkpoints, IDsIn
<1>4. IsFiniteSet(1..(pos + 1)) /\ b \subseteq 1..(pos + 1) /\ a \subseteq b
  BY <1>1, FS_Interval DEF IDsIn
<1> HIDE DEF a, b
<1>5. IsFiniteSet(b)
  BY <1>4, FS_Subset
<1>6. IsFiniteSet(a) /\ Cardinality(a) <= Cardinality(b)
  BY <1>4, <1>5, FS_Subset
<1>7. Cardinality(a) \in Nat /\ Cardinality(b) \in Nat
  BY <1>5, <1>6, FS_CardinalityType
<1> QED
  BY <1>2, <1>3, <1>6, <1>7

\* The state of the version log that a chain stands for.
History == IF external THEN <<>> ELSE log
AtVersion == IF InPass THEN Checkpoints \div 2 + 1 ELSE 0
ShownVersion == IF InPass THEN reader.m ELSE <<>>

LogStep ==
  \/ (\E s \in Versions : History' = Append(History, s))
     /\ AtVersion' = AtVersion /\ ShownVersion' = ShownVersion
  \/ \E k \in 1..Len(History) :
       /\ k >= AtVersion
       /\ AtVersion' = k
       /\ ShownVersion' = SortEntries(History[k])
       /\ History' = History
  \/ AtVersion' = 0 /\ ShownVersion' = <<>> /\ History' = History
  \/ History' = History /\ AtVersion' = AtVersion /\ ShownVersion' = ShownVersion

LEMMA LogStepIs == LogStep => [Published!Next]_(Published!vars)
BY DEF LogStep, History, AtVersion, ShownVersion, Published!Next, Published!Publish,
       Published!Show, Published!EndPass, Published!vars

\* A step that ends the pass.
LEMMA PassEnds ==
  ASSUME ~InPass', external' = external, log' = log
  PROVE  LogStep
<1>1. AtVersion' = 0 /\ ShownVersion' = <<>> /\ History' = History
  BY DEF AtVersion, ShownVersion, History
<1> QED
  BY <1>1 DEF LogStep

\* A step that leaves what the reader has read.
LEMMA PassStays ==
  ASSUME LinesHold, external' = external, retries' = retries, reader' = reader, pos' = pos,
         \A i \in 1..pos : file'[i] = file[i]
  PROVE  AtVersion' = AtVersion /\ ShownVersion' = ShownVersion
<1>1. InPass' = InPass
  BY DEF InPass
<1>2. {i \in 1..pos' : file'[i].kind = "id"} = {i \in 1..pos : file[i].kind = "id"}
  OBVIOUS
<1>3. Checkpoints' = Checkpoints
  BY <1>2 DEF Checkpoints
<1> QED
  BY <1>1, <1>3 DEF AtVersion, ShownVersion

LEMMA ChainSteps ==
  ASSUME ChainHolds, Shown', [Next]_vars
  PROVE  LogStep
<1>1. LinesHold
  BY DEF ChainHolds
<1>2. CASE Commit
  <2>1. PICK v \in Versions : log' = Append(log, v)
    BY <1>2 DEF Commit
  <2>2. external' = external /\ file' = file /\ pos' = pos /\ reader' = reader /\ retries' = retries
    BY <1>2 DEF Commit
  <2>3. AtVersion' = AtVersion /\ ShownVersion' = ShownVersion
    BY <1>1, <2>2, PassStays
  <2>4. IF external THEN History' = History ELSE History' = Append(History, v)
    BY <2>1, <2>2 DEF History
  <2> QED
    BY <2>3, <2>4 DEF LogStep
<1>3. CASE Flush
  <2>1. /\ file' = Append(file, Head(queue))
        /\ external' = external /\ log' = log /\ pos' = pos /\ reader' = reader /\ retries' = retries
    BY <1>3 DEF Flush
  <2>2. \A i \in 1..pos : file'[i] = file[i]
    <3>1. file \in Seq(Range(file)) /\ pos \in 0..Len(file)
      BY <1>1 DEF LinesHold
    <3>2. \A i \in 1..Len(file) : Append(file, Head(queue))[i] = file[i]
      BY <3>1, AppendProperties
    <3> QED
      BY <2>1, <3>1, <3>2, LenProperties
  <2>3. AtVersion' = AtVersion /\ ShownVersion' = ShownVersion
    BY <1>1, <2>1, <2>2, PassStays
  <2> QED
    BY <2>1, <2>3 DEF LogStep, History
<1>4. CASE Retry
  <2>1. retries' # 0 /\ external' = external /\ log' = log
    <3>1. retries' = retries + 1 /\ external' = external /\ log' = log
      BY <1>4 DEF Retry
    <3> QED
      BY <1>1, <3>1 DEF LinesHold
  <2> QED
    BY <2>1, PassEnds DEF InPass
<1>5. CASE StartPass
  <2>1. reader' = Fresh /\ external' = external /\ log' = log
    BY <1>5 DEF StartPass
  <2>2. ~reader'.patchMode
    BY <2>1 DEF Fresh
  <2> QED
    BY <2>1, <2>2, PassEnds DEF InPass
<1>6. CASE ReadLine
  <2>1. external' = external /\ log' = log /\ retries' = retries
    BY <1>6 DEF ReadLine
  <2>2. CASE ~InPass'
    BY <2>1, <2>2, PassEnds
  <2>3. CASE InPass'
    <3> DEFINE c == Checkpoints
               d == Checkpoints'
               k == d \div 2 + 1
    <3>1. c \in Nat /\ d \in Nat /\ c <= d
      BY <1>1, <1>6, CheckpointsGrow
    <3>2. ~external /\ ~external'
      BY <2>1, <2>3 DEF InPass
    <3>3. AtVersion' = k /\ ShownVersion' = reader'.m
      BY <2>3 DEF AtVersion, ShownVersion
    <3>4. k \in 1..Len(log) /\ reader'.m = SortEntries(log[k])
      BY <2>1, <2>3 DEF Shown
    <3>5. AtVersion \in {0, c \div 2 + 1}
      BY DEF AtVersion
    <3> HIDE DEF c, d
    <3>6. k >= AtVersion
      BY <3>1, <3>5
    <3>7. History = log /\ History' = History
      BY <2>1, <3>2 DEF History
    <3> HIDE DEF k
    <3> QED
      BY <3>3, <3>4, <3>6, <3>7 DEF LogStep
  <2> QED
    BY <2>2, <2>3
<1>7. CASE ReadEof
  <2>1. external' = external /\ log' = log
    BY <1>7 DEF ReadEof
  <2>2. reader'.status # "reading"
    BY <1>7, ReadEofHolds
  <2> QED
    BY <2>1, <2>2, PassEnds DEF InPass
<1>8. CASE UNCHANGED vars
  <2>1. /\ external' = external /\ log' = log /\ file' = file /\ pos' = pos
        /\ reader' = reader /\ retries' = retries
    BY <1>8 DEF vars
  <2>2. AtVersion' = AtVersion /\ ShownVersion' = ShownVersion
    BY <1>1, <2>1, PassStays
  <2> QED
    BY <2>1, <2>2 DEF LogStep, History
<1> QED
  BY <1>2, <1>3, <1>4, <1>5, <1>6, <1>7, <1>8 DEF Next

\* A chain implements the version log: at every checkpoint a reader passes, it
\* holds a version that was committed, and never an earlier one than before.
THEOREM ChainIsVersionLog == ASSUME Chainable PROVE Spec => ImplementsVersionLog
<1>1. Init => Published!Init
  <2> SUFFICES ASSUME Init PROVE Published!Init
    OBVIOUS
  <2>1. (external \/ log = <<>>) /\ reader.status = "idle"
    BY DEF Init, Fresh
  <2>2. ~InPass
    BY <2>1 DEF InPass
  <2> QED
    BY <2>1, <2>2 DEF Published!Init
<1>2. ChainHolds => Shown
  BY HoldsShown
<1>3. ChainHolds /\ Shown' /\ [Next]_vars => [Published!Next]_(Published!vars)
  BY ChainSteps, LogStepIs
<1> QED
  BY <1>1, <1>2, <1>3, ChainAlwaysHolds, PTL DEF Spec, ImplementsVersionLog, Published!Spec

-----------------------------------------------------------------------------
(* DecodePatchChain and ResolvePatchChain.                                    *)

Resolving == INSTANCE FoldFacts WITH Op <- LAMBDA c, m, section : ApplyPatch(m, section.entries)

\* The first c sections resolved.
ResolveFirst(sections, c) ==
  FoldLeft(LAMBDA m, section : ApplyPatch(m, section.entries),
           sections[1].entries, SubSeq(sections, 2, c))

LEMMA ResolveFolds ==
  ASSUME NEW sections, NEW c
  PROVE  ResolveFirst(sections, c) = Resolving!Fold(0, sections[1].entries, SubSeq(sections, 2, c))
BY DEF ResolveFirst, FoldLeft, MapThenFoldSet, Max,
       Resolving!Fold, Resolving!FoldLeft, Resolving!MapThenFoldSet, Resolving!Max

\* The sections from the second on.
LEMMA LaterSections ==
  ASSUME NEW V, NEW s \in Seq(V), NEW c \in Nat, c + 1 \in 2..Len(s)
  PROVE  SubSeq(s, 2, c + 1) = Append(SubSeq(s, 2, c), s[c + 1]) /\ SubSeq(s, 2, c) \in Seq(V)
<1> DEFINE a == SubSeq(s, 2, c + 1)
           t == SubSeq(s, 2, c)
           b == Append(t, s[c + 1])
<1>1. Len(s) \in Nat /\ c \in 1..Len(s) /\ s[c + 1] \in V
  OBVIOUS
<1>2. a \in Seq(V) /\ Len(a) = c /\ \A i \in 1..c : a[i] = s[i + 1]
  BY <1>1, SubSeqProperties
<1>3. t \in Seq(V) /\ Len(t) = c - 1 /\ \A i \in 1..(c - 1) : t[i] = s[i + 1]
  BY <1>1, SubSeqProperties
<1> HIDE DEF a, t
<1>4. b \in Seq(V) /\ Len(b) = c /\ \A i \in 1..c : b[i] = s[i + 1]
  BY <1>1, <1>3
<1> HIDE DEF b
<1>5. a = b
  BY <1>2, <1>4, SeqEqual
<1> QED
  BY <1>3, <1>5 DEF a, b, t

LEMMA ResolveOne ==
  ASSUME NEW s
  PROVE  ResolveFirst(s, 1) = s[1].entries
<1>1. SubSeq(s, 2, 1) = <<>>
  OBVIOUS
<1> QED
  BY <1>1, ResolveFolds, Resolving!FoldEmpty

LEMMA ResolveNext ==
  ASSUME NEW V, NEW s \in Seq(V), NEW c \in Nat, c + 1 \in 2..Len(s)
  PROVE  ResolveFirst(s, c + 1) = ApplyPatch(ResolveFirst(s, c), s[c + 1].entries)
<1> DEFINE t == SubSeq(s, 2, c)
           a == s[c + 1]
           e == s[1].entries
<1>1. SubSeq(s, 2, c + 1) = Append(t, a) /\ t \in Seq(V) /\ a \in V
  BY LaterSections
<1> HIDE DEF t, a, e
<1>2. Resolving!Fold(0, e, Append(t, a)) = ApplyPatch(Resolving!Fold(0, e, t), a.entries)
  BY <1>1, Resolving!FoldAppend
<1>3. /\ ResolveFirst(s, c + 1) = Resolving!Fold(0, e, Append(t, a))
      /\ ResolveFirst(s, c) = Resolving!Fold(0, e, t)
  BY <1>1, ResolveFolds DEF e, t
<1> QED
  BY <1>2, <1>3 DEF a

LEMMA WithoutFirst ==
  ASSUME NEW V, NEW s \in Seq(V), NEW n \in 1..Len(s)
  PROVE  LET a == SubSeq(s, 2, n)
         IN a \in Seq(V) /\ Len(a) = n - 1 /\ \A i \in 1..(n - 1) : a[i] = s[i + 1]
<1>1. Len(s) \in Nat /\ \A i \in 1..Len(s) : s[i] \in V
  OBVIOUS
<1>2. n \in Int /\ 2 \in Int /\ (\A i \in 2..n : s[i] \in V) /\ n - 2 + 1 = n - 1
  BY <1>1
<1>3. \A i \in 1..(n - 1) : 2 + i - 1 = i + 1
  BY <1>1
<1>4. (IF 2 <= n THEN n - 2 + 1 ELSE 0) = n - 1
  BY <1>1
<1> QED
  BY <1>2, <1>3, <1>4, SubSeqProperties

\* Another section is applied to what the ones before it are resolved to.
LEMMA ResolveAppend ==
  ASSUME NEW V, NEW s \in Seq(V), NEW x \in V, s # <<>>
  PROVE  ResolveFirst(Append(s, x), Len(s) + 1) = ApplyPatch(ResolveFirst(s, Len(s)), x.entries)
<1> DEFINE t == Append(s, x)
           n == Len(s)
<1>1. /\ t \in Seq(V) /\ Len(t) = n + 1 /\ t[n + 1] = x /\ n \in Nat /\ n + 1 \in 2..Len(t)
      /\ \A i \in 1..n : t[i] = s[i]
      /\ n \in 1..Len(t) /\ n \in 1..Len(s)
  BY EmptySeq
<1> HIDE DEF t
<1>2. SubSeq(t, 2, n) = SubSeq(s, 2, n)
  <2> DEFINE a == SubSeq(t, 2, n)
             b == SubSeq(s, 2, n)
  <2>1. a \in Seq(V) /\ Len(a) = n - 1 /\ \A i \in 1..(n - 1) : a[i] = t[i + 1]
    BY <1>1, WithoutFirst
  <2>2. b \in Seq(V) /\ Len(b) = n - 1 /\ \A i \in 1..(n - 1) : b[i] = s[i + 1]
    BY <1>1, WithoutFirst
  <2> HIDE DEF a, b
  <2>3. \A i \in 1..(n - 1) : a[i] = b[i]
    BY <1>1, <2>1, <2>2
  <2>4. a = b
    BY <1>1, <2>1, <2>2, <2>3, SeqEqual
  <2> QED
    BY <2>4 DEF a, b
<1>3. t[1] = s[1]
  BY <1>1
<1>4. ResolveFirst(t, n) = ResolveFirst(s, n)
  BY <1>2, <1>3 DEF ResolveFirst
<1>5. ResolveFirst(t, n + 1) = ApplyPatch(ResolveFirst(t, n), t[n + 1].entries)
  BY <1>1, ResolveNext
<1> QED
  BY <1>1, <1>4, <1>5 DEF t

\* What ResolvePatchChain takes of the sections.
LEMMA ResolvesFirst ==
  ASSUME NEW V, NEW s \in Seq(V), s # <<>>
  PROVE  /\ ResolvePatchChain(s, 0) = ResolveFirst(s, Len(s))
         /\ \A k \in 1..Len(s) : ResolvePatchChain(s, k) = ResolveFirst(s, k)
<1>1. Limit(s, 0) = Len(s)
  BY DEF Limit
<1>2. ASSUME NEW k \in 1..Len(s)
      PROVE  Limit(s, k) = k
  <2>1. k > 0 /\ k <= Len(s) /\ k \in Nat /\ Len(s) \in Nat
    BY LenProperties
  <2>2. Min({k, Len(s)}) = k
    <3>1. \A z \in {k, Len(s)} : (\A y \in {k, Len(s)} : z <= y) => z = k
      BY <2>1
    <3>2. \A y \in {k, Len(s)} : k <= y
      BY <2>1
    <3> QED
      BY <3>1, <3>2 DEF Min
  <2> QED
    BY <2>1, <2>2 DEF Limit
<1> QED
  BY <1>1, <1>2 DEF ResolvePatchChain, ResolveFirst

Decoding == INSTANCE FoldFacts WITH Op <- LAMBDA c, d, line : DecodeLine(d, line)

\* The decoder before the first line, and after the lines w.
Decoder == [sections |-> <<>>, current |-> NewSection(NilId), firstLine |-> TRUE, indentWidth |-> 0]
DecodeTo(w) == FoldLeft(DecodeLine, Decoder, w)

LEMMA DecodeFolds ==
  ASSUME NEW w
  PROVE  DecodeTo(w) = Decoding!Fold(0, Decoder, w)
BY DEF DecodeTo, FoldLeft, MapThenFoldSet, Max,
       Decoding!Fold, Decoding!FoldLeft, Decoding!MapThenFoldSet, Decoding!Max

LEMMA DecodeStarts == DecodeTo(<<>>) = Decoder
BY DecodeFolds, Decoding!FoldEmpty

LEMMA DecodeStep ==
  ASSUME NEW w, w \in Seq(Range(w)), NEW n \in Nat, n + 1 \in 1..Len(w)
  PROVE  DecodeTo(SubSeq(w, 1, n + 1)) = DecodeLine(DecodeTo(SubSeq(w, 1, n)), w[n + 1])
<1> DEFINE s == SubSeq(w, 1, n)
           a == w[n + 1]
<1>1. Append(s, a) = SubSeq(w, 1, n + 1)
  BY SubSeqGrows
<1>2. s \in Seq(Range(w)) /\ a \in Range(w)
  BY DEF Range
<1> HIDE DEF s, a
<1>3. Decoding!Fold(0, Decoder, Append(s, a)) = DecodeLine(Decoding!Fold(0, Decoder, s), a)
  BY <1>2, Decoding!FoldAppend
<1>4. DecodeTo(Append(s, a)) = DecodeLine(DecodeTo(s), a)
  BY <1>3, DecodeFolds
<1> QED
  BY <1>1, <1>4 DEF s, a

-----------------------------------------------------------------------------
(* The two readers side by side.                                             *)

\* A section of the decoder, and the decoder with the sections s before it.
SectionOf(id, es) == [baseID |-> id, entries |-> es]
DecoderAt(s, id, es, first, width) ==
  [sections |-> s, current |-> SectionOf(id, es), firstLine |-> first, indentWidth |-> width]

\* Resolving the sections s gives m: what they hold is already applied.
Resolves(s, m, mode) ==
  /\ s \in Seq(Range(s))
  /\ s = <<>> => m = <<>> /\ ~mode
  /\ s # <<>> => mode /\ m = ResolveFirst(s, Len(s))

\* Parse and the decoder have read the same entries and stand in the same
\* section; only the decoder still holds the sections before.
Beside(r, d) ==
  /\ IsReader(r)
  /\ d = DecoderAt(d.sections, d.current.baseID, r.section, r.firstLine, r.indentWidth)
  /\ r.section \in Seq(Range(r.section))
  /\ r.firstLine => d.sections = <<>> /\ r.section = <<>>
  /\ ~r.firstLine => d.sections # <<>> \/ r.section # <<>>
  /\ Resolves(d.sections, r.m, r.patchMode)

\* At the end of a section the decoder puts it after the others, and Parse
\* applies it to what they resolve to.
LEMMA SectionEnds ==
  ASSUME NEW r, NEW d, Beside(r, d)
  PROVE  LET s == DecodeEof(d)
             m == ApplySection(r).m
         IN /\ s \in Seq(Range(s))
            /\ s = <<>> => m = <<>>
            /\ s # <<>> => m = ResolveFirst(s, Len(s))
            /\ ~r.firstLine => s # <<>>
<1> DEFINE t == d.sections
           e == r.section
           x == SectionOf(d.current.baseID, e)
           s == DecodeEof(d)
           m == ApplySection(r).m
           Ends(u, a) == /\ u \in Seq(Range(u))
                         /\ u = <<>> => a = <<>>
                         /\ u # <<>> => a = ResolveFirst(u, Len(u))
                         /\ ~r.firstLine => u # <<>>
<1>1. Resolves(t, r.m, r.patchMode) /\ e \in Seq(Range(e)) /\ (~r.firstLine => t # <<>> \/ e # <<>>)
  BY DEF Beside
<1>2. d.current = x /\ d.current.entries = e /\ x.entries = e
  BY DEF Beside, DecoderAt, SectionOf
<1>3. m = Applied(r.m, e, r.patchMode)
  BY DEF Beside, IsReader, ApplySection, Applied
<1>4. s = IF e = <<>> THEN t ELSE Append(t, x)
  BY <1>2 DEF DecodeEof
<1>5. t \in Seq(Range(t))
  BY <1>1 DEF Resolves
<1> HIDE DEF x, e, t, s, m
<1>6. ASSUME e = <<>>
      PROVE  Ends(s, m)
  <2>1. s = t
    BY <1>4, <1>6
  <2>2. t = <<>> => r.m \o <<>> = <<>>
    BY <1>1 DEF Resolves
  <2>3. t = <<>> => m = <<>>
    BY <1>1, <1>3, <1>6, <2>2 DEF Applied, Resolves
  <2>4. t # <<>> => m = r.m
    BY <1>1, <1>3, <1>6 DEF Applied, Resolves
  <2>5. Ends(t, m)
    BY <1>1, <1>5, <1>6, <2>3, <2>4 DEF Resolves
  <2> QED
    BY <2>1, <2>5
<1>7. ASSUME e # <<>>, t = <<>>
      PROVE  Ends(s, m)
  <2>1. r.m = <<>> /\ ~r.patchMode
    BY <1>1, <1>7 DEF Resolves
  <2>2. <<>> \o e = e
    BY <1>1
  <2>3. m = e
    BY <1>3, <2>1, <2>2 DEF Applied
  <2>4. s = <<x>>
    BY <1>4, <1>7
  <2>5. Len(<<x>>) = 1 /\ <<x>>[1] = x /\ <<x>> # <<>> /\ <<x>> \in Seq({x})
    OBVIOUS
  <2>6. <<x>> \in Seq(Range(<<x>>))
    BY <2>5, InOwnRange
  <2>7. ResolveFirst(<<x>>, 1) = e
    BY <1>2, <2>5, ResolveOne
  <2>8. Ends(<<x>>, e)
    BY <2>5, <2>6, <2>7
  <2> QED
    BY <2>3, <2>4, <2>8
<1>8. ASSUME e # <<>>, t # <<>>
      PROVE  Ends(s, m)
  <2>1. r.patchMode /\ r.m = ResolveFirst(t, Len(t))
    BY <1>1, <1>8 DEF Resolves
  <2>2. m = ApplyPatch(r.m, e)
    BY <1>3, <1>8, <2>1 DEF Applied
  <2>3. s = Append(t, x)
    BY <1>4, <1>8
  <2> DEFINE V == Range(t) \cup {x}
  <2>4. t \in Seq(V) /\ x \in V
    BY <1>5
  <2> HIDE DEF V
  <2>5. Len(Append(t, x)) = Len(t) + 1 /\ Append(t, x) \in Seq(V) /\ Append(t, x) # <<>>
    <3>1. Len(Append(t, x)) = Len(t) + 1 /\ Append(t, x) \in Seq(V) /\ Len(t) \in Nat
      BY <2>4
    <3>2. Len(Append(t, x)) # 0
      BY <3>1
    <3> QED
      BY <3>1, <3>2, EmptySeq
  <2>6. ResolveFirst(Append(t, x), Len(t) + 1) = ApplyPatch(ResolveFirst(t, Len(t)), e)
    BY <1>2, <1>8, <2>4, ResolveAppend
  <2>7. Append(t, x) \in Seq(Range(Append(t, x)))
    BY <2>5, InOwnRange
  <2> DEFINE u == Append(t, x)
  <2>8. u \in Seq(Range(u)) /\ u # <<>> /\ m = ResolveFirst(u, Len(u))
    BY <2>1, <2>2, <2>5, <2>6, <2>7
  <2> HIDE DEF u
  <2>9. Ends(u, m)
    BY <2>8
  <2> QED
    BY <2>3, <2>9 DEF u
<1>9. Ends(s, m)
  <2> HIDE DEF Ends
  <2> QED
    BY <1>6, <1>7, <1>8
<1> QED
  BY <1>9 DEF s, m

\* What both readers take for the same.
ReadSame(e) == IsEntry(e) /\ ReadAlike(e)

LEMMA SameIsKept ==
  ASSUME NEW e, ReadSame(e)
  PROVE  ParseEntryLine(e) = e
<1> DEFINE n == e.name
           l == e.link
           i == e.id
           text == TargetText(l.text)
           d == e.depth
           m == e.mode
           t == e.timestamp
           z == e.size
<1>1. e = [name |-> n, depth |-> d, mode |-> m, timestamp |-> t, size |-> z, id |-> i, link |-> l]
  BY DEF ReadSame, IsEntry
<1>2. NameText(n, NoLink) = n /\ (l = NoLink \/ l = [kind |-> "target", text |-> text])
  BY DEF ReadSame, ReadAlike
<1> HIDE DEF n, l, i, text, d, m, t, z
<1>3. [e EXCEPT !.name = n, !.link = l, !.id = i] = e
  <2>1. [e EXCEPT !.name = n] = e
    BY <1>1
  <2>2. [e EXCEPT !.link = l] = e
    BY <1>1
  <2>3. [e EXCEPT !.id = i] = e
    BY <1>1
  <2> QED
    BY <2>1, <2>2, <2>3
<1>4. CASE l = NoLink
  <2>1. l.kind = "none"
    BY <1>4 DEF NoLink
  <2>2. ParseEntryLine(e) = [e EXCEPT !.name = NameText(n, NoLink), !.link = NoLink, !.id = i]
    BY <2>1 DEF ParseEntryLine, n, l, i
  <2> QED
    BY <1>2, <1>3, <1>4, <2>2
<1>5. CASE l = [kind |-> "target", text |-> text]
  <2>1. l.kind = "target" /\ l.kind # "none"
    BY <1>5
  <2>2. ParseEntryLine(e) = [e EXCEPT !.name = NameText(n, NoLink),
                                      !.link = [kind |-> "target", text |-> text], !.id = i]
    BY <2>1 DEF ParseEntryLine, n, l, i, text
  <2> QED
    BY <1>2, <1>3, <1>5, <2>2
<1> QED
  BY <1>2, <1>4, <1>5

\* The line of an entry, with the entry as both readers take it.
LEMMA EntryBeside ==
  ASSUME NEW r, NEW d, Beside(r, d), NEW line, line.kind # "id", ReadSame(line.entry)
  PROVE  /\ Beside(ReadLineOf(r, line), DecodeLine(d, line))
         /\ DecodeLine(d, line).sections = d.sections
<1> DEFINE v == Width(r.indentWidth, line)
           x == EntryAtDepth(line.entry, DepthOf(v, line))
           es == Append(r.section, x)
           q == ReadLineOf(r, line)
           g == DecodeLine(d, line)
           id == d.current.baseID
<1>1. /\ IsReader(r) /\ r.section \in Seq(Range(r.section))
      /\ d = DecoderAt(d.sections, id, r.section, r.firstLine, r.indentWidth)
      /\ Resolves(d.sections, r.m, r.patchMode)
  BY DEF Beside
<1>2. d.indentWidth = r.indentWidth /\ d.current.entries = r.section
  BY <1>1 DEF DecoderAt, SectionOf
<1>3. DepthOf(IF v = 0 THEN 2 ELSE v, line) = DepthOf(v, line)
  <2>1. v = 0 => line.indent = 0
    BY DEF Width
  <2> QED
    BY <2>1 DEF DepthOf
<1>4. ParseEntryLine(line.entry) = line.entry
  BY SameIsKept
<1>5. g = [d EXCEPT !.current.entries = es, !.indentWidth = v, !.firstLine = FALSE]
  BY <1>2, <1>3, <1>4 DEF DecodeLine
<1>6. q = [r EXCEPT !.section = es, !.indentWidth = v, !.firstLine = FALSE]
  BY DEF ReadLineOf, ReadEntry
<1>7. es \in Seq(Range(es)) /\ es # <<>>
  <2> DEFINE V == Range(r.section) \cup {x}
             s == r.section
  <2>1. s \in Seq(V) /\ x \in V
    BY <1>1
  <2> HIDE DEF V, x, s
  <2>2. Append(s, x) \in Seq(V) /\ Len(Append(s, x)) = Len(s) + 1 /\ Len(s) \in Nat
    BY <2>1
  <2>3. Len(Append(s, x)) # 0
    BY <2>2
  <2>4. Append(s, x) \in Seq(Range(Append(s, x))) /\ Append(s, x) # <<>>
    BY <2>2, <2>3, InOwnRange, EmptySeq
  <2> QED
    BY <2>4 DEF s
<1> HIDE DEF v, es, q, g
<1>8. q = [status |-> r.status, m |-> r.m, base |-> r.base, section |-> es,
           firstLine |-> FALSE, patchMode |-> r.patchMode, indentWidth |-> v]
  BY <1>1, <1>6 DEF IsReader
<1> HIDE DEF id
<1>9. g = DecoderAt(d.sections, id, es, FALSE, v)
  <2> DEFINE t == d.sections
             w == r.indentWidth
             e == r.section
             f == r.firstLine
  <2>1. d = [sections |-> t, current |-> [baseID |-> id, entries |-> e],
             firstLine |-> f, indentWidth |-> w]
    BY <1>1 DEF DecoderAt, SectionOf
  <2> HIDE DEF t, w, e, f
  <2>2. d.current = [baseID |-> id, entries |-> e]
    BY <2>1
  <2>3. [d.current EXCEPT !.entries = es] = [baseID |-> id, entries |-> es]
    BY <2>2
  <2>4. g = [sections |-> t, current |-> [baseID |-> id, entries |-> es],
             firstLine |-> FALSE, indentWidth |-> v]
    BY <1>5, <2>1, <2>3
  <2> QED
    BY <2>4 DEF DecoderAt, SectionOf, t
<1>10. /\ IsReader(q) /\ q.section = es /\ ~q.firstLine /\ q.indentWidth = v
       /\ q.m = r.m /\ q.patchMode = r.patchMode /\ q.firstLine = FALSE
  BY <1>8 DEF IsReader
<1>11. g.sections = d.sections /\ g.current.baseID = id
  BY <1>9 DEF DecoderAt, SectionOf
<1>12. Beside(q, g)
  BY <1>1, <1>7, <1>9, <1>10, <1>11 DEF Beside
<1> QED
  BY <1>11, <1>12 DEF q, g

\* An ID that is not on the first line.
LEMMA IdBeside ==
  ASSUME NEW r, NEW d, Beside(r, d), ~r.firstLine, NEW line, line.kind = "id"
  PROVE  /\ Beside(ReadLineOf(r, line), DecodeLine(d, line))
         /\ DecodeLine(d, line).sections = DecodeEof(d)
<1> DEFINE q == ReadLineOf(r, line)
           g == DecodeLine(d, line)
           s == DecodeEof(d)
           a == ApplySection(r)
           x == a.m
<1>1. /\ IsReader(r) /\ (d.sections # <<>> \/ r.section # <<>>)
      /\ d = DecoderAt(d.sections, d.current.baseID, r.section, r.firstLine, r.indentWidth)
  BY DEF Beside
<1>2. s \in Seq(Range(s)) /\ s # <<>> /\ x = ResolveFirst(s, Len(s))
  BY SectionEnds
<1>3. g = DecoderAt(s, line.id, <<>>, FALSE, r.indentWidth)
  <2> DEFINE t == d.sections
             w == r.indentWidth
             b == d.current.baseID
             e == r.section
             f == r.firstLine
  <2>1. d = [sections |-> t, current |-> [baseID |-> b, entries |-> e],
             firstLine |-> f, indentWidth |-> w]
    BY <1>1 DEF DecoderAt, SectionOf
  <2> HIDE DEF t, w, b, e, f
  <2>2. d.current.entries = e /\ d.sections = t /\ d.current = [baseID |-> b, entries |-> e]
    BY <2>1
  <2>3. CASE e = <<>>
    <3>1. t # <<>> /\ s = t
      BY <1>1, <2>2, <2>3 DEF DecodeEof, e, t
    <3>2. g = [d EXCEPT !.current.baseID = line.id, !.firstLine = FALSE]
      BY <2>2, <2>3, <3>1 DEF DecodeLine
    <3> HIDE DEF g, s
    <3>3. g = [sections |-> t, current |-> [baseID |-> line.id, entries |-> e],
               firstLine |-> FALSE, indentWidth |-> w]
      BY <2>1, <3>2
    <3> QED
      BY <2>3, <3>1, <3>3 DEF DecoderAt, SectionOf, w
  <2>4. CASE e # <<>>
    <3>1. s = Append(t, d.current)
      BY <2>2, <2>4 DEF DecodeEof
    <3>2. g = [d EXCEPT !.sections = Append(t, d.current), !.current = NewSection(line.id),
                        !.firstLine = FALSE]
      BY <2>2, <2>4 DEF DecodeLine
    <3> HIDE DEF g, s
    <3>3. g = [sections |-> s, current |-> NewSection(line.id), firstLine |-> FALSE, indentWidth |-> w]
      BY <2>1, <3>1, <3>2
    <3> QED
      BY <3>3 DEF DecoderAt, SectionOf, NewSection, w
  <2> QED
    BY <2>3, <2>4
<1> DEFINE y == Applied(r.m, r.section, r.patchMode)
           p == [ApplySection(r) EXCEPT !.patchMode = TRUE, !.firstLine = FALSE]
           z == IF p.base = NilId /\ ~(ComputeC4ID(p.m) = line.id) THEN "rejected" ELSE p.status
<1>4. a = [r EXCEPT !.m = y, !.section = <<>>]
  BY DEF ApplySection, Applied
<1>5. p = [a EXCEPT !.patchMode = TRUE, !.firstLine = FALSE]
  OBVIOUS
<1>6. q = [p EXCEPT !.status = z]
  BY DEF ReadLineOf, ReadId
<1> HIDE DEF g, s, a, q, y, p
<1>7. a = [status |-> r.status, m |-> y, base |-> r.base, section |-> <<>>,
           firstLine |-> r.firstLine, patchMode |-> r.patchMode, indentWidth |-> r.indentWidth]
  BY <1>1, <1>4 DEF IsReader
<1>8. p = [status |-> r.status, m |-> y, base |-> r.base, section |-> <<>>,
           firstLine |-> FALSE, patchMode |-> TRUE, indentWidth |-> r.indentWidth]
  BY <1>5, <1>7
<1> HIDE DEF z
<1>9. q = [status |-> z, m |-> y, base |-> r.base, section |-> <<>>,
           firstLine |-> FALSE, patchMode |-> TRUE, indentWidth |-> r.indentWidth]
  BY <1>6, <1>8
<1>10. x = y
  BY <1>7
<1> HIDE DEF x
<1>11. /\ IsReader(q) /\ q.section = <<>> /\ ~q.firstLine /\ q.firstLine = FALSE
       /\ q.indentWidth = r.indentWidth /\ q.m = x /\ q.patchMode
  BY <1>9, <1>10 DEF IsReader
<1>12. g.sections = s /\ g.current.baseID = line.id
  BY <1>3 DEF DecoderAt, SectionOf
<1>13. Resolves(s, x, q.patchMode)
  BY <1>2, <1>11 DEF Resolves
<1>14. <<>> \in Seq(Range(<<>>))
  OBVIOUS
<1>15. Beside(q, g)
  BY <1>2, <1>3, <1>11, <1>12, <1>13, <1>14 DEF Beside
<1> QED
  BY <1>12, <1>15 DEF q, g, s

LEMMA StartBeside == Beside(Fresh, Decoder)
<1>1. /\ Fresh.firstLine = TRUE /\ Fresh.section = <<>> /\ Fresh.m = <<>>
      /\ Fresh.patchMode = FALSE /\ Fresh.indentWidth = 0
  BY DEF Fresh
<1>2. Decoder = DecoderAt(<<>>, NilId, <<>>, TRUE, 0)
  BY DEF Decoder, DecoderAt, SectionOf, NewSection
<1>3. Decoder.sections = <<>> /\ Decoder.current.baseID = NilId
  BY DEF Decoder, NewSection
<1>4. <<>> \in Seq(Range(<<>>))
  OBVIOUS
<1>5. IsReader(Fresh)
  BY DEF Fresh, IsReader
<1>6. Resolves(<<>>, Fresh.m, Fresh.patchMode)
  BY <1>1, <1>4 DEF Resolves
<1> QED
  BY <1>1, <1>2, <1>3, <1>4, <1>5, <1>6 DEF Beside

\* Lines that begin with an entry, and whose entries are read alike.
Plain(w) ==
  /\ w # <<>> => w[1].kind # "id"
  /\ \A i \in 1..Len(w) : w[i].kind # "id" => ReadSame(w[i].entry)

\* The readers stand side by side as long as Parse rejects nothing.
LEMMA ReadSideBySide ==
  ASSUME NEW w, w \in Seq(Range(w)), Plain(w), NEW n \in 0..Len(w),
         ParseTo(SubSeq(w, 1, n)).status # "rejected"
  PROVE  Beside(ParseTo(SubSeq(w, 1, n)), DecodeTo(SubSeq(w, 1, n)))
<1> DEFINE R(i) == ParseTo(SubSeq(w, 1, i))
           D(i) == DecodeTo(SubSeq(w, 1, i))
           Both(r, d, i) == /\ Beside(r, d)
                            /\ i > 0 => ~r.firstLine
           Good(i) == R(i).status # "rejected" => Both(R(i), D(i), i)
           S == {i \in Nat : i <= Len(w) => Good(i)}
<1>1. Len(w) \in Nat /\ n \in Nat /\ n <= Len(w)
  BY LenProperties
<1>2. 0 \in S
  <2>1. SubSeq(w, 1, 0) = <<>>
    BY SubSeqEmpty
  <2>9. R(0) = Fresh /\ D(0) = Decoder
    BY <2>1, ParseStarts, DecodeStarts
  <2>10. ~(0 > 0)
    OBVIOUS
  <2> HIDE DEF R, D
  <2>11. Good(0)
    BY <2>9, <2>10, StartBeside
  <2> QED
    BY <2>11
<1>3. ASSUME NEW i \in Nat, i \in S
      PROVE  i + 1 \in S
  <2> SUFFICES ASSUME i + 1 <= Len(w), R(i + 1).status # "rejected"
               PROVE  Both(R(i + 1), D(i + 1), i + 1)
    OBVIOUS
  <2>1. i + 1 \in 1..Len(w) /\ i <= Len(w)
    BY <1>1
  <2>2. Good(i)
    BY <1>3, <2>1
  <2> DEFINE r == R(i)
             d == D(i)
             q == R(i + 1)
             g == D(i + 1)
             line == w[i + 1]
  <2>3. q = IF r.status = "rejected" THEN r ELSE ReadLineOf(r, line)
    BY <2>1, ParseStep
  <2>4. g = DecodeLine(d, line)
    BY <2>1, DecodeStep
  <2>5. i = 0 => line.kind # "id"
    <3>1. w # <<>>
      BY <1>1, <2>1, EmptySeq
    <3> QED
      BY <3>1 DEF Plain
  <2>6. line.kind # "id" => ReadSame(line.entry)
    BY <2>1 DEF Plain
  <2>7. q.status # "rejected"
    OBVIOUS
  <2>8. r.status # "rejected" => Both(r, d, i)
    BY <2>2
  <2> HIDE DEF r, d, q, g, line, R, D, Both
  <2>9. q = ReadLineOf(r, line) /\ Both(r, d, i)
    BY <2>3, <2>7, <2>8
  <2>10. Beside(r, d) /\ (i > 0 => ~r.firstLine)
    BY <2>9 DEF Both
  <2>11. IsReader(r)
    BY <2>10 DEF Beside
  <2>12. ~q.firstLine
    BY <2>9, <2>11, ReadKeeps
  <2>13. Beside(q, g)
    <3>1. CASE line.kind = "id"
      <4>1. i > 0
        BY <2>5, <3>1
      <4> QED
        BY <2>4, <2>9, <2>10, <3>1, <4>1, IdBeside
    <3>2. CASE line.kind # "id"
      BY <2>4, <2>6, <2>9, <2>10, <3>2, EntryBeside
    <3> QED
      BY <3>1, <3>2
  <2> QED
    BY <2>12, <2>13 DEF Both, q, g
<1>4. Nat \subseteq S
  <2> HIDE DEF S
  <2> QED
    BY <1>2, <1>3, Parsing!NatInSet
<1>5. n \in S
  BY <1>1, <1>4
<1> QED
  BY <1>1, <1>5

\* At the end of the lines both return the same.
LEMMA BothReturn ==
  ASSUME NEW w, NEW r, r = ParseTo(w), Beside(r, DecodeTo(w))
  PROVE  ResolvePatchChain(DecodePatchChain(w), 0) = ApplySection(r).m
<1> DEFINE s == DecodePatchChain(w)
           m == ApplySection(r).m
<1>1. s = DecodeEof(DecodeTo(w))
  BY DEF DecodePatchChain, DecodeTo, Decoder
<1>2. s \in Seq(Range(s)) /\ (s = <<>> => m = <<>>) /\ (s # <<>> => m = ResolveFirst(s, Len(s)))
  BY <1>1, SectionEnds
<1> HIDE DEF s, m
<1>3. ResolvePatchChain(s, 0) = m
  <2>1. CASE s = <<>>
    BY <1>2, <2>1 DEF ResolvePatchChain
  <2>2. CASE s # <<>>
    BY <1>2, <2>2, ResolvesFirst
  <2> QED
    BY <2>1, <2>2
<1> QED
  BY <1>3 DEF s, m

\* The entry of a line, which may be one of more than one version.
LEMMA LaidEntry ==
  ASSUME Chainable, NEW h \in Seq(Versions), NEW k \in 1..Len(h),
         NEW j \in 1..Len(TextOf(h, k)), TextOf(h, k)[j].kind # "id"
  PROVE  /\ IsEntry(TextOf(h, k)[j].entry)
         /\ \E c \in 1..k : \E i \in 1..Len(h[c]) :
              /\ TextOf(h, k)[j].entry.name = h[c][i].name
              /\ TextOf(h, k)[j].entry.link = h[c][i].link
<1> DEFINE line == TextOf(h, k)[j]
           Like(x, e) == x.name = e.name /\ x.link = e.link
<1>1. ASSUME NEW e, IsEntry(e), line = EntryLine(e)
      PROVE  IsEntry(line.entry) /\ Like(line.entry, e)
  <2> DEFINE x == EntryAtDepth(e, 0)
  <2>1. IsEntry(x) /\ Like(x, e)
    BY <1>1 DEF EntryAtDepth, IsEntry
  <2>2. line.entry = x
    BY <1>1 DEF EntryLine
  <2> HIDE DEF line, x, Like
  <2> QED
    BY <2>1, <2>2
<1>2. Len(TextOf(h, k)) \in Nat /\ Len(h) \in Nat /\ k \in Nat /\ k \in 1..k
  BY TextIs, LenProperties
<1>3. CASE k = 1
  <2> DEFINE s == StateOf(h, 1)
  <2>1. Readable(s) /\ Len(TextOf(h, 1)) = Len(s) /\ \A i \in 1..Len(s) : TextOf(h, 1)[i] = EntryLine(s[i])
    BY <1>3, FirstText
  <2>2. h[1] \in Versions /\ h[1] # <<>>
    BY <1>3 DEF Chainable
  <2>3. PICK i \in 1..Len(h[1]) : s[j] = h[1][i]
    BY <1>3, <2>1, <2>2, SortedIsReadable DEF StateOf
  <2>4. IsEntry(s[j]) /\ line = EntryLine(s[j])
    BY <1>3, <2>1 DEF Readable
  <2>5. IsEntry(line.entry) /\ Like(line.entry, h[1][i])
    <3> HIDE DEF line, Like, s
    <3> QED
      BY <1>1, <2>3, <2>4
  <2> QED
    BY <1>2, <1>3, <2>5
<1>4. CASE k # 1
  <2> DEFINE p == PatchOf(h, k)
  <2>1. k \in 2..Len(h) /\ k - 1 \in 1..k
    BY <1>2, <1>4
  <2>2. /\ h[k] \in Versions /\ h[k - 1] \in Versions /\ Readable(p)
        /\ Len(TextOf(h, k)) = Len(p) + 2 /\ Len(p) \in Nat
        /\ \A i \in 1..Len(p) : TextOf(h, k)[i + 1] = EntryLine(p[i])
    BY <2>1, LaterText
  <2>3. j # 1 /\ j # Len(p) + 2
    <3>1. k > 1
      BY <2>1
    <3> QED
      BY <2>2, <3>1, TextIs
  <2>4. j - 1 \in 1..Len(p) /\ (j - 1) + 1 = j
    BY <2>2, <2>3
  <2> DEFINE e == p[j - 1]
  <2>5. IsEntry(e) /\ line = EntryLine(e)
    BY <2>2, <2>4 DEF Readable
  <2>6. \/ \E i \in 1..Len(h[k - 1]) : EntriesIdentical(e, h[k - 1][i])
        \/ \E i \in 1..Len(h[k]) : EntriesIdentical(e, h[k][i])
    BY <2>2, <2>4, PatchIsReadable DEF PatchOf
  <2> HIDE DEF e, line, Like
  <2>7. \E c \in 1..k : \E i \in 1..Len(h[c]) : EntriesIdentical(e, h[c][i])
    BY <1>2, <2>1, <2>6
  <2>8. \A x : EntriesIdentical(e, x) => Like(e, x)
    BY DEF EntriesIdentical, Like
  <2>9. IsEntry(line.entry) /\ Like(line.entry, e)
    BY <1>1, <2>5
  <2>10. \A x : Like(e, x) => Like(line.entry, x)
    BY <2>9 DEF Like
  <2>11. \E c \in 1..k : \E i \in 1..Len(h[c]) : Like(line.entry, h[c][i])
    BY <2>7, <2>8, <2>10
  <2> QED
    BY <2>9, <2>11 DEF line, Like
<1> QED
  BY <1>3, <1>4

\* Up to the k-th version all entries are read alike.
AlikeUpTo(h, k) == \A j \in 1..k : \A i \in 1..Len(h[j]) : ReadAlike(h[j][i])

LEMMA TextReadAlike ==
  ASSUME Chainable, NEW h \in Seq(Versions), NEW k \in 1..Len(h), AlikeUpTo(h, k),
         NEW j \in 1..Len(TextOf(h, k)), TextOf(h, k)[j].kind # "id"
  PROVE  ReadSame(TextOf(h, k)[j].entry)
<1> DEFINE x == TextOf(h, k)[j].entry
<1>1. PICK c \in 1..k : \E i \in 1..Len(h[c]) : x.name = h[c][i].name /\ x.link = h[c][i].link
  BY LaidEntry
<1>2. PICK i \in 1..Len(h[c]) : x.name = h[c][i].name /\ x.link = h[c][i].link
  BY <1>1
<1>3. IsEntry(x)
  BY LaidEntry
<1>4. ReadAlike(h[c][i])
  BY DEF AlikeUpTo
<1> HIDE DEF x
<1>5. ReadAlike(x)
  BY <1>2, <1>4 DEF ReadAlike
<1> QED
  BY <1>3, <1>5 DEF ReadSame, x

LEMMA LaidStarts ==
  ASSUME Chainable, NEW h, NEW w, NEW blk, NEW off, NEW again, Laid(h, w, blk, off, again)
  PROVE  /\ w # <<>> => w[1].kind # "id"
         /\ \A i \in 1..Len(w) : w[i].kind # "id" => IsEntry(w[i].entry)
<1>1. /\ h \in Seq(Versions) /\ w \in Seq(Range(w))
      /\ \A i \in 1..Len(w) : LaidLine(h, w, blk, off, i, again)
  BY DEF Laid
<1>2. ASSUME NEW i \in 1..Len(w), w[i].kind # "id"
      PROVE  IsEntry(w[i].entry)
  <2>1. blk[i] \in 1..Len(h) /\ off[i] \in 1..Len(TextOf(h, blk[i])) /\ w[i] = TextOf(h, blk[i])[off[i]]
    BY <1>1 DEF LaidLine
  <2> QED
    BY <1>1, <1>2, <2>1, LaidEntry
<1>3. ASSUME w # <<>>
      PROVE  w[1].kind # "id"
  <2>1. Len(w) \in Nat /\ 1 \in 1..Len(w)
    BY <1>1, <1>3, EmptySeq, LenProperties
  <2>2. blk[1] = 1 /\ off[1] = 1 /\ 1 \in 1..Len(h) /\ 1 \in 1..Len(TextOf(h, 1)) /\ w[1] = TextOf(h, 1)[1]
    BY <1>1, <2>1 DEF LaidLine
  <2> QED
    BY <1>1, <2>2, TextIs
<1> QED
  BY <1>2, <1>3

\* The lines that a pass has read, if both readers take them alike.
LEMMA PassIsPlain ==
  ASSUME Chainable, ChainHolds, ~external,
         \A i \in 1..pos : file[i].kind # "id" => ReadAlike(file[i].entry)
  PROVE  Plain(SubSeq(file, 1, pos))
<1> DEFINE w == file \o queue
           u == SubSeq(file, 1, pos)
<1>1. LinesHold /\ HistoryHolds /\ file \in Seq(Range(file)) /\ pos \in 0..Len(file)
  BY DEF ChainHolds, LinesHold
<1>2. PICK blk, off : Laid(log, w, blk, off, retries)
  BY <1>1 DEF HistoryHolds, Written
<1>3. /\ w # <<>> => w[1].kind # "id"
      /\ \A i \in 1..Len(w) : w[i].kind # "id" => IsEntry(w[i].entry)
  BY <1>2, LaidStarts
<1>4. /\ Len(w) = Len(file) + Len(queue) /\ Len(file) \in Nat /\ Len(queue) \in Nat
      /\ \A i \in 1..Len(file) : w[i] = file[i]
  BY <1>1, JoinLines DEF LinesHold
<1>5. Len(u) = pos /\ \A i \in 1..pos : u[i] = file[i]
  BY <1>1
<1> HIDE DEF w, u
<1>6. 1..pos \subseteq 1..Len(file) /\ 1..Len(file) \subseteq 1..Len(w)
  BY <1>1, <1>4
<1>7. ASSUME NEW i \in 1..Len(u), u[i].kind # "id"
      PROVE  ReadSame(u[i].entry)
  <2>1. i \in 1..pos /\ i \in 1..Len(file) /\ i \in 1..Len(w)
    BY <1>5, <1>6
  <2>2. u[i] = file[i] /\ w[i] = file[i]
    BY <1>4, <1>5, <2>1
  <2> QED
    BY <1>3, <1>7, <2>1, <2>2 DEF ReadSame
<1>8. ASSUME u # <<>>
      PROVE  u[1].kind # "id"
  <2>1. u \in Seq(Range(file))
    BY <1>1 DEF u
  <2>2. pos # 0
    BY <1>5, <1>8, <2>1, EmptySeq
  <2>3. 1 \in 1..pos
    BY <1>1, <1>4, <2>2
  <2>4. 1 \in 1..Len(file) /\ 1 \in 1..Len(w)
    BY <1>6, <2>3
  <2>5. w # <<>>
    BY <2>4
  <2> QED
    BY <1>3, <1>4, <1>5, <2>3, <2>4, <2>5
<1> QED
  BY <1>7, <1>8 DEF Plain, u

LEMMA HoldsAgree ==
  ASSUME Chainable, ChainHolds, ~external
  PROVE  ResolveAgreesWithParse
<1> SUFFICES ASSUME reader.status = "done",
                    \A i \in 1..pos : file[i].kind # "id" => ReadAlike(file[i].entry)
             PROVE  ResolvePatchChain(DecodePatchChain(SubSeq(file, 1, pos)), 0) = reader.m
  BY DEF ResolveAgreesWithParse
<1> DEFINE w == SubSeq(file, 1, pos)
           r == ParseTo(w)
<1>1. r.status = "reading" /\ reader.m = ApplySection(r).m
  BY DEF ChainHolds, ReaderHolds
<1>2. file \in Seq(Range(file)) /\ pos \in 0..Len(file)
  BY DEF ChainHolds, LinesHold
<1>3. Plain(w)
  BY PassIsPlain
<1>4. w \in Seq(Range(file)) /\ Len(w) = pos
  BY <1>2
<1> HIDE DEF w
<1>5. w \in Seq(Range(w)) /\ pos \in 0..Len(w) /\ SubSeq(w, 1, pos) = w
  <2>1. w \in Seq(Range(w))
    BY <1>4, InOwnRange
  <2>2. Len(w) \in Nat /\ SubSeq(w, 1, Len(w)) = w
    BY <2>1, SubSeqFull
  <2> QED
    BY <1>4, <2>1, <2>2
<1>6. Beside(r, DecodeTo(w))
  <2>1. ParseTo(SubSeq(w, 1, pos)).status # "rejected"
    BY <1>1, <1>5
  <2>2. Beside(ParseTo(SubSeq(w, 1, pos)), DecodeTo(SubSeq(w, 1, pos)))
    BY <1>3, <1>5, <2>1, ReadSideBySide
  <2> QED
    BY <1>5, <2>2
<1> QED
  BY <1>1, <1>6, BothReturn DEF w

\* The two readers of the format return the same, wherever the file ends and
\* whatever was appended again, unless Parse rejects it or one of its lines is
\* one that the second reader misreads.
THEOREM ReadersAgree ==
  ASSUME Chainable PROVE Spec => [](~external => ResolveAgreesWithParse)
<1>1. ChainHolds => (~external => ResolveAgreesWithParse)
  BY HoldsAgree
<1> QED
  BY <1>1, ChainAlwaysHolds, PTL

-----------------------------------------------------------------------------
(* The sections of the second reader.                                        *)

\* Sections that come later do not matter to the first ones.
LEMMA ResolveEarlier ==
  ASSUME NEW V, NEW s \in Seq(V), NEW x \in V, NEW c \in 1..Len(s)
  PROVE  ResolveFirst(Append(s, x), c) = ResolveFirst(s, c)
<1> DEFINE t == Append(s, x)
           a == SubSeq(t, 2, c)
           b == SubSeq(s, 2, c)
<1>1. /\ t \in Seq(V) /\ Len(t) = Len(s) + 1 /\ Len(s) \in Nat
      /\ \A i \in 1..Len(s) : t[i] = s[i]
  OBVIOUS
<1> HIDE DEF t
<1>2. c \in 1..Len(t) /\ c \in Nat /\ 1 \in 1..Len(s)
  BY <1>1
<1>3. a \in Seq(V) /\ Len(a) = c - 1 /\ \A i \in 1..(c - 1) : a[i] = t[i + 1]
  BY <1>1, <1>2, WithoutFirst
<1>4. b \in Seq(V) /\ Len(b) = c - 1 /\ \A i \in 1..(c - 1) : b[i] = s[i + 1]
  BY WithoutFirst
<1> HIDE DEF a, b
<1>5. \A i \in 1..(c - 1) : a[i] = b[i]
  <2>1. \A i \in 1..(c - 1) : i + 1 \in 1..Len(s)
    BY <1>1, <1>2
  <2> QED
    BY <1>1, <1>3, <1>4, <2>1
<1>6. a = b
  BY <1>2, <1>3, <1>4, <1>5, SeqEqual
<1>7. t[1] = s[1]
  BY <1>1, <1>2
<1> QED
  BY <1>6, <1>7 DEF ResolveFirst, a, b, t

\* No two versions in a row are the same, so no patch is empty.
Changing(h) == \A k \in 2..Len(h) : StateOf(h, k) # StateOf(h, k - 1)

LEMMA PatchesHoldEntries ==
  ASSUME Chainable, NEW h \in Seq(Versions), Changing(h), NEW k \in 2..Len(h)
  PROVE  Len(TextOf(h, k)) = Len(PatchOf(h, k)) + 2 /\ Len(PatchOf(h, k)) \in Nat \ {0}
<1>1. /\ h[k] \in Versions /\ h[k - 1] \in Versions /\ Readable(PatchOf(h, k))
      /\ Len(TextOf(h, k)) = Len(PatchOf(h, k)) + 2 /\ Len(PatchOf(h, k)) \in Nat
  BY LaterText
<1>2. PatchOf(h, k) # <<>>
  BY <1>1, EmptyPatch DEF Changing, Chainable, StateOf, PatchOf
<1> QED
  BY <1>1, <1>2, EmptySeq DEF Readable, IsList

\* How many sections are closed after line j of the k-th version.
Closed(h, k, j) == IF k = 1 THEN 0 ELSE IF j = Len(TextOf(h, k)) THEN k ELSE k - 1

\* What Parse holds there.
LEMMA SectionAt ==
  ASSUME Chainable, NEW h \in Seq(Versions), Changing(h), NEW k \in 1..Len(h),
         NEW j \in 1..Len(TextOf(h, k)), NEW r, ReaderAt(h, r, k, j)
  PROVE  /\ r.section = <<>> <=> k > 1 /\ (j = 1 \/ j = Len(TextOf(h, k)))
         /\ k > 1 => r.m = StateOf(h, Closed(h, k, j))
         /\ k = 1 => ~r.patchMode
         /\ ~r.firstLine
<1>1. Len(TextOf(h, k)) \in Nat /\ j \in Nat /\ k \in Nat /\ Len(h) \in Nat
  BY TextIs, LenProperties
<1>2. CASE k = 1
  <2> DEFINE s == StateOf(h, 1)
  <2>1. PICK w : r = Reader(<<>>, SubSeq(s, 1, j), FALSE, FALSE, w)
    <3>1. ~(k > 1)
      BY <1>2
    <3>2. InFirst(h, r, j)
      BY <3>1 DEF ReaderAt
    <3> QED
      BY <3>2 DEF InFirst
  <2>2. Readable(s) /\ Len(TextOf(h, 1)) = Len(s)
    BY <1>2, FirstText
  <2>3. SubSeq(s, 1, j) # <<>>
    <3>1. Len(s) \in Nat /\ j \in 1..Len(s) /\ s \in Seq(Range(s))
      BY <1>1, <1>2, <2>2 DEF Readable, IsList
    <3>2. Len(SubSeq(s, 1, j)) = j
      BY <3>1
    <3> QED
      BY <3>1, <3>2, EmptySeq
  <2> HIDE DEF s
  <2>4. r.section # <<>> /\ ~r.patchMode /\ ~r.firstLine
    BY <2>1, <2>3 DEF Reader
  <2> QED
    BY <1>2, <2>4
<1>3. CASE k # 1
  <2> DEFINE p == PatchOf(h, k)
             n == Len(p)
  <2>1. k \in 2..Len(h) /\ k > 1
    BY <1>1, <1>3
  <2>2. Len(TextOf(h, k)) = n + 2 /\ n \in Nat \ {0} /\ Readable(p)
    BY <2>1, PatchesHoldEntries, LaterText
  <2>3. CASE j = n + 2
    <3>1. PICK w : r = Reader(StateOf(h, k), <<>>, FALSE, TRUE, w)
      <4>1. ~(j < n + 2)
        BY <2>2, <2>3
      <4>2. Confirmed(h, r, k)
        BY <1>3, <4>1 DEF ReaderAt
      <4> QED
        BY <4>2 DEF Confirmed
    <3>2. r.section = <<>> /\ r.m = StateOf(h, k) /\ ~r.firstLine
      BY <3>1 DEF Reader
    <3>3. Closed(h, k, j) = k
      BY <1>3, <2>2, <2>3 DEF Closed
    <3> QED
      BY <1>3, <2>1, <2>2, <2>3, <3>2, <3>3
  <2>4. CASE j # n + 2
    <3>1. PICK w : r = Reader(StateOf(h, k - 1), SubSeq(p, 1, j - 1), FALSE, TRUE, w)
      BY <1>3, <2>1, <2>4 DEF ReaderAt, InPatch
    <3>2. Closed(h, k, j) = k - 1
      BY <1>3, <2>2, <2>4 DEF Closed
    <3>3. SubSeq(p, 1, j - 1) = <<>> <=> j = 1
      <4>1. p \in Seq(Range(p)) /\ j - 1 \in 0..n
        BY <1>1, <2>2, <2>4 DEF Readable, IsList
      <4> DEFINE z == SubSeq(p, 1, j - 1)
      <4> HIDE DEF p
      <4>2. Len(z) = j - 1 /\ z \in Seq(Range(p))
        BY <1>1, <4>1
      <4> HIDE DEF z
      <4>3. z = <<>> <=> j - 1 = 0
        BY <4>2, EmptySeq
      <4>4. j - 1 = 0 <=> j = 1
        BY <1>1
      <4> QED
        BY <4>3, <4>4 DEF z
    <3> HIDE DEF p
    <3>4. (r.section = <<>> <=> j = 1) /\ r.m = StateOf(h, k - 1) /\ ~r.firstLine
      BY <3>1, <3>3 DEF Reader
    <3> QED
      BY <1>3, <2>1, <2>2, <2>4, <3>2, <3>4
  <2> QED
    BY <2>3, <2>4
<1> QED
  BY <1>2, <1>3

\* A section is closed by the line after it.
LEMMA ClosedNext ==
  ASSUME Chainable, NEW h \in Seq(Versions), Changing(h),
         NEW k \in 1..Len(h), NEW j \in 1..Len(TextOf(h, k)),
         NEW x \in 1..Len(h), NEW y \in 1..Len(TextOf(h, x)),
         \/ x = k /\ y = j + 1
         \/ x = k + 1 /\ y = 1 /\ j = Len(TextOf(h, k))
  PROVE  Closed(h, x, y) =
           IF /\ x > 1 /\ (y = 1 \/ y = Len(TextOf(h, x)))
              /\ ~(k > 1 /\ (j = 1 \/ j = Len(TextOf(h, k))))
           THEN Closed(h, k, j) + 1 ELSE Closed(h, k, j)
<1> DEFINE a == Len(TextOf(h, k))
           b == Len(TextOf(h, x))
<1>1. /\ Len(h) \in Nat /\ k \in Nat /\ x \in Nat /\ k > 0 /\ x > 0
      /\ a \in Nat /\ b \in Nat /\ j \in Nat /\ y \in Nat
      /\ 0 < j /\ j <= a /\ 0 < y /\ y <= b
  BY TextIs, LenProperties
<1>2. (k > 1 => a > 2) /\ (x > 1 => b > 2)
  <2>1. ASSUME NEW z \in 2..Len(h)
        PROVE  Len(TextOf(h, z)) > 2
    BY PatchesHoldEntries
  <2>2. (k > 1 => k \in 2..Len(h)) /\ (x > 1 => x \in 2..Len(h))
    BY <1>1
  <2> QED
    BY <2>1, <2>2
<1>3. /\ Closed(h, k, j) = IF k = 1 THEN 0 ELSE IF j = a THEN k ELSE k - 1
      /\ Closed(h, x, y) = IF x = 1 THEN 0 ELSE IF y = b THEN x ELSE x - 1
  BY DEF Closed
<1>4. x = k => a = b
  OBVIOUS
<1> DEFINE u == Closed(h, k, j)
           v == Closed(h, x, y)
<1> HIDE DEF a, b, u, v
<1>5. CASE x = k /\ y = j + 1
  BY <1>1, <1>2, <1>3, <1>4, <1>5 DEF a, b, u, v
<1>6. CASE x = k + 1 /\ y = 1 /\ j = Len(TextOf(h, k))
  <2>1. x > 1 /\ x # 1 /\ y # b /\ x - 1 = k
    BY <1>1, <1>2, <1>6
  <2>2. v = k
    BY <1>3, <2>1 DEF v, b
  <2>3. CASE k = 1
    <3>1. u = 0 /\ v = 0 + 1 /\ ~(k > 1)
      BY <1>3, <2>2, <2>3 DEF u
    <3> QED
      BY <1>6, <2>1, <3>1 DEF u, v
  <2>4. CASE k # 1
    <3>1. k > 1 /\ u = k
      BY <1>1, <1>3, <1>6, <2>4 DEF u, a
    <3> QED
      BY <1>6, <2>2, <3>1 DEF u, v
  <2> QED
    BY <2>3, <2>4
<1> QED
  BY <1>5, <1>6

\* A decoder, and what a line does to it, however its entry is read.
IsDecoder(d) ==
  /\ d = DecoderAt(d.sections, d.current.baseID, d.current.entries, d.firstLine, d.indentWidth)
  /\ d.sections \in Seq(Range(d.sections))
  /\ d.current.entries \in Seq(Range(d.current.entries))

LEMMA LineDecoded ==
  ASSUME NEW d, IsDecoder(d), NEW line
  PROVE  LET g == DecodeLine(d, line)
         IN /\ IsDecoder(g)
            /\ g.sections = IF line.kind = "id" THEN DecodeEof(d) ELSE d.sections
            /\ g.current.entries = <<>> <=> line.kind = "id"
<1> DEFINE g == DecodeLine(d, line)
           t == d.sections
           b == d.current.baseID
           e == d.current.entries
           f == d.firstLine
           w == d.indentWidth
<1>1. d = [sections |-> t, current |-> [baseID |-> b, entries |-> e],
           firstLine |-> f, indentWidth |-> w]
  BY DEF IsDecoder, DecoderAt, SectionOf
<1>2. t \in Seq(Range(t)) /\ e \in Seq(Range(e))
  BY DEF IsDecoder
<1>3. d.current = SectionOf(b, e) /\ d.current = [baseID |-> b, entries |-> e]
  <2> HIDE DEF t, b, e, f, w
  <2> QED
    BY <1>1 DEF SectionOf
<1>4. ASSUME line.kind = "id"
      PROVE  IsDecoder(g) /\ g.sections = DecodeEof(d) /\ g.current.entries = <<>>
  <2> DEFINE u == DecodeEof(d)
  <2>1. u = IF e = <<>> THEN t ELSE Append(t, SectionOf(b, e))
    BY <1>3 DEF DecodeEof
  <2>2. u \in Seq(Range(u))
    <3> DEFINE z == SectionOf(b, e)
               V == Range(t) \cup {z}
    <3>1. t \in Seq(V) /\ z \in V
      BY <1>2
    <3> HIDE DEF V
    <3>2. Append(t, z) \in Seq(V)
      BY <3>1
    <3>3. Append(t, z) \in Seq(Range(Append(t, z)))
      BY <3>2, InOwnRange
    <3> HIDE DEF t, z, e, u
    <3> QED
      BY <1>2, <2>1, <3>3 DEF z
  <2>3. g = DecoderAt(u, line.id, <<>>, FALSE, w)
    <3>1. CASE e = <<>> /\ (f \/ t # <<>>)
      <4>1. g = [d EXCEPT !.current.baseID = line.id, !.firstLine = FALSE]
        BY <1>4, <3>1 DEF DecodeLine
      <4> HIDE DEF g, t, b, e, f, w, u
      <4>2. g = [sections |-> t, current |-> [baseID |-> line.id, entries |-> e],
                 firstLine |-> FALSE, indentWidth |-> w]
        BY <1>1, <4>1
      <4> QED
        BY <2>1, <3>1, <4>2 DEF DecoderAt, SectionOf
    <3>2. CASE ~(e = <<>> /\ (f \/ t # <<>>))
      <4>1. g = [d EXCEPT !.sections = IF e = <<>> THEN t ELSE Append(t, d.current),
                          !.current = NewSection(line.id), !.firstLine = FALSE]
        BY <1>4, <3>2 DEF DecodeLine
      <4>2. u = IF e = <<>> THEN t ELSE Append(t, d.current)
        BY DEF DecodeEof
      <4> HIDE DEF g, t, b, e, f, w, u
      <4>3. g = [sections |-> u, current |-> NewSection(line.id), firstLine |-> FALSE, indentWidth |-> w]
        BY <1>1, <4>1, <4>2
      <4> QED
        BY <4>3 DEF DecoderAt, SectionOf, NewSection
    <3> QED
      BY <3>1, <3>2
  <2>4. <<>> \in Seq(Range(<<>>))
    OBVIOUS
  <2> HIDE DEF u, g, w
  <2>5. g.sections = u /\ g.current.baseID = line.id /\ g.current.entries = <<>>
        /\ g.firstLine = FALSE /\ g.indentWidth = w
    BY <2>3 DEF DecoderAt, SectionOf
  <2> QED
    BY <2>2, <2>3, <2>4, <2>5 DEF IsDecoder, u
<1>5. ASSUME line.kind # "id"
      PROVE  IsDecoder(g) /\ g.sections = t /\ g.current.entries # <<>>
  <2> DEFINE v == Width(w, line)
             x == EntryAtDepth(ParseEntryLine(line.entry), DepthOf(IF v = 0 THEN 2 ELSE v, line))
             es == Append(e, x)
  <2>1. g = [d EXCEPT !.current.entries = Append(@, x), !.indentWidth = v, !.firstLine = FALSE]
    BY <1>5 DEF DecodeLine
  <2>2. es \in Seq(Range(es)) /\ es # <<>>
    <3> DEFINE V == Range(e) \cup {x}
    <3>1. e \in Seq(V) /\ x \in V
      BY <1>2
    <3> HIDE DEF V, x, e
    <3>2. Append(e, x) \in Seq(V) /\ Len(Append(e, x)) = Len(e) + 1 /\ Len(e) \in Nat
      BY <3>1
    <3>3. Len(Append(e, x)) # 0
      BY <3>2
    <3> QED
      BY <3>2, <3>3, InOwnRange, EmptySeq
  <2> HIDE DEF x, v, g, t, b, f, w
  <2>3. g = [sections |-> t, current |-> [baseID |-> b, entries |-> es],
             firstLine |-> FALSE, indentWidth |-> v]
    <3> HIDE DEF e
    <3> QED
      BY <1>1, <2>1
  <2>4. g = DecoderAt(t, b, es, FALSE, v)
    <3> HIDE DEF es
    <3> QED
      BY <2>3 DEF DecoderAt, SectionOf
  <2> HIDE DEF es
  <2>5. g.sections = t /\ g.current.baseID = b /\ g.current.entries = es
        /\ g.firstLine = FALSE /\ g.indentWidth = v
    BY <2>4 DEF DecoderAt, SectionOf
  <2> QED
    BY <1>2, <2>2, <2>4, <2>5 DEF IsDecoder
<1> QED
  BY <1>4, <1>5

\* The sections s are those closed after line j of the k-th version, and
\* resolve to the versions that they end, whose entries are read alike.
Sections(h, s, k, j) ==
  /\ s \in Seq(Range(s))
  /\ Len(s) = Closed(h, k, j)
  /\ \A c \in 1..Len(s) : AlikeUpTo(h, c) => ResolveFirst(s, c) = StateOf(h, c)

\* One more section, of which Parse has applied the entries.
LEMMA SectionAdded ==
  ASSUME NEW h, NEW s, NEW k, NEW j, Sections(h, s, k, j), NEW z, NEW x, NEW y,
         Append(s, z) \in Seq(Range(Append(s, z))),
         Closed(h, x, y) = Closed(h, k, j) + 1,
         AlikeUpTo(h, Len(s) + 1) =>
           ResolveFirst(Append(s, z), Len(s) + 1) = StateOf(h, Len(s) + 1)
  PROVE  Sections(h, Append(s, z), x, y)
<1> DEFINE t == Append(s, z)
           V == Range(s) \cup {z}
<1>1. s \in Seq(V) /\ z \in V
  BY DEF Sections
<1> HIDE DEF V
<1>2. Len(t) = Len(s) + 1 /\ Len(s) \in Nat
  BY <1>1
<1>3. ASSUME NEW c \in 1..Len(s), AlikeUpTo(h, c)
      PROVE  ResolveFirst(t, c) = StateOf(h, c)
  BY <1>1, <1>3, ResolveEarlier DEF Sections
<1>4. t \in Seq(Range(t))
  OBVIOUS
<1> HIDE DEF t
<1>5. AlikeUpTo(h, Len(s) + 1) => ResolveFirst(t, Len(s) + 1) = StateOf(h, Len(s) + 1)
  BY DEF t
<1>6. \A c \in 1..Len(t) : c \in 1..Len(s) \/ c = Len(s) + 1
  BY <1>2
<1>7. Sections(h, t, x, y)
  BY <1>2, <1>3, <1>4, <1>5, <1>6 DEF Sections
<1> QED
  BY <1>7 DEF t

\* Line j of the k-th version is an ID, which ends a section.
AtId(h, k, j) == k > 1 /\ (j = 1 \/ j = Len(TextOf(h, k)))

\* Where the decoder stands after line j of the k-th version, and that it stands
\* beside Parse as long as the lines were read alike.
Stands(h, r, d, k, j) ==
  /\ IsDecoder(d)
  /\ d.current.entries = <<>> <=> AtId(h, k, j)
  /\ Sections(h, d.sections, k, j)
  /\ AlikeUpTo(h, k) => Beside(r, d)

LEMMA FirstStands ==
  ASSUME Chainable, NEW h \in Seq(Versions), 1 \in 1..Len(h), 1 \in 1..Len(TextOf(h, 1)),
         NEW line, line = TextOf(h, 1)[1]
  PROVE  Stands(h, ReadLineOf(Fresh, line), DecodeLine(Decoder, line), 1, 1)
<1> DEFINE g == DecodeLine(Decoder, line)
           q == ReadLineOf(Fresh, line)
<1>1. line.kind # "id"
  BY TextIs
<1>2. <<>> \in Seq(Range(<<>>)) /\ Len(<<>>) = 0
  OBVIOUS
<1>3. IsDecoder(Decoder) /\ Decoder.sections = <<>>
  <2>1. Decoder = DecoderAt(<<>>, NilId, <<>>, TRUE, 0)
    BY DEF Decoder, DecoderAt, SectionOf, NewSection
  <2> DEFINE d == Decoder
  <2> HIDE DEF d
  <2>2. /\ d.sections = <<>> /\ d.current.baseID = NilId /\ d.current.entries = <<>>
        /\ d.firstLine = TRUE /\ d.indentWidth = 0
    BY <2>1 DEF d, DecoderAt, SectionOf
  <2> QED
    BY <1>2, <2>1, <2>2 DEF IsDecoder, d
<1>4. IsDecoder(g) /\ g.sections = <<>> /\ g.current.entries # <<>>
  <2> HIDE DEF Decoder
  <2> QED
    BY <1>1, <1>3, LineDecoded
<1>5. ASSUME AlikeUpTo(h, 1)
      PROVE  Beside(q, g)
  <2>1. ReadSame(line.entry)
    BY <1>1, <1>5, TextReadAlike
  <2> QED
    BY <1>1, <2>1, StartBeside, EntryBeside
<1> HIDE DEF g, q
<1>6. Closed(h, 1, 1) = 0
  BY DEF Closed
<1>7. Sections(h, g.sections, 1, 1)
  BY <1>2, <1>4, <1>6 DEF Sections
<1>8. ~AtId(h, 1, 1)
  BY DEF AtId
<1>9. Stands(h, q, g, 1, 1)
  BY <1>4, <1>5, <1>7, <1>8 DEF Stands
<1> QED
  BY <1>9 DEF g, q

LEMMA NextStands ==
  ASSUME Chainable, NEW h \in Seq(Versions), Changing(h),
         NEW k \in 1..Len(h), NEW j \in 1..Len(TextOf(h, k)),
         NEW x \in 1..Len(h), NEW y \in 1..Len(TextOf(h, x)),
         \/ x = k /\ y = j + 1
         \/ x = k + 1 /\ y = 1 /\ j = Len(TextOf(h, k)),
         NEW line, line = TextOf(h, x)[y],
         NEW r, NEW d, ReaderAt(h, r, k, j), Stands(h, r, d, k, j),
         ReaderAt(h, ReadLineOf(r, line), x, y)
  PROVE  Stands(h, ReadLineOf(r, line), DecodeLine(d, line), x, y)
<1> DEFINE q == ReadLineOf(r, line)
           g == DecodeLine(d, line)
           s == d.sections
           z == d.current
           here == AtId(h, k, j)
           there == AtId(h, x, y)
<1>1. line.kind = "id" <=> there
  BY TextIs DEF AtId
<1>2. ~r.firstLine
  BY SectionAt
<1>3. Closed(h, x, y) = IF there /\ ~here THEN Closed(h, k, j) + 1 ELSE Closed(h, k, j)
  BY ClosedNext DEF AtId
<1>4. x > 1 => q.m = StateOf(h, Closed(h, x, y))
  BY SectionAt
<1>5. IsDecoder(d) /\ (z.entries = <<>> <=> here) /\ Sections(h, s, k, j)
      /\ (AlikeUpTo(h, k) => Beside(r, d))
  BY DEF Stands
<1>6. /\ IsDecoder(g) /\ (g.current.entries = <<>> <=> there)
      /\ g.sections = IF there THEN DecodeEof(d) ELSE s
  BY <1>1, <1>5, LineDecoded
<1>7. k \in Nat /\ x \in Nat /\ k \in 1..x
  <2>1. k \in Nat /\ x \in Nat /\ k > 0 /\ k <= x
    BY LenProperties
  <2> QED
    BY <2>1
<1>8. AlikeUpTo(h, x) => AlikeUpTo(h, k)
  BY <1>7 DEF AlikeUpTo
\* The line of an ID has no entry, so it is read alike in any case.
<1>9. ASSUME there, AlikeUpTo(h, k)
      PROVE  Beside(q, g)
  BY <1>1, <1>2, <1>5, <1>9, IdBeside
<1>10. ASSUME AlikeUpTo(h, x)
       PROVE  Beside(q, g)
  <2>1. CASE there
    BY <1>8, <1>9, <1>10, <2>1
  <2>2. CASE ~there
    <3>1. line.kind # "id" /\ Beside(r, d)
      BY <1>1, <1>5, <1>8, <1>10, <2>2
    <3>2. ReadSame(line.entry)
      BY <1>10, <3>1, TextReadAlike
    <3> QED
      BY <3>1, <3>2, EntryBeside
  <2> QED
    BY <2>1, <2>2
<1>11. s \in Seq(Range(s)) /\ Len(s) \in Nat /\ Len(s) = Closed(h, k, j)
  BY <1>5, LenProperties DEF Sections
<1>12. x > 1 => Closed(h, x, y) = (IF y = Len(TextOf(h, x)) THEN x ELSE x - 1)
  <2>1. x > 1 => x # 1
    BY <1>7
  <2> QED
    BY <2>1 DEF Closed
<1> HIDE DEF q, g, s, z, here, there
<1>13. Sections(h, g.sections, x, y)
  <2>1. CASE there /\ ~here
    <3>1. g.sections = Append(s, z)
      BY <1>5, <1>6, <2>1 DEF DecodeEof, s, z
    <3>2. Append(s, z) \in Seq(Range(Append(s, z)))
      BY <1>6, <3>1 DEF IsDecoder
    <3>3. Len(Append(s, z)) = Len(s) + 1 /\ Append(s, z) # <<>>
      <4> DEFINE V == Range(s) \cup {z}
      <4>1. s \in Seq(V) /\ z \in V
        BY <1>11
      <4> HIDE DEF V
      <4>2. Append(s, z) \in Seq(V) /\ Len(Append(s, z)) = Len(s) + 1 /\ Len(s) \in Nat
        BY <4>1
      <4>3. Len(Append(s, z)) # 0
        BY <4>2
      <4> QED
        BY <4>2, <4>3, EmptySeq
    <3>4. Closed(h, x, y) = Len(s) + 1 /\ x > 1
      BY <1>3, <1>11, <2>1 DEF there, AtId
    <3>5. ASSUME AlikeUpTo(h, Len(s) + 1)
          PROVE  ResolveFirst(Append(s, z), Len(s) + 1) = StateOf(h, Len(s) + 1)
      <4>1. k \in 1..(Len(s) + 1)
        <5>1. k <= x - 1 \/ (k = x /\ y = j + 1)
          BY <1>7
        <5>2. CASE y = Len(TextOf(h, x))
          BY <1>7, <1>12, <3>4, <5>2
        <5>3. CASE y # Len(TextOf(h, x))
          <6>1. y = 1
            BY <2>1, <5>3 DEF there, AtId
          <6>2. j \in Nat /\ j > 0
            BY TextIs
          <6>3. y # j + 1
            BY <6>1, <6>2
          <6> QED
            BY <1>7, <1>12, <3>4, <5>1, <5>3, <6>3
        <5> QED
          BY <5>2, <5>3
      <4>2. AlikeUpTo(h, k)
        BY <1>7, <3>5, <4>1 DEF AlikeUpTo
      <4>3. Beside(q, g)
        BY <1>9, <2>1, <4>2
      <4>4. Resolves(Append(s, z), q.m, q.patchMode)
        BY <3>1, <4>3 DEF Beside
      <4>5. q.m = ResolveFirst(Append(s, z), Len(s) + 1)
        BY <3>3, <4>4 DEF Resolves
      <4> QED
        BY <1>4, <3>4, <4>5
    <3>6. Closed(h, x, y) = Closed(h, k, j) + 1 /\ Sections(h, s, k, j)
      BY <1>3, <1>5, <2>1
    <3>7. Sections(h, Append(s, z), x, y)
      BY <3>2, <3>5, <3>6, SectionAdded
    <3> QED
      BY <3>1, <3>7
  <2>2. CASE ~(there /\ ~here)
    <3>1. g.sections = s
      BY <1>5, <1>6, <2>2 DEF DecodeEof, s, z
    <3>2. Closed(h, x, y) = Closed(h, k, j)
      BY <1>3, <2>2
    <3> QED
      BY <1>5, <3>1, <3>2 DEF Sections
  <2> QED
    BY <2>1, <2>2
<1>14. Stands(h, q, g, x, y)
  BY <1>6, <1>10, <1>13 DEF Stands, there
<1> QED
  BY <1>14 DEF q, g

LEMMA DecodedAt ==
  ASSUME Chainable, NEW h, NEW w, NEW blk, NEW off, Laid(h, w, blk, off, 0), Changing(h),
         NEW n \in 1..Len(w)
  PROVE  Stands(h, ParseTo(SubSeq(w, 1, n)), DecodeTo(SubSeq(w, 1, n)), blk[n], off[n])
<1> DEFINE R(i) == ParseTo(SubSeq(w, 1, i))
           D(i) == DecodeTo(SubSeq(w, 1, i))
           Good(i) == Stands(h, R(i), D(i), blk[i], off[i])
           S == {i \in Nat : i \in 1..Len(w) => Good(i)}
<1>1. /\ h \in Seq(Versions) /\ w \in Seq(Range(w)) /\ Len(w) \in Nat
      /\ \A i \in 1..Len(w) : LaidLine(h, w, blk, off, i, 0)
  BY DEF Laid
<1>2. ASSUME NEW i \in 1..Len(w)
      PROVE  /\ blk[i] \in 1..Len(h) /\ off[i] \in 1..Len(TextOf(h, blk[i]))
             /\ ReaderAt(h, R(i), blk[i], off[i])
  <2>1. blk[i] \in 1..Len(h) /\ off[i] \in 1..Len(TextOf(h, blk[i]))
    BY <1>1 DEF LaidLine
  <2>2. ReaderAt(h, R(i), blk[i], off[i])
    BY ParsedAt
  <2> QED
    BY <2>1, <2>2
<1>3. 0 \in S
  BY <1>1
<1>4. ASSUME NEW i \in Nat, i \in S, i + 1 \in 1..Len(w)
      PROVE  Good(i + 1)
  <2> DEFINE d == D(i + 1)
             q == R(i + 1)
             x == blk[i + 1]
             y == off[i + 1]
             r == R(i)
             e == D(i)
             line == w[i + 1]
  <2>1. /\ x \in 1..Len(h) /\ y \in 1..Len(TextOf(h, x)) /\ line = TextOf(h, x)[y]
        /\ ReaderAt(h, q, x, y)
        /\ \/ i + 1 = 1 /\ x = 1 /\ y = 1
           \/ i + 1 > 1 /\ x = blk[(i + 1) - 1] /\ y = off[(i + 1) - 1] + 1
           \/ /\ i + 1 > 1 /\ x = blk[(i + 1) - 1] + 1 /\ y = 1
              /\ off[(i + 1) - 1] = Len(TextOf(h, blk[(i + 1) - 1]))
    BY <1>1, <1>2, <1>4 DEF LaidLine
  <2>2. (i + 1) - 1 = i
    OBVIOUS
  <2>3. d = DecodeLine(e, line)
    BY <1>1, <1>4, DecodeStep
  <2>4. q = IF r.status = "rejected" THEN r ELSE ReadLineOf(r, line)
    BY <1>1, <1>4, ParseStep
  <2>5. CASE i = 0
    <3>1. SubSeq(w, 1, 0) = <<>>
      BY SubSeqEmpty
    <3>2. r = Fresh /\ e = Decoder
      BY <2>5, <3>1, ParseStarts, DecodeStarts
    <3>3. Fresh.status # "rejected"
      BY DEF Fresh
    <3> HIDE DEF R, D, d, q, x, y, r, e, line
    <3>4. x = 1 /\ y = 1
      BY <2>1, <2>5
    <3>5. Stands(h, ReadLineOf(Fresh, line), DecodeLine(Decoder, line), 1, 1)
      BY <1>1, <2>1, <3>4, FirstStands
    <3> QED
      BY <2>3, <2>4, <3>2, <3>3, <3>4, <3>5 DEF d, q, x, y
  <2>6. CASE i # 0
    <3> DEFINE k == blk[i]
               j == off[i]
    <3>1. i \in 1..Len(w)
      BY <1>1, <1>4, <2>6
    <3>2. k \in 1..Len(h) /\ j \in 1..Len(TextOf(h, k)) /\ ReaderAt(h, r, k, j)
      BY <1>2, <3>1
    <3>3. Stands(h, r, e, k, j)
      BY <1>4, <3>1
    <3>4. \/ x = k /\ y = j + 1
          \/ x = k + 1 /\ y = 1 /\ j = Len(TextOf(h, k))
      BY <2>1, <2>2, <2>6
    <3> HIDE DEF R, D, r, e, k, j, d, q, x, y, line
    <3>5. r.status # "rejected"
      BY <3>2 DEF ReaderAt, InFirst, InPatch, Confirmed, Reader
    <3>6. q = ReadLineOf(r, line)
      BY <2>4, <3>5
    <3>7. Stands(h, ReadLineOf(r, line), DecodeLine(e, line), x, y)
      BY <1>1, <2>1, <3>2, <3>3, <3>4, <3>6, NextStands
    <3> QED
      BY <2>3, <3>6, <3>7 DEF d, q, x, y
  <2> QED
    BY <2>5, <2>6
<1>5. ASSUME NEW i \in Nat, i \in S
      PROVE  i + 1 \in S
  BY <1>4, <1>5
<1>6. Nat \subseteq S
  <2> HIDE DEF S
  <2> QED
    BY <1>3, <1>5, Parsing!NatInSet
<1>7. n \in S
  BY <1>1, <1>6
<1> QED
  BY <1>7

\* In a file that ends with a version the k-th section ends with the k-th one.
LEMMA AllDecoded ==
  ASSUME Chainable, NEW h, NEW w, NEW blk, NEW off, Laid(h, w, blk, off, 0), Changing(h),
         h # <<>>, NEW k \in 1..Len(h), AlikeUpTo(h, k)
  PROVE  ResolvePatchChain(DecodePatchChain(w), k) = StateOf(h, k)
<1> DEFINE n == Len(w)
           l == Len(h)
           r == ParseTo(w)
           d == DecodeTo(w)
           s == DecodePatchChain(w)
           end == Len(TextOf(h, l))
<1>1. /\ h \in Seq(Versions) /\ w \in Seq(Range(w)) /\ n \in Nat /\ l \in Nat
      /\ blk[n] = l /\ off[n] = end /\ w # <<>>
  BY LenProperties DEF Laid
<1>2. n \in 1..n /\ l \in 1..l
  <2>1. n # 0 /\ l # 0
    BY <1>1, EmptySeq
  <2> QED
    BY <1>1, <2>1
<1>3. SubSeq(w, 1, n) = w
  BY <1>1, SubSeqFull
<1>4. Stands(h, r, d, l, end)
  BY <1>1, <1>2, <1>3, DecodedAt
<1>5. ReaderAt(h, r, l, end) /\ ApplySection(r).m = SortEntries(Last(h))
  BY <1>1, <1>2, <1>3, ParsedAt, ParsedAll
<1>6. /\ Sections(h, d.sections, l, end) /\ IsDecoder(d)
      /\ d.current.entries = <<>> <=> AtId(h, l, end)
      /\ AlikeUpTo(h, l) => Beside(r, d)
  BY <1>4 DEF Stands
<1>7. s = DecodeEof(d)
  BY DEF DecodePatchChain, DecodeTo, Decoder
<1>8. Last(h) = h[l]
  BY DEF Last
<1> HIDE DEF r, d, s, n, end
<1>9. Len(s) = l /\ ResolveFirst(s, k) = StateOf(h, k) /\ s \in Seq(Range(s))
  <2>1. CASE l = 1
    <3>1. k = 1 /\ Beside(r, d)
      BY <1>6, <2>1
    <3>2. Closed(h, l, end) = 0
      BY <2>1 DEF Closed
    <3>3. d.sections = <<>>
      BY <1>6, <3>2, EmptySeq DEF Sections
    <3>4. d.current.entries # <<>>
      BY <1>6, <2>1 DEF AtId
    <3>5. s = Append(<<>>, d.current)
      BY <1>7, <3>3, <3>4 DEF DecodeEof
    <3>6. Len(s) = 1 /\ s # <<>>
      BY <3>5
    <3>7. s \in Seq(Range(s)) /\ ApplySection(r).m = ResolveFirst(s, Len(s))
      BY <1>7, <3>1, <3>6, SectionEnds
    <3> QED
      BY <1>5, <1>8, <2>1, <3>1, <3>6, <3>7 DEF StateOf
  <2>2. CASE l # 1
    <3>1. l > 1
      <4>1. l \in Nat /\ l \in 1..l
        BY <1>1, <1>2
      <4> HIDE DEF l
      <4> QED
        BY <2>2, <4>1
    <3>2. AtId(h, l, end)
      BY <3>1 DEF AtId, end
    <3>3. s = d.sections
      BY <1>6, <1>7, <3>2 DEF DecodeEof
    <3>4. Closed(h, l, end) = l
      BY <2>2 DEF Closed, end
    <3> QED
      BY <1>6, <3>3, <3>4 DEF Sections
  <2> QED
    BY <2>1, <2>2
<1> HIDE DEF l
<1>10. s # <<>> /\ k \in 1..Len(s)
  <2>1. k \in 1..Len(s)
    BY <1>9 DEF l
  <2>2. Len(s) # 0
    BY <1>2, <1>9
  <2> QED
    BY <1>9, <2>1, <2>2, EmptySeq
<1>11. ResolvePatchChain(s, k) = ResolveFirst(s, k)
  BY <1>9, <1>10, ResolvesFirst
<1> QED
  BY <1>9, <1>11 DEF s

LEMMA HoldsStops ==
  ASSUME Chainable, ChainHolds
  PROVE  StopAtResolvesVersion
<1> SUFFICES ASSUME ~external, retries = 0, queue = <<>>,
                    \A k \in 2..Len(log) : SortEntries(log[k]) # SortEntries(log[k - 1]),
                    NEW k \in 1..Len(log),
                    \A j \in 1..k : \A i \in 1..Len(log[j]) : ReadAlike(log[j][i])
             PROVE  ResolvePatchChain(DecodePatchChain(file), k) = SortEntries(log[k])
  BY DEF StopAtResolvesVersion
<1>1. LinesHold /\ HistoryHolds
  BY DEF ChainHolds
<1>2. file \o queue = file
  BY <1>1 DEF LinesHold
<1>3. PICK blk, off : Laid(log, file, blk, off, 0)
  BY <1>1, <1>2 DEF HistoryHolds, Written
<1>4. Changing(log)
  BY DEF Changing, StateOf
<1>5. log # <<>> /\ AlikeUpTo(log, k)
  BY DEF AlikeUpTo
<1>6. ResolvePatchChain(DecodePatchChain(file), k) = StateOf(log, k)
  BY <1>3, <1>4, <1>5, AllDecoded
<1> QED
  BY <1>6 DEF StateOf

\* stopAt = k resolves the k-th version, if no two versions in a row are the same
\* and the second reader takes the entries up to there as Parse does.
THEOREM StopsAtVersion ==
  ASSUME Chainable PROVE Spec => []StopAtResolvesVersion
<1>1. ChainHolds => StopAtResolvesVersion
  BY HoldsStops
<1> QED
  BY <1>1, ChainAlwaysHolds, PTL
=============================================================================
