------------------------------ MODULE EntryText ------------------------------
(***************************************************************************)
(* An entry as a line of text: Entry::Format and Entry::Canonical of         *)
(* src/c4m/entry.cpp, and what parseEntryFromLine of src/c4m/parser.cpp      *)
(* reads back, from the name on.  Mode, timestamp and size come first and    *)
(* have no spaces; they are left out, but for the file type.                 *)
(* The specification is the life of one entry that is renamed, written and   *)
(* read again.                                                               *)
(***************************************************************************)
EXTENDS Names

CONSTANTS Fragments,   \* byte strings that names are put together from
          Kinds,       \* the entries, but for their names
          IDs,         \* IDs, as texts that begin with c4
          OtherNames,  \* names that a name is sorted with
          MaxRenames,  \* bound: fragments added to a name
          MaxLength    \* bound: length of a name that is written

NilId == <<>>
Malformed == <<-1>>    \* what ID::Parse rejects, and with it the line: there is no entry

NoFlow == <<>>
Outbound == <<45, 62>>
Inbound == <<60, 45>>
Bidirectional == <<60, 62>>

ASSUME TextAssumption ==
  LET Text == Seq(Byte)
  IN /\ Fragments \subseteq Text /\ OtherNames \subseteq Text /\ IDs \subseteq Text
     /\ Kinds \subseteq [mode : {"file", "dir", "symlink"}, isSequence : BOOLEAN,
                         target : Text, hardLink : -1..9,
                         flow : {NoFlow, Outbound, Inbound, Bidirectional}, flowTarget : Text,
                         id : IDs \cup {NilId}]

VARIABLES entry,    \* the entry
          renames   \* number of fragments added to its name

vars == <<entry, renames>>

-----------------------------------------------------------------------------
(* Writing.                                                                  *)

IsDirName(name) == name # <<>> /\ name[Len(name)] = Slash

formatName(name, isSequence) ==
  LET safe == SafeName(name)
  IN IF IsDirName(name)
     THEN EscapeField(SubSeq(safe, 1, Len(safe) - 1), FALSE) \o <<Slash>>
     ELSE EscapeField(safe, isSequence)

formatTarget(t) == Escaped(SafeName(t), {Space, Quote})

\* Groups of hard links have one digit here; -1 is a link without a group.
LinkText(e) ==
  CASE e.target # <<>> -> <<Space>> \o Outbound \o <<Space>> \o formatTarget(e.target)
    [] e.target = <<>> /\ e.hardLink # 0 ->
         <<Space>> \o Outbound \o IF e.hardLink < 0 THEN <<>> ELSE <<48 + e.hardLink>>
    [] e.target = <<>> /\ e.hardLink = 0 /\ e.flow # NoFlow ->
         <<Space>> \o e.flow \o <<Space>> \o e.flowTarget
    [] OTHER -> <<>>

\* An ID, or the null marker.
IDText(id) == IF id = NilId THEN <<45>> ELSE id

Format(e) ==
  formatName(e.name, e.isSequence) \o LinkText(e) \o <<Space>> \o IDText(e.id)

-----------------------------------------------------------------------------
(* Reading.                                                                  *)

\* At byte i the last field begins: an ID or the null marker.
BeforeID(s, i) ==
  \/ Starts(s, i, <<Space, 99, 52>>)
  \/ Starts(s, i, <<Space, 45>>) /\ (i + 1 = Len(s) \/ s[i + 2] = Space)

AfterNameNoGroups(s, i) ==
  \/ BeforeID(s, i)
  \/ \E op \in {Outbound, Inbound, Bidirectional} :
       Starts(s, i, <<Space>> \o op \o <<Space>>)

\* Or a link.
AfterName(s, i) ==
  \/ BeforeID(s, i)
  \/ \E op \in {Outbound, Inbound, Bidirectional} :
       Starts(s, i, <<Space>> \o op \o <<Space>>)
  \/ \E n \in 49..57 : Starts(s, i, <<Space>> \o Outbound \o <<n>>)

\* The field at byte i: what it says, with the escapes of special undone, and
\* where it ends.  A name also ends with a slash and before a link.
Field(s, i, special, isName) ==
  LET n == Len(s)
      Ends(j) == IF isName THEN AfterName(s, j) ELSE BeforeID(s, j)
      Then(head, rest) == [value |-> head \o rest.value, end |-> rest.end]
      from[j \in 1..(n + 1)] ==
        IF j > n THEN [value |-> <<>>, end |-> j]
        ELSE IF s[j] = Backslash /\ j < n /\ s[j + 1] \in special
             THEN Then(<<s[j + 1]>>, from[j + 2])
        ELSE IF isName /\ s[j] = Slash THEN [value |-> <<Slash>>, end |-> j + 1]
        ELSE IF Ends(j) THEN [value |-> <<>>, end |-> j]
        ELSE Then(<<s[j]>>, from[j + 1])
  IN from[i]

NameField(s, i) == Field(s, i, {Space, Quote, Opening, Closing}, TRUE)
TargetField(s, i) == Field(s, i, {Space, Quote}, FALSE)
FlowField(s, i) == Field(s, i, {}, FALSE)

skipSpaces(s, i) ==
  CHOOSE j \in i..(Len(s) + 1) :
    /\ \A k \in i..(j - 1) : s[k] = Space
    /\ j > Len(s) \/ s[j] # Space

\* The text from byte i, without trailing spaces.
Remaining(s, i) ==
  LET end == CHOOSE j \in (i - 1)..Len(s) :
        /\ \A k \in (j + 1)..Len(s) : s[k] = Space
        /\ j = i - 1 \/ s[j] # Space
  IN SubSeq(s, i, end)

IsLetter(b) == b \in 65..90 \cup 97..122

\* A label and a colon.
isFlowTarget(s, i) ==
  /\ i <= Len(s) /\ IsLetter(s[i])
  /\ \E j \in (i + 1)..Len(s) :
       /\ s[j] = 58
       /\ \A k \in (i + 1)..(j - 1) : IsLetter(s[k]) \/ IsDigit(s[k]) \/ s[k] \in {95, 45}

IsIDOrNull(t) == t = <<45>> \/ Starts(t, 1, <<99, 52>>)

hasSequenceNotation(raw) ==
  \E i, j \in 1..Len(raw) :
    /\ j > i + 1 /\ raw[i] = Opening /\ raw[j] = Closing
    /\ \A k \in (i + 1)..(j - 1) : raw[k] \in 48..57 \cup {44, 45, 58, Backslash}

\* A range in brackets that no backslash takes out.
hasUnescapedSequenceNotation(raw) ==
  LET escapes[i \in 0..Len(raw)] ==
        i > 0 /\ i < Len(raw) /\ raw[i] = Backslash /\ ~escapes[i - 1]
      At(i, set) == raw[i] \in set /\ ~escapes[i] /\ ~escapes[i - 1]
  IN \E i, j \in 1..Len(raw) :
       /\ j > i + 1 /\ At(i, {Opening}) /\ At(j, {Closing})
       /\ \A k \in (i + 1)..(j - 1) : At(k, 48..57 \cup {44, 45, 58})

NoLink == [target |-> <<>>, hardLink |-> 0, flow |-> NoFlow, flowTarget |-> <<>>]

\* The link at byte i, which depends on the file type, and where it ends.
Link(s, i, mode) ==
  LET Target(j) ==
        LET f == TargetField(s, j)
        IN [link |-> [NoLink EXCEPT !.target = UnsafeName(f.value)],
            end |-> skipSpaces(s, f.end)]
      Flow(op, j) ==
        LET f == FlowField(s, j)
        IN [link |-> [NoLink EXCEPT !.flow = op, !.flowTarget = f.value],
            end |-> skipSpaces(s, f.end)]
      HardLink(group, j) == [link |-> [NoLink EXCEPT !.hardLink = group], end |-> j]
      None(j) == [link |-> NoLink, end |-> j]
      past == skipSpaces(s, i + 2)
      other == mode # "symlink"
  IN CASE Starts(s, i, Outbound) ->
            IF other /\ i + 2 <= Len(s) /\ s[i + 2] \in 49..57
            THEN HardLink(s[i + 2] - 48, skipSpaces(s, i + 3))
            ELSE IF other /\ isFlowTarget(s, past) THEN Flow(Outbound, past)
            ELSE IF other /\ IsIDOrNull(Remaining(s, past)) THEN HardLink(-1, past)
            ELSE IF past <= Len(s) THEN Target(past)
            ELSE None(past)
       [] Starts(s, i, Inbound) -> Flow(Inbound, past)
       [] Starts(s, i, Bidirectional) -> Flow(Bidirectional, past)
       [] OTHER -> None(i)

ReadID(t) ==
  IF ~Starts(t, 1, <<99, 52>>) THEN NilId ELSE IF t \in IDs THEN t ELSE Malformed

\* parseEntryFromLine, from the name on.
Parse(s, mode) ==
  LET name == NameField(s, 1)
      link == Link(s, skipSpaces(s, name.end), mode)
  IN [mode |-> mode,
      name |-> UnsafeName(name.value),
      isSequence |-> hasUnescapedSequenceNotation(SubSeq(s, 1, name.end - 1)),
      target |-> link.link.target, hardLink |-> link.link.hardLink,
      flow |-> link.link.flow, flowTarget |-> link.link.flowTarget,
      id |-> ReadID(Remaining(s, link.end))]

-----------------------------------------------------------------------------
(* Reading the entries of a patch chain.                                     *)

ChainNameEndAnyArrow(s) ==
  Min({j \in 1..Len(s) : \/ j > 1 /\ s[j - 1] = Slash
                         \/ BeforeID(s, j)
                         \/ Starts(s, j, <<Space>> \o Outbound)}
      \cup {Len(s) + 1})

\* Where the name ends: only " -> " is known as a link.
ChainNameEnd(s) ==
  Min({j \in 1..Len(s) : \/ j > 1 /\ s[j - 1] = Slash
                         \/ BeforeID(s, j)
                         \/ Starts(s, j, <<Space>> \o Outbound \o <<Space>>)}
      \cup {Len(s) + 1})

\* The parser of DecodePatchChain, from the name on.  It undoes no escapes and
\* finds no links but targets and no ranges.  (A field that begins with a quote,
\* as none that is written does, is left out.)
parseEntryLine(s, mode) ==
  LET end == ChainNameEnd(s)
      link == skipSpaces(s, end)
      isTarget == Starts(s, link, Outbound) /\ link + 2 <= Len(s)
      from == skipSpaces(s, link + 2)
      to == Min({j \in from..Len(s) : BeforeID(s, j)} \cup {Len(s) + 1})
      id == IF isTarget THEN skipSpaces(s, to) ELSE link
  IN [mode |-> mode, name |-> SubSeq(s, 1, end - 1), isSequence |-> FALSE,
      target |-> IF isTarget THEN SubSeq(s, from, to - 1) ELSE <<>>,
      hardLink |-> 0, flow |-> NoFlow, flowTarget |-> <<>>,
      id |-> ReadID(Remaining(s, id))]

-----------------------------------------------------------------------------
Named(kind, base) == IF kind.mode = "dir" THEN base \o <<Slash>> ELSE base

Init ==
  /\ \E kind \in Kinds, f \in Fragments :
       /\ kind.isSequence => hasUnescapedSequenceNotation(f)
       /\ entry = [mode |-> kind.mode, name |-> Named(kind, f), isSequence |-> kind.isSequence,
                   target |-> kind.target, hardLink |-> kind.hardLink,
                   flow |-> kind.flow, flowTarget |-> kind.flowTarget, id |-> kind.id]
  /\ renames = 0

\* The entry is given a longer name.
Rename(f) ==
  LET base == IF entry.mode = "dir" THEN Front(entry.name) ELSE entry.name
  IN /\ renames < MaxRenames /\ entry.id # Malformed
     /\ renames' = renames + 1
     /\ entry' = [entry EXCEPT !.name = Named(entry, base \o f)]

\* It is written and read again.
Rewrite ==
  /\ Len(entry.name) <= MaxLength /\ entry.id # Malformed
  /\ entry' = Parse(Format(entry), entry.mode)
  /\ UNCHANGED renames

Next == (\E f \in Fragments : Rename(f)) \/ Rewrite

Spec == Init /\ [][Next]_vars

-----------------------------------------------------------------------------
\* No character is a replacement character, as some tools leave where they
\* could not read a name.
NoReplacement(name) == ~\E i \in DOMAIN name : Starts(name, i, Utf8(Replacement))

\* Every name but those comes back from its escapes: no two have one text.
EscapesReverse ==
  NoReplacement(entry.name) =>
    UnsafeName(UnescapeField(EscapeField(entry.name, FALSE))) = entry.name

\* A name that needs no escape of SafeName comes back from a line just as it
\* was, whatever it looks like (the end of a field, a link, an ID, a range), and
\* so does all that follows it.
RewriteKeeps ==
  [][Rewrite /\ SafeName(entry.name) = entry.name
             /\ (entry.isSequence => ~IsDirName(entry.name))
     => entry' = entry]_vars

\* No name but one that ends with a backslash is taken for more or less than
\* the name: the link and the ID come back.
FieldsSurvive ==
  [][Rewrite /\ ~(entry.mode # "dir" /\ entry.name[Len(entry.name)] = Backslash) =>
       /\ entry'.id = entry.id
       /\ entry'.target = entry.target /\ entry'.hardLink = entry.hardLink
       /\ entry'.flow = entry.flow /\ entry'.flowTarget = entry.flowTarget]_vars

\* The link of e as SecondParser has it.
AsLink(e) ==
  CASE e.target # <<>> -> [kind |-> "target", text |-> e.target]
    [] e.target = <<>> /\ e.hardLink < 0 -> [kind |-> "hard link", text |-> <<>>]
    [] e.target = <<>> /\ e.hardLink > 0 -> [kind |-> "group", text |-> <<48 + e.hardLink>>]
    [] e.target = <<>> /\ e.hardLink = 0 /\ e.flow # NoFlow ->
         [kind |-> CASE e.flow = Outbound -> "outbound"
                     [] e.flow = Inbound -> "inbound"
                     [] e.flow = Bidirectional -> "bidirectional",
          text |-> e.flowTarget]
    [] OTHER -> [kind |-> "none", text |-> <<>>]

AsEntry(e) == [name |-> e.name, link |-> AsLink(e), id |-> e.id]

\* The link is that of the entry.
NameBeside(name, link) ==
  formatName(name, entry.isSequence) \o IF link.kind = "none" THEN <<>> ELSE LinkText(entry)

Second == INSTANCE SecondParser WITH
  EndsInSlash <- IsDirName, NameText <- NameBeside, TargetText <- formatTarget,
  NoLink <- [kind |-> "none", text |-> <<>>]

\* A text in the line itself looks like its end: like an ID, the null marker or
\* an arrow, or, in the name with a link swallowed by it, like a directory.
Misleading(name, target) ==
  LET EndsWithin(t) == \E i \in 1..Len(t) : BeforeID(t, i)
      arrow == <<Space>> \o Outbound \o <<Space>>
  IN \/ EndsWithin(name) \/ EndsWithin(target) \/ EndsWithin(entry.flowTarget)
     \/ \E i \in 1..Len(name) : Starts(name \o <<Space>>, i, arrow)
     \/ Slash \in ToSet(Front(entry.name))
     \/ /\ entry.flow \in {Inbound, Bidirectional} /\ ~IsDirName(entry.name)
        /\ Slash \in ToSet(Front(entry.flowTarget))

\* What chains are checked and proved with is what the code does: the second
\* parser makes of any other line what SecondParser says, and of those that are
\* called alike there the entry itself, as Manifest::Parse does (RewriteKeeps).
TwoParsers ==
  Len(entry.name) <= MaxLength /\ entry.id # Malformed =>
    LET read == AsEntry(parseEntryLine(Format(entry), entry.mode))
    IN /\ \/ Misleading(formatName(entry.name, entry.isSequence), formatTarget(entry.target))
          \/ read = Second!ParseEntryLine(AsEntry(entry))
       /\ Second!ReadAlike(AsEntry(entry)) => read = AsEntry(entry)

\* The order of the other names.
OthersInOrder ==
  [signed \in BOOLEAN |-> {p \in OtherNames \X OtherNames : NaturalLess(p[1], p[2], signed)}]

\* Names have one order, whether char is signed or not: of two exactly one is
\* less, and it has no cycles.
OrderIsTotal ==
  \A signed \in BOOLEAN :
    LET less == {m \in OtherNames : NaturalLess(m, entry.name, signed)}
        greater == {m \in OtherNames : NaturalLess(entry.name, m, signed)}
    IN /\ less \cap greater = {}
       /\ less \cup greater = OtherNames \ {entry.name}
       /\ \A k \in less, m \in greater : <<k, m>> \in OthersInOrder[signed]

-----------------------------------------------------------------------------
\* src/c4m/entry.cpp:15 "Format name for c4m output using backslash escaping
\* (no quoting). Applies SafeName encoding then c4m field-boundary escaping.":
\* what was escaped by it is read back as the name it was.
NamesComeBack == [][Rewrite => entry'.name = entry.name]_vars
=============================================================================
