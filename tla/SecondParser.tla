---------------------------- MODULE SecondParser ----------------------------
(***************************************************************************)
(* What the entry parser of patch chains (parseEntryLine of                  *)
(* src/c4m/operations.cpp) makes of the line that was written for an entry.  *)
(* Manifest::Parse, which reads the same files, has a parser of its own.     *)
(* A link is what kind it is and the text behind its operator.  Names and    *)
(* texts are anything: bytes in EntryText, which has the parser byte by      *)
(* byte, and ranks in PatchChain.                                            *)
(***************************************************************************)
CONSTANTS EndsInSlash(_),    \* a directory's name
          NameText(_, _),    \* a name with its escapes, and with the link behind it
          TargetText(_),     \* a target with its escapes
          IDText(_),         \* an ID, or the null marker for none
          NilId,             \* no ID
          NoLink             \* no link

\* No escape is undone.  "->" opens a target, whatever it is, and without a group
\* the ID is the target; no other operator is known.  A file's name ends before
\* " -> " but goes on over the others, and behind a directory's they hide the ID.
ParseEntryLine(e) ==
  LET Target(text) == [kind |-> "target", text |-> text]
      unknown == e.link.kind \in {"group", "inbound", "bidirectional"}
      swallowed == unknown /\ ~EndsInSlash(e.name)
      hidden == e.link.kind = "hard link" \/ (unknown /\ ~swallowed /\ e.link.kind # "group")
  IN [e EXCEPT
        !.name = NameText(e.name, IF swallowed THEN e.link ELSE NoLink),
        !.link = CASE e.link.kind = "target" -> Target(TargetText(e.link.text))
                   [] e.link.kind = "outbound" -> Target(e.link.text)
                   [] e.link.kind = "group" /\ ~swallowed -> Target(e.link.text)
                   [] e.link.kind = "hard link" -> Target(IDText(e.id))
                   [] OTHER -> NoLink,
        !.id = IF hidden THEN NilId ELSE @]

\* What it reads as Manifest::Parse does: nothing is escaped, and there is no
\* link but a target.
ReadAlike(e) ==
  /\ NameText(e.name, NoLink) = e.name
  /\ \/ e.link = NoLink
     \/ e.link = [kind |-> "target", text |-> TargetText(e.link.text)]
=============================================================================
