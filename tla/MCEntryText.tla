---------------------------- MODULE MCEntryText ----------------------------
(* Bounds for EntryText: names of up to three fragments. *)
EXTENDS EntryText

\* What names are made of: text, digits, what needs a backslash, what goes as
\* braille (a byte that is no UTF-8, the currency sign), braille itself, and what
\* looks like the end of a field, a range or a link.
MCFragments ==
  {<<97>>, <<48, 49>>, <<34>>, <<91, 49, 45, 50, 93>>, <<92>>, <<9>>, <<116>>,
   <<255>>, <<194, 164>>, <<226, 160, 135>>, <<32, 45>>, <<32, 45, 62, 32>>,
   <<32, 45, 62, 49>>, <<32, 99, 52>>, <<32>>}

\* Text, a tab, and U+FFFD.
MCFragmentsEscaped == {<<97>>, <<9>>, <<239, 191, 189>>}

Kind(mode, target, hardLink, flow, flowTarget, id) ==
  [mode |-> mode, isSequence |-> FALSE, target |-> target, hardLink |-> hardLink,
   flow |-> flow, flowTarget |-> flowTarget, id |-> id]

MCID == <<99, 52, 120>>

\* Every kind of link, on a directory where it is read otherwise than on a file,
\* and targets with and without what needs an escape.
MCKinds ==
  {Kind("file", <<>>, 0, NoFlow, <<>>, MCID),
   [Kind("file", <<>>, 0, NoFlow, <<>>, NilId) EXCEPT !.isSequence = TRUE],
   Kind("file", <<>>, -1, NoFlow, <<>>, MCID),
   Kind("file", <<>>, 3, NoFlow, <<>>, NilId),
   Kind("file", <<>>, 0, Outbound, <<115, 58, 97, 32, 98>>, NilId),
   Kind("file", <<>>, 0, Bidirectional, <<115, 58>>, MCID),
   Kind("dir", <<>>, 3, NoFlow, <<>>, MCID),
   Kind("dir", <<>>, 0, Inbound, <<112, 47>>, MCID),
   Kind("symlink", <<98>>, 0, NoFlow, <<>>, MCID),
   Kind("symlink", <<97, 32, 98>>, 0, NoFlow, <<>>, NilId),
   Kind("symlink", <<97, 32, 99, 52, 34, 91>>, 0, NoFlow, <<>>, MCID),
   Kind("symlink", <<115, 58, 92, 98, 32, 45>>, 0, NoFlow, <<>>, NilId)}

MCIDs == {MCID}

\* "a", "a-", "1", "01", "10", "1a", a letter of two bytes.
MCOtherNames ==
  {<<97>>, <<97, 45>>, <<49>>, <<48, 49>>, <<49, 48>>, <<49, 97>>, <<195, 169>>}
=============================================================================
