------------------------------ MODULE MCChain -------------------------------
(* Versions of one small tree: a root file that turns into a symlink, a        *)
(* directory whose content, when it changes, changes the directory's ID, and   *)
(* one version whose lines the second reader misreads.                         *)
(* Names in their order: 1 "a", 2 "b", 3 "b c", 4 what 3 is written as with the *)
(* link behind it, 5 "d/", 6 "e/".                                             *)
EXTENDS PatchChain

MCFile(d, x, id, link) ==
  [name |-> x, depth |-> d, mode |-> "file", link |-> link, id |-> id,
   timestamp |-> 1, size |-> 1]

MCDir(d, x, id, link) ==
  [name |-> x, depth |-> d, mode |-> "dir", link |-> link, id |-> id,
   timestamp |-> NullTimestamp, size |-> NullSize]

MCRoot == MCFile(0, 1, <<1>>, NoLink)

MCSymlink == [MCFile(0, 1, NilId, LinkTo(<<"b">>)) EXCEPT !.mode = "symlink"]

\* Directory 5 holds directory 6, which holds file 2.  Its own metadata is
\* known, so its C4 ID says nothing of what a reader has below it.
MCDeep == <<[MCDir(0, 5, <<11>>, NoLink) EXCEPT !.timestamp = 1, !.size = 4],
            MCDir(1, 6, <<12>>, NoLink), MCFile(2, 2, <<7>>, NoLink)>>

MCShallow == <<MCDir(0, 5, <<13>>, NoLink), MCFile(1, 2, <<7>>, NoLink)>>

\* A hard link of a group on a name with a space, and a flow link that hides the
\* ID of its directory.
MCMisread ==
  <<MCFile(0, 3, <<7>>, [kind |-> "group", text |-> <<"1">>]),
    MCDir(0, 5, <<14>>, [kind |-> "inbound", text |-> <<"nas:">>])>>

MCNameText(name, link) == IF name = 3 THEN 4 ELSE name
MCTargetText(text) == text

MCVersions ==
  {<<MCRoot>>, MCDeep, <<MCRoot>> \o MCDeep, MCShallow \o <<MCSymlink>>, MCMisread}

\* What the theorems about chains assume of the versions holds of these.
ASSUME MCVersionsAssumption == Chainable /\ Telling
=============================================================================
