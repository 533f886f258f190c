------------------------- MODULE MCWorkspacePrivacy -------------------------
(* A sensitive file at the root and a directory with a key and a file in it, *)
(* which may also be asked for as `../ws/d` and through a link.  The ignore  *)
(* files hide the directory but for one file, or the one file alone; they    *)
(* may be invalid, or partly unreadable.                                     *)
EXTENDS WorkspacePrivacy

MCPaths == {<<"env">>, <<"d">>, <<"d", "key">>, <<"d", "x">>}
MCAbsoluteSuffixes == {<<"key">>}
MCAbsoluteSequences == {}
MCSensitiveSuffixes == {<<"env">>}
MCSensitiveSequences == {<<"ssh">>}

MCName(asked, path) == [asked |-> asked, path |-> path]
MCOtherNames ==
  {MCName(<<"ws">>, <<>>), MCName(<<"ws", "d">>, <<"d">>), MCName(<<"link">>, <<"d">>)}

MCPattern(at, path, negated) == [at |-> at, path |-> path, slash |-> FALSE, negated |-> negated]
MCFiles(git, orbit, valid, unread) ==
  [git |-> git, orbit |-> orbit, valid |-> valid, unread |-> unread]

MCHidesAllBut == <<MCPattern(<<>>, <<"d">>, FALSE), MCPattern(<<"d">>, <<"x">>, TRUE)>>
MCHidesOne == <<MCPattern(<<"d">>, <<"x">>, FALSE)>>

MCIgnoreFiles ==
  {MCFiles(<<>>, {[at |-> <<>>, path |-> <<"d">>, slash |-> TRUE]}, TRUE, {}),
   MCFiles(MCHidesAllBut, {}, TRUE, {}),
   MCFiles(MCHidesOne, {}, TRUE, {}),
   MCFiles(MCHidesOne, {}, TRUE, {<<>>}),
   MCFiles(<<>>, {}, FALSE, {})}
=============================================================================
