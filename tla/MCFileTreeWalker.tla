------------------------- MODULE MCFileTreeWalker -------------------------
(***************************************************************************)
(* Small instances of FileTreeWalker: a tree with two directories, and a   *)
(* file whose name begins like a directory's; and a place elsewhere, where *)
(* the root leads when it is a link.  A link in the tree leads to another  *)
(* directory, or to one above it.                                          *)
(***************************************************************************)
EXTENDS FileTreeWalker

h == <<104>>
r == <<114>>
a == <<97>>
a_t == <<97, 46, 116>>
b == <<98>>
x == <<120>>
y == <<121>>
w == <<119>>

Home == <<h, r>>

Files0 == {<<a_t>>, <<h, r, a, x>>, <<h, r, a, y>>, <<h, r, a_t>>, <<h, r, b, x>>}
Dirs0 == {<<>>, <<h>>, <<h, r>>, <<h, r, a>>, <<h, r, b>>}
MCPlaces == Files0 \cup Dirs0

Tree == [p \in MCPlaces |-> IF p \in Files0 THEN "file" ELSE "dir"]

MCTrees ==
  { Tree,
    [Tree EXCEPT ![<<h, r, a>>] = "closed", ![<<h, r, b, x>>] = "dir"],
    [Tree EXCEPT ![<<h, r, a>>] = "file", ![<<h, r, a_t>>] = "other"],
    [Tree EXCEPT ![<<h, r, a>>] = "link", ![<<h, r, a_t>>] = "link"],
    [Tree EXCEPT ![<<h, r>>] = "file"],
    [Tree EXCEPT ![<<h, r>>] = "other"],
    [Tree EXCEPT ![<<h, r>>] = "link", ![<<a_t>>] = "dir"],
    [Tree EXCEPT ![<<h, r>>] = "link"],
    [Tree EXCEPT ![<<h, r>>] = "absent"] }

MCLinkable == {Home, <<h, r, a>>, <<h, r, a_t>>, <<h, r, b, x>>}

MCLinkTarget ==
  [p \in MCLinkable |-> CASE p = Home -> <<a_t>>
                          [] p = <<h, r, a>> -> <<h, r, b>>
                          [] p = <<h, r, a_t>> -> <<a_t>>
                          [] p = <<h, r, b, x>> -> <<h>>]

MCDefaults == {<<y>>}

Rule(p) == [is |-> "absolute", path |-> p]

MCExcludeFiles ==
  { {},
    {Rule(<<h>>)},
    {[is |-> "blank", path |-> <<>>], [is |-> "comment", path |-> <<h>>],
     [is |-> "relative", path |-> <<h, r>>],
     Rule(<<>>), Rule(<<h, r, b>>), Rule(<<h, r, Dot, a, x>>)},
    {Rule(<<h, r, b, x>>), Rule(<<h, r, b, DotDot, a>>)} }

MCResumePoints ==
  {<<>>, <<a, w>>, <<b, x>>, <<a, y, w>>}
=============================================================================
