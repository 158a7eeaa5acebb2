--------------------------- MODULE MCResumeScan ---------------------------
(***************************************************************************)
(* Small instances of ResumeScan.  A tree is a sequence of paths in the    *)
(* walker's order; Key is computed from the paths by PathOrder, so that an *)
(* instance cannot claim an order the two comparisons do not have.         *)
(***************************************************************************)
EXTENDS ResumeScan, PathOrder, FiniteSets

(* Character codes: '.' = 46 sorts before '/' = 47, letters after both.    *)
Dot == 46
a == 97
b == 98
c == 99
t == 116
x == 120
y == 121
z == 122

(* a/x, b/y, b/z, c.                                                     *)
PlainTree == << << <<a>>, <<x>> >>, << <<b>>, <<y>> >>, << <<b>>, <<z>> >>, << <<c>> >> >>

(* a/x, a.t, b: the walker enters directory "a" before file "a.t", but the *)
(* string "a.t" is smaller than the string "a/x".                          *)
DottedTree == << << <<a>>, <<x>> >>, << <<a, Dot, t>> >>, << <<b>> >> >>

WalkOrdered(tree) ==
  \A i, j \in DOMAIN tree : i < j => WalkedBefore(tree[i], tree[j])

ASSUME WalkOrdered(PlainTree) /\ WalkOrdered(DottedTree)

Ranks(tree) ==
  [i \in DOMAIN tree |->
     Cardinality({j \in DOMAIN tree : StringBefore(tree[j], tree[i])})]

PlainKey == Ranks(PlainTree)
DottedKey == Ranks(DottedTree)

(* Two overlapping roots: the whole tree, and all but its first file.      *)
MCRoots == {"all", "sub"}
MCFilesOf == [r \in MCRoots |-> IF r = "all" THEN Files ELSE Files \ {1}]
=============================================================================
