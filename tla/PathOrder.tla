----------------------------- MODULE PathOrder -----------------------------
(***************************************************************************)
(* The two orders the scanner puts on relative paths.                      *)
(*                                                                         *)
(* FileTreeWalker visits the children of each directory sorted by file     *)
(* name, so it hands out files in the order of their sequences of names.   *)
(* ResumeManager keeps the same files in a std::set<std::string> of whole  *)
(* paths, where the separator is a character like any other.               *)
(*                                                                         *)
(* A name is a non-empty sequence of character codes, a path a non-empty   *)
(* sequence of names.                                                      *)
(***************************************************************************)
EXTENDS Integers, SequencesExt

Slash == 47

(* std::string's operator<, for any order Less on the elements: the first  *)
(* difference decides, and a proper prefix comes first.                    *)
LexLess(Less(_, _), s, t) ==
  \/ IsStrictPrefix(s, t)
  \/ \E i \in DOMAIN s \cap DOMAIN t :
        /\ SubSeq(s, 1, i - 1) = SubSeq(t, 1, i - 1)
        /\ Less(s[i], t[i])

NameLess(a, b) == LexLess(LAMBDA x, y : x < y, a, b)

(* The depth-first order in which the walker reaches p and q.              *)
WalkedBefore(p, q) == LexLess(NameLess, p, q)

(* path::generic_string(): the names joined by the separator.              *)
GenericString(p) == Tail(FlattenSeq([i \in DOMAIN p |-> <<Slash>> \o p[i]]))

(* The order of the set of unfinished files.                               *)
StringBefore(p, q) == NameLess(GenericString(p), GenericString(q))
=============================================================================
