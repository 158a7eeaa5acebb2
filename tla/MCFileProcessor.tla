-------------------------- MODULE MCFileProcessor --------------------------
(***************************************************************************)
(* Small instances of FileProcessor: every pair of short signatures over   *)
(* two letters, with a third that overlaps them, and every short content.  *)
(***************************************************************************)
EXTENDS FileProcessor

Strings(lengths) == UNION {[1 .. n -> Bytes] : n \in lengths}

MCLists ==
  {<<s, t>> : s, t \in Strings(0 .. 3)} \cup {<<s, <<1, 0, 0, 1>>, t>> : s, t \in Strings(1 .. 2)}

Few == {<< <<0, 1>>, <<1>> >>, << <<1>>, <<1>> >>, << <<1, 1>> >>}

MCContents == Strings({1, 5})
FewContents == Strings(0 .. 3)
=============================================================================
