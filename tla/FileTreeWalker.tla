-------------------------- MODULE FileTreeWalker --------------------------
(***************************************************************************)
(* The sorted depth-first walk of FileTreeWalker, with the rules that      *)
(* ExcludeSet loads, the checks of ScanRootValidator and PathFilter, and   *)
(* the decisions of ResumePathFilter.                                      *)
(*                                                                         *)
(* The recursion is a stack of frames, one for each call of walkDirectory. *)
(* A directory is checked when it is entered and read in a later step; its *)
(* children are looked at one by one in the order of their names, which is *)
(* what sorting them comes to, while somebody else changes the tree.       *)
(***************************************************************************)
EXTENDS PathOrder, FiniteSets

CONSTANTS
  Places,        \* paths where there can be something; a path is a sequence
                 \* of names, the empty one is "/"
  Trees,         \* what there is at first, for each place
  Root,          \* the scan root
  Linkable,      \* places where there can be a symbolic link
  LinkTarget,    \* where it leads, when there is one
  Defaults,      \* kDefaultExcluded
  ExcludeFiles,  \* what config/exclude.txt may hold, a set of lines
  ResumePoints,  \* relative paths to resume from; <<>> for a fresh walk
  MaxChanges     \* bound: places that change, and readings that break off

(* "closed" is a directory that can be neither read nor entered, "other" a *)
(* socket or the like.                                                     *)
Kinds == {"absent", "file", "dir", "closed", "other", "link"}

Dot == <<46>>
DotDot == <<46, 46>>

Names == Seq(Nat)
Paths == Seq(Names)
Ancestors(p) == {SubSeq(p, 1, n) : n \in 0 .. Len(p) - 1}

(* A name is a sequence of character codes; no entry of a directory has    *)
(* one of the two names above.  Where a link leads, there is no other one  *)
(* on the way, unless the link lies below it.                              *)
ASSUME WalkAssumption ==
  /\ Root \in Places
  /\ Places \cup ResumePoints \cup Defaults \subseteq Paths
  /\ \A p \in Places : \A i \in DOMAIN p : p[i] \notin {Dot, DotDot}
  /\ \A p \in Places : p # <<>> => Front(p) \in Places
  /\ Linkable \subseteq Places
  /\ LinkTarget \in [Linkable -> Places]
  /\ \A l \in Linkable :
       Linkable \cap ({LinkTarget[l]} \cup Ancestors(LinkTarget[l])) \subseteq Ancestors(l)
  /\ \A tree \in Trees : /\ tree \in [Places -> Kinds]
                         /\ \A p \in Places \ Linkable : tree[p] # "link"
  /\ \A lines \in ExcludeFiles : \A l \in lines :
       /\ l.is \in {"blank", "comment", "relative", "absolute"}
       /\ l.is = "absolute" => l.path \in Paths
  /\ MaxChanges \in Nat

VARIABLES
  kind,          \* what is at each place
  exclude_file,  \* the lines of config/exclude.txt
  excluded_paths,
  resume_from,
  stack,         \* walkDirectory's frames, the innermost first
  visited,       \* what was handed to the callback
  status,        \* "loading", "ready", "walking", "done" or "failed"
  changed,       \* places touched by others during the walk
  broken         \* directories whose reading broke off

config == <<exclude_file, excluded_paths, resume_from>>
history == <<changed, broken>>
vars == <<kind, config, stack, visited, status, history>>

Relative(p) == SubSeq(p, Len(Root) + 1, Len(p))

(* Paths that the walk can come to.                                        *)
Below == {p \in Paths : IsPrefix(Root, p) /\ \A i \in DOMAIN p : p[i] \notin {Dot, DotDot}}

Entries == [path : Below, kind : Kinds]
Frames == [dir : Below, resuming : BOOLEAN, read : BOOLEAN, children : SUBSET Entries]

TypeOK ==
  /\ kind \in [Places -> Kinds] /\ \A p \in Places \ Linkable : kind[p] # "link"
  /\ exclude_file \in ExcludeFiles
  /\ resume_from \in ResumePoints
  /\ stack \in Seq(Frames)
  /\ visited \in Seq(Below)
  /\ status \in {"loading", "ready", "walking", "done", "failed"}
  /\ changed \in SUBSET Places
  /\ broken \in SUBSET Below

Init ==
  /\ kind \in Trees
  /\ exclude_file \in ExcludeFiles
  /\ excluded_paths = {}
  /\ resume_from \in ResumePoints
  /\ stack = <<>>
  /\ visited = <<>>
  /\ status = "loading"
  /\ changed = {}
  /\ broken = {}
-----------------------------------------------------------------------------
(* What is at a place: all above it have to be directories.                *)
At(p) == IF p \in Places /\ \A d \in Ancestors(p) : kind[d] = "dir"
         THEN kind[p] ELSE "absent"

IsLink(p) == At(p) = "link"

(* The normal forms of a path: "." goes, ".." takes the name before it     *)
(* along, and in the canonical form a link is replaced by its target.      *)
Climb(path, name) == CASE name = Dot -> path
                       [] name = DotDot -> IF path = <<>> THEN <<>> ELSE Front(path)
                       [] OTHER -> Append(path, name)

(* One name further from a path that is in normal form so far.             *)
Onward(path, name, links) ==
  LET next == Climb(path, name)
  IN  IF next \in links THEN LinkTarget[next] ELSE next

Resolve(p, links) ==
  LET upto[n \in 0 .. Len(p)] ==
        IF n = 0 THEN <<>> ELSE Onward(upto[n - 1], p[n], links)
  IN  upto[Len(p)]

LexicallyNormal(p) == Resolve(p, {})
Canonical(p) == Resolve(p, {q \in Linkable : IsLink(q)})

(* status() of a path, and symlink_status(), which leaves a link at its    *)
(* end alone.                                                              *)
Stat(p) == At(Canonical(p))

Place(p) == IF p = <<>> THEN p ELSE Append(Canonical(Front(p)), Last(p))
Lstat(p) == At(Place(p))

(* weakly_canonical() fails below a directory that cannot be entered.      *)
CannotResolve(p) ==
  \E n \in 1 .. Len(p) - 1 : Stat(SubSeq(p, 1, n)) = "closed"

Normalize(p) == IF CannotResolve(p) THEN LexicallyNormal(p) ELSE Canonical(p)

(* ExcludeSet::load(): the defaults and each absolute path of the file,    *)
(* resolved as the tree is now.                                            *)
Rules == Defaults \cup {l.path : l \in {k \in exclude_file : k.is = "absolute"}}

LoadExcludes ==
  /\ status = "loading"
  /\ excluded_paths' = {Normalize(p) : p \in Rules}
  /\ status' = "ready"
  /\ UNCHANGED <<kind, exclude_file, resume_from, stack, visited, history>>

(* Mutant: links are not told apart.                                       *)
ShouldSkipExcluded(p) == Lstat(p) = "absent" \/ Normalize(p) \in excluded_paths

(* PathFilter::shouldSkip(): unreadable, a symbolic link, or excluded; the *)
(* match is exact, not by prefix.                                          *)
ShouldSkip(p) ==
  Lstat(p) \in {"absent", "link"} \/ Normalize(p) \in excluded_paths

(* Mutant: only an exact match counts for the root too.                    *)
RootIsExactlyExcluded == Root \in excluded_paths

(* ScanRootValidator::isRootInsideExcludedPath(): the excluded path is the *)
(* root, or is followed by a separator in it.  "/", which ends in the      *)
(* separator, is followed by one in no path.                               *)
RootIsExcluded ==
  \E e \in excluded_paths :
    e = Normalize(Root) \/ (e # <<>> /\ IsStrictPrefix(e, Normalize(Root)))

(* ResumePathFilter::decide() for a child below the directories of the     *)
(* resume point; elsewhere the filter is inactive.                         *)
Decide(p, resuming) ==
  LET depth == Len(Relative(p))
      name == Last(p)
  IN  IF ~resuming \/ depth > Len(resume_from) THEN "TraverseNormally"
      ELSE IF NameLess(name, resume_from[depth]) THEN "SkipEntry"
      ELSE IF name = resume_from[depth] /\ depth < Len(resume_from)
      THEN "ContinueTowardResumePoint"
      ELSE "TraverseNormally"

(* What there is to read in a directory, or in the one that a link in its  *)
(* place leads to: each entry keeps the type that it has now.              *)
Children(dir) ==
  LET here == {p \in Places \ {<<>>} : Front(p) = Canonical(dir) /\ At(p) # "absent"}
  IN  {[path |-> Append(dir, Last(p)), kind |-> kind[p]] : p \in here}

(* Mutant: the files of a directory come first.                            *)
SortsFilesFirst(c, d) ==
  IF c.kind = d.kind THEN NameLess(Last(c.path), Last(d.path)) ELSE c.kind = "file"

Sorts(c, d) == NameLess(Last(c.path), Last(d.path))

(* The call of walkDirectory for a directory that it may skip, and that it *)
(* has not read yet.                                                       *)
WalkDirectory(dir, resuming, callers) ==
  IF ShouldSkip(dir) THEN callers
  ELSE << [dir |-> dir, resuming |-> resuming, read |-> FALSE, children |-> {}] >> \o callers
-----------------------------------------------------------------------------
(* walk(): a root that is gone or is neither file nor directory, one       *)
(* inside an excluded path, a regular file, which is handed over at once,  *)
(* or a directory.  The questions about the root's type follow a symbolic  *)
(* link.                                                                   *)
RootFails ==
  /\ status = "ready"
  /\ \/ Stat(Root) = "absent"
     \/ Stat(Root) = "other" /\ ~RootIsExcluded
  /\ status' = "failed"
  /\ UNCHANGED <<kind, config, stack, visited, history>>

RootIsSkipped ==
  /\ status = "ready"
  /\ Stat(Root) # "absent"
  /\ RootIsExcluded
  /\ status' = "done"
  /\ UNCHANGED <<kind, config, stack, visited, history>>

RootIsFile ==
  /\ status = "ready"
  /\ Stat(Root) = "file"
  /\ ~RootIsExcluded
  /\ visited' = <<Root>>
  /\ status' = "done"
  /\ UNCHANGED <<kind, config, stack, history>>

RootIsDirectory ==
  /\ status = "ready"
  /\ Stat(Root) \in {"dir", "closed"}
  /\ ~RootIsExcluded
  /\ stack' = WalkDirectory(Root, resume_from # <<>>, <<>>)
  /\ status' = "walking"
  /\ UNCHANGED <<kind, config, visited, history>>

Disturbances == Cardinality(changed) + Cardinality(broken)

(* readSortedChildren(): the directory is opened by its path.  An error in *)
(* the middle ends the reading like the end of the directory.              *)
ReadSortedChildren ==
  /\ status = "walking"
  /\ stack # <<>> /\ ~stack[1].read
  /\ \E some \in SUBSET Children(stack[1].dir) :
       /\ stack' = << [stack[1] EXCEPT !.read = TRUE, !.children = some] >> \o Tail(stack)
       /\ IF some = Children(stack[1].dir) THEN UNCHANGED broken
          ELSE /\ Disturbances < MaxChanges
               /\ broken' = broken \cup {stack[1].dir}
  /\ UNCHANGED <<kind, config, visited, status, changed>>

(* walkDirectory()'s loop: the next child of the innermost directory.      *)
AtChild(c) ==
  /\ status = "walking"
  /\ \A d \in stack[1].children \ {c} : Sorts(c, d)

CallersWithout(c) == << [stack[1] EXCEPT !.children = @ \ {c}] >> \o Tail(stack)

Passes(c) ==
  ~ShouldSkip(c.path) /\ Decide(c.path, stack[1].resuming) # "SkipEntry"

(* The entry's type, asked for again only if the directory said "link".    *)
Type(c) == IF c.kind = "link" THEN Stat(c.path) ELSE c.kind

(* FileInfoBuilder::build(): the size is asked for, and only files have it.*)
HasInfo(c) == Stat(c.path) = "file"

SkipChild(c) ==
  /\ AtChild(c)
  /\ \/ ~Passes(c)
     \/ Type(c) \in {"absent", "other"}
     \/ Type(c) = "file" /\ ~HasInfo(c)
  /\ stack' = CallersWithout(c)
  /\ UNCHANGED <<kind, config, visited, status, history>>

(* Mutant: the filter stays on in directories after the resume point.      *)
EnterChildStillResuming(c) ==
  /\ AtChild(c)
  /\ Passes(c)
  /\ Type(c) \in {"dir", "closed"}
  /\ stack' = WalkDirectory(c.path, stack[1].resuming, CallersWithout(c))
  /\ UNCHANGED <<kind, config, visited, status, history>>

EnterChild(c) ==
  /\ AtChild(c)
  /\ Passes(c)
  /\ Type(c) \in {"dir", "closed"}
  /\ stack' = WalkDirectory(c.path,
                Decide(c.path, stack[1].resuming) = "ContinueTowardResumePoint",
                CallersWithout(c))
  /\ UNCHANGED <<kind, config, visited, status, history>>

(* Mutant: the callback gets the relative path.                            *)
HandleFileRelative(c) ==
  /\ AtChild(c)
  /\ Passes(c)
  /\ Type(c) = "file" /\ HasInfo(c)
  /\ visited' = Append(visited, Relative(c.path))
  /\ stack' = CallersWithout(c)
  /\ UNCHANGED <<kind, config, status, history>>

HandleFile(c) ==
  /\ AtChild(c)
  /\ Passes(c)
  /\ Type(c) = "file" /\ HasInfo(c)
  /\ visited' = Append(visited, c.path)
  /\ stack' = CallersWithout(c)
  /\ UNCHANGED <<kind, config, status, history>>

LeaveDirectory ==
  /\ status = "walking"
  /\ stack # <<>>
  /\ stack[1].read /\ stack[1].children = {}
  /\ stack' = Tail(stack)
  /\ UNCHANGED <<kind, config, visited, status, history>>

EndWalk ==
  /\ status = "walking"
  /\ stack = <<>>
  /\ status' = "done"
  /\ UNCHANGED <<kind, config, stack, visited, history>>

(* Somebody removes what is at a place, or puts something else there.      *)
ChangeTree(p) ==
  /\ status \in {"ready", "walking"}
  /\ Disturbances < MaxChanges
  /\ p # <<>>
  /\ \E k \in Kinds \ {kind[p]} :
       /\ k = "link" => p \in Linkable
       /\ kind' = [kind EXCEPT ![p] = k]
  /\ changed' = changed \cup {p}
  /\ UNCHANGED <<config, stack, visited, status, broken>>

WalkStep ==
  \/ RootFails \/ RootIsSkipped \/ RootIsFile \/ RootIsDirectory \/ ReadSortedChildren
  \/ /\ stack # <<>>
     /\ \E c \in stack[1].children : SkipChild(c) \/ EnterChild(c) \/ HandleFile(c)
  \/ LeaveDirectory \/ EndWalk

Next == LoadExcludes \/ WalkStep \/ \E p \in Places : ChangeTree(p)

Spec == Init /\ [][Next]_vars
-----------------------------------------------------------------------------
(* Files are handed over in the order that the resume point relies on,     *)
(* each once, although the tree changes between the directories.           *)
VisitsInOrder ==
  \A i, j \in DOMAIN visited :
    i < j => WalkedBefore(Relative(visited[i]), Relative(visited[j]))

(* The rules are in normal form, and nothing at or below a path that the   *)
(* defaults or exclude.txt name is handed over, although the filter of the *)
(* walk matches only the excluded path itself (tests/test_12, test_24):    *)
(* unless the rule says "/", or the rule or the scan root leads over a     *)
(* link, whose target it then means, or over something that was touched.   *)
Literal(p) ==
  \A n \in 1 .. Len(p) :
    LET q == LexicallyNormal(SubSeq(p, 1, n))
    IN  \A d \in {q} \cup Ancestors(q) :
          d \notin changed /\ (d \in Places => kind[d] # "link")

NothingExcluded ==
  /\ \A e \in excluded_paths : Dot \notin ToSet(e) /\ DotDot \notin ToSet(e)
  /\ \A i \in DOMAIN visited, p \in Rules :
       Literal(Root) /\ Literal(p) /\ LexicallyNormal(p) # <<>>
         => ~IsPrefix(LexicallyNormal(p), visited[i])

(* A resumed walk hands over what a fresh walk would from the resume point *)
(* on, and nothing before it: every readable file that nobody touched,     *)
(* itself or the directories above it, during the walk, and whose          *)
(* directories were read to their end, even if the resume point is gone.   *)
(* Only a file that took the place of a directory above the resume point   *)
(* comes before it.                                                        *)
BeforePoint(p) == Relative(p) # <<>> /\ WalkedBefore(Relative(p), resume_from)

NothingBeforePoint ==
  \A i \in DOMAIN visited :
    BeforePoint(visited[i]) => IsStrictPrefix(Relative(visited[i]), resume_from)

Untouched(p) == ({p} \cup Ancestors(p)) \cap changed = {}

Reachable(p) ==
  /\ At(p) = "file"
  /\ IsPrefix(Root, p)
  /\ Untouched(p) /\ Ancestors(p) \cap broken = {}
  /\ \A e \in excluded_paths : ~IsPrefix(e, p)

EverythingFromPoint ==
  \A p \in Places : Reachable(p) /\ ~BeforePoint(p) => \E i \in DOMAIN visited : visited[i] = p

WalksFromResumePoint == NothingBeforePoint /\ (status = "done" => EverythingFromPoint)

(* A symbolic link is neither handed over nor followed, however the rest   *)
(* of the tree changes: none lies on a path below the scan root that was   *)
(* handed over, unless something was touched there during the walk.        *)
LinksNotFollowed ==
  \A i \in DOMAIN visited : \A n \in Len(Root) + 1 .. Len(visited[i]) :
    LET p == SubSeq(visited[i], 1, n) IN Untouched(p) => ~IsLink(p)
=============================================================================
