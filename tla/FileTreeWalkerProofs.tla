----------------------- MODULE FileTreeWalkerProofs -----------------------
(***************************************************************************)
(* Proofs about FileTreeWalker, for every tree, every root, every set of   *)
(* rules and every resume point, whatever changes during the walk: the     *)
(* order of the visits, the resume point, the excluded paths, and that no  *)
(* file is left out.                                                       *)
(***************************************************************************)
EXTENDS FileTreeWalker, WellFoundedInduction, TLAPS

(* p is below the directory d; p is reached before q in a sorted walk, and *)
(* everything below p before everything below q.                           *)
Under(d, p) == Len(d) < Len(p) /\ \A j \in 1 .. Len(d) : p[j] = d[j]

ParallelBefore(p, q) ==
  \E i \in 1 .. Len(p) :
    i <= Len(q) /\ (\A j \in 1 .. i - 1 : p[j] = q[j]) /\ NameLess(p[i], q[i])

LEMMA NameLessIrreflexive == ASSUME NEW s \in Names PROVE ~ NameLess(s, s)
BY DEF NameLess, LexLess, IsStrictPrefix, Names

(* A child of a directory.                                                 *)
LEMMA ChildIs ==
  ASSUME NEW p \in Paths, p # <<>>
  PROVE  /\ Len(p) = Len(Front(p)) + 1 /\ Under(Front(p), p)
         /\ Last(p) = p[Len(p)] /\ Last(p) \in Names
<1>1. Len(p) \in Nat \ {0} /\ \A j \in 1 .. Len(p) : p[j] \in Names
  BY DEF Paths
<1>2. PICK n \in Nat : Len(p) = n + 1
  BY <1>1
<1>3. Len(SubSeq(p, 1, n)) = n
  BY <1>2 DEF Paths
<1>4. \A j \in 1 .. n : SubSeq(p, 1, n)[j] = p[j]
  BY <1>2 DEF Paths
<1>5. Len(p) - 1 = n
  BY <1>2
<1> QED BY <1>1, <1>2, <1>3, <1>4, <1>5 DEF Front, Last, Under

LEMMA FrontIs ==
  ASSUME NEW p \in Paths, p # <<>>
  PROVE  /\ Front(p) \in Paths /\ Len(Front(p)) = Len(p) - 1
         /\ \A i \in 1 .. Len(p) - 1 : Front(p)[i] = p[i]
<1>1. Len(p) \in Nat \ {0}
  BY DEF Paths
<1>2. PICK n \in Nat : Len(p) = n + 1
  BY <1>1
<1>3. /\ SubSeq(p, 1, n) \in Paths /\ Len(SubSeq(p, 1, n)) = n
      /\ \A j \in 1 .. n : SubSeq(p, 1, n)[j] = p[j]
  BY <1>2 DEF Paths
<1>4. Len(p) - 1 = n
  BY <1>2
<1> QED BY <1>3, <1>4 DEF Front

LEMMA PrefixIs ==
  ASSUME NEW e \in Paths, NEW p \in Paths
  PROVE  IsPrefix(e, p) <=> Len(e) <= Len(p) /\ \A j \in 1 .. Len(e) : e[j] = p[j]
<1>1. Len(e) \in Nat /\ Len(p) \in Nat
  BY DEF Paths
<1>2. ASSUME Len(e) <= Len(p)
      PROVE  /\ SubSeq(e, 1, Len(e)) = e
             /\ SubSeq(p, 1, Len(e)) \in Paths /\ Len(SubSeq(p, 1, Len(e))) = Len(e)
             /\ \A j \in 1 .. Len(e) : SubSeq(p, 1, Len(e))[j] = p[j]
  BY <1>1, <1>2 DEF Paths
<1>3. ASSUME Len(e) <= Len(p), \A j \in 1 .. Len(e) : e[j] = p[j]
      PROVE  SubSeq(p, 1, Len(e)) = e
  BY <1>1, <1>2, <1>3 DEF Paths
<1> QED BY <1>2, <1>3 DEF IsPrefix

LEMMA UnderTransitive ==
  ASSUME NEW p \in Paths, NEW q \in Paths, NEW r \in Paths, Under(p, q), Under(q, r)
  PROVE  Under(p, r)
BY DEF Under, Paths

LEMMA BeforeBelow ==
  ASSUME NEW p \in Paths, NEW q \in Paths, NEW r \in Paths, ParallelBefore(p, q)
  PROVE  /\ Under(q, r) => ParallelBefore(p, r)
         /\ Under(p, r) => ParallelBefore(r, q)
<1>1. PICK i \in 1 .. Len(p) :
        i <= Len(q) /\ (\A j \in 1 .. i - 1 : p[j] = q[j]) /\ NameLess(p[i], q[i])
  BY DEF ParallelBefore
<1>2. i \in Nat /\ Len(p) \in Nat /\ Len(q) \in Nat /\ Len(r) \in Nat
  BY DEF Paths
<1>3. ASSUME Under(q, r) PROVE ParallelBefore(p, r)
  <2>1. i <= Len(r) /\ r[i] = q[i] /\ \A j \in 1 .. i - 1 : r[j] = q[j]
    BY <1>1, <1>2, <1>3 DEF Under
  <2> QED BY <1>1, <2>1 DEF ParallelBefore
<1>4. ASSUME Under(p, r) PROVE ParallelBefore(r, q)
  <2>1. i \in 1 .. Len(r) /\ r[i] = p[i] /\ \A j \in 1 .. i - 1 : r[j] = p[j]
    BY <1>1, <1>2, <1>4 DEF Under
  <2> QED BY <1>1, <2>1 DEF ParallelBefore
<1> QED BY <1>3, <1>4

LEMMA SiblingsBefore ==
  ASSUME NEW p \in Paths, NEW q \in Paths, p # <<>>, q # <<>>, Front(p) = Front(q),
         NameLess(Last(p), Last(q))
  PROVE  ParallelBefore(p, q)
<1>1. /\ Len(p) = Len(q) /\ Len(p) \in Nat \ {0}
      /\ \A j \in 1 .. Len(p) - 1 : p[j] = q[j]
  BY ChildIs DEF Under, Paths
<1> QED BY <1>1, ChildIs DEF ParallelBefore

(* Below a common directory, the order of the paths is that of what is     *)
(* left of them.                                                           *)
LEMMA BeforeIsWalked ==
  ASSUME NEW r \in Paths, NEW p \in Paths, NEW q \in Paths, Under(r, p), Under(r, q),
         ParallelBefore(p, q)
  PROVE  WalkedBefore(SubSeq(p, Len(r) + 1, Len(p)), SubSeq(q, Len(r) + 1, Len(q)))
<1> DEFINE s == SubSeq(p, Len(r) + 1, Len(p))
           t == SubSeq(q, Len(r) + 1, Len(q))
<1>1. PICK i \in 1 .. Len(p) :
        i <= Len(q) /\ (\A j \in 1 .. i - 1 : p[j] = q[j]) /\ NameLess(p[i], q[i])
  BY DEF ParallelBefore
<1>2. /\ i \in Nat /\ Len(p) \in Nat /\ Len(q) \in Nat /\ Len(r) \in Nat
      /\ Len(r) < Len(p) /\ Len(r) < Len(q)
  BY DEF Paths, Under
<1>3. i > Len(r)
  <2> SUFFICES ASSUME i <= Len(r) PROVE FALSE
    BY <1>2
  <2>1. p[i] = r[i] /\ q[i] = r[i] /\ r[i] \in Names
    BY <1>1, <1>2 DEF Under, Paths
  <2> QED BY <1>1, <2>1, NameLessIrreflexive
<1>4. /\ s \in Paths /\ Len(s) = Len(p) - Len(r)
      /\ \A j \in 1 .. Len(s) : s[j] = p[j + Len(r)]
  BY <1>2 DEF Paths
<1>5. /\ t \in Paths /\ Len(t) = Len(q) - Len(r)
      /\ \A j \in 1 .. Len(t) : t[j] = q[j + Len(r)]
  BY <1>2 DEF Paths
<1> HIDE DEF s, t
<1> DEFINE k == i - Len(r)
<1>6. k \in 1 .. Len(s) /\ k \in 1 .. Len(t) /\ k + Len(r) = i
  BY <1>1, <1>2, <1>3, <1>4, <1>5
<1>7. s[k] = p[i] /\ t[k] = q[i]
  BY <1>4, <1>5, <1>6
<1>8. \A j \in 1 .. k - 1 : s[j] = t[j]
  <2> TAKE j \in 1 .. k - 1
  <2>1. j + Len(r) \in 1 .. i - 1 /\ j \in 1 .. Len(s) /\ j \in 1 .. Len(t)
    BY <1>2, <1>3, <1>6
  <2> QED BY <1>1, <1>4, <1>5, <2>1
<1> HIDE DEF k
<1>9. SubSeq(s, 1, k - 1) = SubSeq(t, 1, k - 1)
  BY <1>4, <1>5, <1>6, <1>8 DEF Paths
<1>10. k \in DOMAIN s \cap DOMAIN t
  BY <1>4, <1>5, <1>6 DEF Paths
<1>11. NameLess(s[k], t[k])
  BY <1>1, <1>7
<1>12. LexLess(NameLess, s, t)
  BY <1>9, <1>10, <1>11 DEF LexLess
<1> QED BY <1>12 DEF WalkedBefore, s, t
-----------------------------------------------------------------------------
(* A stack of frames without its next child, and one whose innermost       *)
(* directory has been read.                                                *)
Without(st, c) == << [st[1] EXCEPT !.children = @ \ {c}] >> \o Tail(st)

Opened(st, cs) == << [st[1] EXCEPT !.read = TRUE, !.children = cs] >> \o Tail(st)

(* What the frames and the visited files have to do with each other: every *)
(* child that is still to be looked at comes after whatever was visited,   *)
(* and after the directories that are open inside of its own.  Only the    *)
(* innermost directory may not have been read yet.                         *)
StackInv(st, vis) ==
  /\ \A i \in DOMAIN st : st[i].dir = Root \/ Under(Root, st[i].dir)
  /\ \A i \in DOMAIN st : \A c \in st[i].children : c.path # <<>> /\ Front(c.path) = st[i].dir
  /\ \A i, j \in DOMAIN st :
       i < j => \A c \in st[j].children : ParallelBefore(st[i].dir, c.path)
  /\ \A k \in DOMAIN vis, i \in DOMAIN st :
       \A c \in st[i].children : ParallelBefore(vis[k], c.path)
  /\ \A i \in DOMAIN st : ~ st[i].read =>
       /\ i = 1 /\ st[i].children = {}
       /\ \A k \in DOMAIN vis : ParallelBefore(vis[k], st[i].dir)

PlacesArePaths == Places \subseteq Paths /\ Root \in Paths /\ ResumePoints \subseteq Paths

LEMMA PathsAre == PlacesArePaths
BY WalkAssumption DEF PlacesArePaths, Paths, Names

LEMMA FrameIs ==
  ASSUME NEW f \in Frames
  PROVE  /\ f.dir \in Below /\ f.dir \in Paths
         /\ f.resuming \in BOOLEAN /\ f.read \in BOOLEAN
         /\ f.children \subseteq Entries
         /\ \A c \in f.children : c.path \in Below /\ c.path \in Paths
BY DEF Frames, Entries, Below

LEMMA WithoutIs ==
  ASSUME NEW st \in Seq(Frames), st # <<>>, NEW c
  PROVE  /\ Without(st, c) \in Seq(Frames) /\ Len(Without(st, c)) = Len(st)
         /\ \A i \in DOMAIN st :
              /\ Without(st, c)[i].dir = st[i].dir
              /\ Without(st, c)[i].resuming = st[i].resuming
              /\ Without(st, c)[i].read = st[i].read
              /\ Without(st, c)[i].children \subseteq st[i].children
         /\ c \notin Without(st, c)[1].children
<1> DEFINE top == [st[1] EXCEPT !.children = @ \ {c}]
<1>1. st[1] \in Frames /\ 1 \in DOMAIN st
  OBVIOUS
<1>2. /\ top \in Frames /\ top.dir = st[1].dir /\ top.resuming = st[1].resuming
      /\ top.read = st[1].read /\ top.children = st[1].children \ {c}
  BY <1>1 DEF Frames
<1> HIDE DEF top
<1>3. /\ << top >> \o Tail(st) \in Seq(Frames) /\ Len(<< top >> \o Tail(st)) = Len(st)
      /\ (<< top >> \o Tail(st))[1] = top
      /\ \A i \in DOMAIN st : i # 1 => (<< top >> \o Tail(st))[i] = st[i]
  BY <1>1, <1>2
<1>4. Without(st, c) = << top >> \o Tail(st)
  BY DEF Without, top
<1> QED BY <1>2, <1>3, <1>4

LEMMA OpenedIs ==
  ASSUME NEW st \in Seq(Frames), st # <<>>, NEW cs \in SUBSET Entries
  PROVE  /\ Opened(st, cs) \in Seq(Frames) /\ DOMAIN Opened(st, cs) = DOMAIN st
         /\ \A i \in DOMAIN st :
              /\ Opened(st, cs)[i].dir = st[i].dir
              /\ Opened(st, cs)[i].resuming = st[i].resuming
              /\ IF i = 1 THEN Opened(st, cs)[i].read /\ Opened(st, cs)[i].children = cs
                 ELSE Opened(st, cs)[i] = st[i]
<1> DEFINE top == [st[1] EXCEPT !.read = TRUE, !.children = cs]
<1>1. st[1] \in Frames /\ 1 \in DOMAIN st
  OBVIOUS
<1>2. /\ top \in Frames /\ top.dir = st[1].dir /\ top.resuming = st[1].resuming
      /\ top.read /\ top.children = cs
  BY <1>1 DEF Frames
<1> HIDE DEF top
<1>3. /\ << top >> \o Tail(st) \in Seq(Frames) /\ DOMAIN (<< top >> \o Tail(st)) = DOMAIN st
      /\ (<< top >> \o Tail(st))[1] = top
      /\ \A i \in DOMAIN st : i # 1 => (<< top >> \o Tail(st))[i] = st[i]
  BY <1>1, <1>2
<1>4. Opened(st, cs) = << top >> \o Tail(st)
  BY DEF Opened, top
<1> QED BY <1>2, <1>3, <1>4

LEMMA WithoutKeeps ==
  ASSUME NEW st \in Seq(Frames), st # <<>>, NEW c, NEW vis, StackInv(st, vis)
  PROVE  StackInv(Without(st, c), vis)
<1>1. DOMAIN Without(st, c) = DOMAIN st
  BY WithoutIs
<1>2. \A i \in DOMAIN st : st[i].children = {} => Without(st, c)[i].children = {}
  BY WithoutIs
<1> QED BY <1>1, <1>2, WithoutIs DEF StackInv

LEMMA OpenKeeps ==
  ASSUME NEW st \in Seq(Frames), st # <<>>, NEW vis \in Seq(Below), StackInv(st, vis), ~ st[1].read,
         NEW cs \in SUBSET Entries,
         \A c \in cs : c.path # <<>> /\ Front(c.path) = st[1].dir
  PROVE  StackInv(Opened(st, cs), vis)
<1> DEFINE new == Opened(st, cs)
<1>1. /\ DOMAIN new = DOMAIN st
      /\ \A i \in DOMAIN st :
           /\ new[i].dir = st[i].dir
           /\ IF i = 1 THEN new[i].read /\ new[i].children = cs ELSE new[i] = st[i]
  BY OpenedIs
<1>2. 1 \in DOMAIN st /\ st[1] \in Frames /\ st[1].dir \in Paths
  BY FrameIs
<1> HIDE DEF new
<1>3. \A c \in cs : c.path \in Paths
  BY DEF Entries, Below
<1>4. ASSUME NEW k \in DOMAIN vis, NEW c \in cs PROVE ParallelBefore(vis[k], c.path)
  <2>1. ParallelBefore(vis[k], st[1].dir)
    BY <1>2 DEF StackInv
  <2>2. Under(st[1].dir, c.path) /\ vis[k] \in Paths
    BY <1>3, ChildIs DEF Below
  <2> QED BY <1>2, <1>3, <2>1, <2>2, BeforeBelow
<1>5. \A i \in DOMAIN new : new[i].dir = Root \/ Under(Root, new[i].dir)
  BY <1>1 DEF StackInv
<1>6. \A i \in DOMAIN new : \A c \in new[i].children : c.path # <<>> /\ Front(c.path) = new[i].dir
  BY <1>1 DEF StackInv
<1>7. ASSUME NEW i \in DOMAIN new, NEW j \in DOMAIN new, i < j, NEW c \in new[j].children
      PROVE  ParallelBefore(new[i].dir, c.path)
  <2>1. j # 1
    BY <1>1, <1>7
  <2> QED BY <1>1, <1>7, <2>1 DEF StackInv
<1>8. \A k \in DOMAIN vis, i \in DOMAIN new :
        \A c \in new[i].children : ParallelBefore(vis[k], c.path)
  BY <1>1, <1>4 DEF StackInv
<1>9. \A i \in DOMAIN new : new[i].read
  BY <1>1 DEF StackInv
<1> QED BY <1>5, <1>6, <1>7, <1>8, <1>9 DEF StackInv, new

LEMMA TailKeeps ==
  ASSUME NEW st \in Seq(Frames), st # <<>>, NEW vis, StackInv(st, vis)
  PROVE  Tail(st) \in Seq(Frames) /\ StackInv(Tail(st), vis)
<1>1. /\ Tail(st) \in Seq(Frames)
      /\ \A i \in DOMAIN Tail(st) : i + 1 \in DOMAIN st /\ Tail(st)[i] = st[i + 1]
  OBVIOUS
<1>2. \A i, j \in DOMAIN Tail(st) : i < j => i + 1 < j + 1
  BY <1>1
<1> QED BY <1>1, <1>2 DEF StackInv

(* The next child comes before all that is still to be looked at.          *)
LEMMA NextIsBefore ==
  ASSUME NEW st \in Seq(Frames), st # <<>>, NEW vis, StackInv(st, vis),
         NEW c \in st[1].children, \A d \in st[1].children \ {c} : Sorts(c, d)
  PROVE  \A i \in DOMAIN Without(st, c) : \A d \in Without(st, c)[i].children :
           ParallelBefore(c.path, d.path)
<1> TAKE i \in DOMAIN Without(st, c)
<1> TAKE d \in Without(st, c)[i].children
<1>1. i \in DOMAIN st /\ 1 \in DOMAIN st /\ st[1] \in Frames /\ st[i] \in Frames
  BY WithoutIs
<1>2. d \in st[i].children /\ (i = 1 => d # c)
  BY <1>1, WithoutIs
<1>3. c.path \in Paths /\ c.path # <<>> /\ d.path \in Paths /\ d.path # <<>>
      /\ st[1].dir \in Paths
  BY <1>1, <1>2, FrameIs DEF StackInv
<1>4. Front(c.path) = st[1].dir /\ Front(d.path) = st[i].dir
  BY <1>1, <1>2 DEF StackInv
<1>5. CASE i = 1
  BY <1>2, <1>3, <1>4, <1>5, SiblingsBefore DEF Sorts
<1>6. CASE i # 1
  <2>1. ParallelBefore(st[1].dir, d.path)
    BY <1>1, <1>2, <1>6 DEF StackInv
  <2>2. Under(st[1].dir, c.path)
    BY <1>3, <1>4, ChildIs
  <2> QED BY <1>3, <2>1, <2>2, BeforeBelow
<1> QED BY <1>5, <1>6

LEMMA AllAreRead ==
  ASSUME NEW st \in Seq(Frames), st # <<>>, NEW vis, StackInv(st, vis), NEW c \in st[1].children
  PROVE  \A i \in DOMAIN Without(st, c) : Without(st, c)[i].read
<1>1. DOMAIN Without(st, c) = DOMAIN st /\ \A i \in DOMAIN st : Without(st, c)[i].read = st[i].read
  BY WithoutIs
<1>2. \A i \in DOMAIN st : st[i].read
  BY DEF StackInv
<1> QED BY <1>1, <1>2

LEMMA VisitKeeps ==
  ASSUME NEW st \in Seq(Frames), st # <<>>, NEW vis \in Seq(Below), StackInv(st, vis),
         NEW c \in st[1].children, \A d \in st[1].children \ {c} : Sorts(c, d)
  PROVE  StackInv(Without(st, c), Append(vis, c.path))
<1>1. StackInv(Without(st, c), vis) /\ \A i \in DOMAIN Without(st, c) : Without(st, c)[i].read
  BY WithoutKeeps, AllAreRead
<1>2. \A k \in DOMAIN Append(vis, c.path) :
        \/ k \in DOMAIN vis /\ Append(vis, c.path)[k] = vis[k]
        \/ Append(vis, c.path)[k] = c.path
  OBVIOUS
<1>3. \A i \in DOMAIN Without(st, c) : \A d \in Without(st, c)[i].children :
        ParallelBefore(c.path, d.path)
  BY NextIsBefore
<1> QED BY <1>1, <1>2, <1>3 DEF StackInv

LEMMA EnterKeeps ==
  ASSUME NEW st \in Seq(Frames), st # <<>>, NEW vis \in Seq(Below), StackInv(st, vis),
         NEW c \in st[1].children, \A d \in st[1].children \ {c} : Sorts(c, d),
         NEW f \in Frames, f.dir = c.path, f.children = {}
  PROVE  /\ << f >> \o Without(st, c) \in Seq(Frames)
         /\ StackInv(<< f >> \o Without(st, c), vis)
<1> DEFINE old == Without(st, c)
           new == << f >> \o old
<1>1. old \in Seq(Frames) /\ StackInv(old, vis) /\ \A i \in DOMAIN old : old[i].read
  BY WithoutIs, WithoutKeeps, AllAreRead
<1>2. \A i \in DOMAIN old : \A d \in old[i].children : ParallelBefore(c.path, d.path)
  BY NextIsBefore
<1>3. st[1] \in Frames /\ 1 \in DOMAIN st /\ c.path \in Paths /\ c.path # <<>>
      /\ Front(c.path) = st[1].dir
  BY FrameIs DEF StackInv
<1>4. \A k \in DOMAIN vis : ParallelBefore(vis[k], c.path)
  BY <1>3 DEF StackInv
<1> HIDE DEF old
<1>5. /\ new \in Seq(Frames) /\ new[1] = f
      /\ \A i \in DOMAIN new : i = 1 \/ (i - 1 \in DOMAIN old /\ new[i] = old[i - 1])
  BY <1>1
<1>6. f.dir = Root \/ Under(Root, f.dir)
  <2>1. st[1].dir = Root \/ Under(Root, st[1].dir)
    BY <1>3 DEF StackInv
  <2>2. Under(st[1].dir, c.path) /\ st[1].dir \in Paths
    BY <1>3, ChildIs, FrameIs
  <2> QED BY <1>3, <2>1, <2>2, UnderTransitive, PathsAre DEF PlacesArePaths
<1> HIDE DEF new
<1>7. \A i \in DOMAIN new : i \in Int
  BY <1>5
<1>8. \A i \in DOMAIN new : ~ new[i].read => i = 1 /\ new[i] = f
  BY <1>1, <1>5
<1>9. \A i \in DOMAIN new : ~ new[i].read =>
        /\ i = 1 /\ new[i].children = {}
        /\ \A k \in DOMAIN vis : ParallelBefore(vis[k], new[i].dir)
  <2> TAKE i \in DOMAIN new
  <2> HAVE ~ new[i].read
  <2>1. i = 1 /\ new[i] = f
    BY <1>8
  <2>2. new[i].children = f.children /\ new[i].dir = f.dir
    BY <2>1
  <2> QED BY <1>4, <2>1, <2>2
<1>10. \A i \in DOMAIN new : new[i].dir = Root \/ Under(Root, new[i].dir)
  BY <1>1, <1>5, <1>6 DEF StackInv
<1>11. \A i \in DOMAIN new : \A d \in new[i].children : d.path # <<>> /\ Front(d.path) = new[i].dir
  <2>1. \A i \in DOMAIN old : \A d \in old[i].children : d.path # <<>> /\ Front(d.path) = old[i].dir
    BY <1>1 DEF StackInv
  <2>2. \A i \in DOMAIN new : i = 1 => new[i].children = {}
    BY <1>5
  <2> QED BY <1>5, <2>1, <2>2
<1>12. ASSUME NEW i \in DOMAIN new, NEW j \in DOMAIN new, i < j, NEW d \in new[j].children
       PROVE  ParallelBefore(new[i].dir, d.path)
  <2>1. j - 1 \in DOMAIN old /\ new[j] = old[j - 1]
    BY <1>5, <1>12
  <2>2. CASE i = 1
    BY <1>2, <1>5, <2>1, <2>2, <1>12
  <2>3. CASE i # 1
    <3>1. i - 1 \in DOMAIN old /\ new[i] = old[i - 1] /\ i - 1 < j - 1
      BY <1>5, <1>7, <1>12, <2>3
    <3> QED BY <1>1, <1>12, <2>1, <3>1 DEF StackInv
  <2> QED BY <2>2, <2>3
<1>13. \A k \in DOMAIN vis, i \in DOMAIN new :
         \A d \in new[i].children : ParallelBefore(vis[k], d.path)
  BY <1>1, <1>5 DEF StackInv
<1>14. StackInv(new, vis)
  BY <1>9, <1>10, <1>11, <1>12, <1>13 DEF StackInv
<1> QED BY <1>5, <1>14 DEF new, old
-----------------------------------------------------------------------------
(* A path below the root leads to the resume point, or lies at or after it *)
(* in the order of the walk.                                               *)
Within(p) == Len(Root) <= Len(p)

LeadsToPoint(p) ==
  /\ Len(p) < Len(Root) + Len(resume_from)
  /\ \A j \in 1 .. Len(p) - Len(Root) : p[Len(Root) + j] = resume_from[j]

AtOrAfterPoint(p) ==
  \/ /\ Len(p) >= Len(Root) + Len(resume_from)
     /\ \A j \in 1 .. Len(resume_from) : p[Len(Root) + j] = resume_from[j]
  \/ \E i \in 1 .. Len(resume_from) :
       /\ Len(Root) + i <= Len(p)
       /\ \A j \in 1 .. i - 1 : p[Len(Root) + j] = resume_from[j]
       /\ p[Len(Root) + i] # resume_from[i]
       /\ ~ NameLess(p[Len(Root) + i], resume_from[i])

LEMMA RelativeIs ==
  ASSUME NEW p \in Paths, Within(p)
  PROVE  /\ Relative(p) \in Paths /\ Len(Relative(p)) = Len(p) - Len(Root)
         /\ \A j \in 1 .. Len(Relative(p)) : Relative(p)[j] = p[Len(Root) + j]
<1>1. Len(Root) \in Nat /\ Len(p) \in Nat /\ Len(Root) <= Len(p)
  BY PathsAre DEF PlacesArePaths, Paths, Within
<1>2. PICK m \in Nat : m = Len(Root)
  BY <1>1
<1>3. /\ SubSeq(p, m + 1, Len(p)) \in Paths /\ Len(SubSeq(p, m + 1, Len(p))) = Len(p) - m
      /\ \A j \in 1 .. Len(SubSeq(p, m + 1, Len(p))) : SubSeq(p, m + 1, Len(p))[j] = p[m + j]
  BY <1>1, <1>2 DEF Paths
<1> QED BY <1>2, <1>3 DEF Relative

LEMMA AfterPointBelow ==
  ASSUME TypeOK, NEW p \in Paths, NEW q \in Paths, Within(p), Under(p, q), AtOrAfterPoint(p)
  PROVE  AtOrAfterPoint(q)
<1>1. /\ Len(Root) \in Nat /\ Len(p) \in Nat /\ Len(q) \in Nat /\ Len(p) < Len(q)
      /\ Len(resume_from) \in Nat /\ Len(Root) <= Len(p)
  BY PathsAre DEF PlacesArePaths, Paths, Within, Under, TypeOK
<1>2. \A j \in 1 .. Len(p) - Len(Root) : q[Len(Root) + j] = p[Len(Root) + j]
  BY <1>1 DEF Under
<1>3. CASE /\ Len(p) >= Len(Root) + Len(resume_from)
           /\ \A j \in 1 .. Len(resume_from) : p[Len(Root) + j] = resume_from[j]
  <2>1. \A j \in 1 .. Len(resume_from) : j \in 1 .. Len(p) - Len(Root)
    BY <1>1, <1>3
  <2>2. \A j \in 1 .. Len(resume_from) : q[Len(Root) + j] = resume_from[j]
    BY <1>2, <1>3, <2>1
  <2> QED BY <1>1, <1>3, <2>2 DEF AtOrAfterPoint
<1>4. CASE \E i \in 1 .. Len(resume_from) :
             /\ Len(Root) + i <= Len(p)
             /\ \A j \in 1 .. i - 1 : p[Len(Root) + j] = resume_from[j]
             /\ p[Len(Root) + i] # resume_from[i]
             /\ ~ NameLess(p[Len(Root) + i], resume_from[i])
  <2>1. PICK i \in 1 .. Len(resume_from) :
             /\ Len(Root) + i <= Len(p)
             /\ \A j \in 1 .. i - 1 : p[Len(Root) + j] = resume_from[j]
             /\ p[Len(Root) + i] # resume_from[i]
             /\ ~ NameLess(p[Len(Root) + i], resume_from[i])
    BY <1>4
  <2>2. i \in 1 .. Len(p) - Len(Root) /\ \A j \in 1 .. i - 1 : j \in 1 .. Len(p) - Len(Root)
    BY <1>1, <2>1
  <2>3. q[Len(Root) + i] = p[Len(Root) + i]
    BY <1>2, <2>2
  <2>4. Len(Root) + i <= Len(q)
    BY <1>1, <2>1
  <2>5. \A j \in 1 .. i - 1 : q[Len(Root) + j] = resume_from[j]
    BY <1>2, <2>1, <2>2
  <2> QED BY <2>1, <2>3, <2>4, <2>5 DEF AtOrAfterPoint
<1> QED BY <1>3, <1>4 DEF AtOrAfterPoint

(* What lies at or after the resume point is not before it.                *)
LEMMA AfterPointNotBefore ==
  ASSUME TypeOK, NEW p \in Paths, Within(p), AtOrAfterPoint(p)
  PROVE  ~ BeforePoint(p)
<1> DEFINE r == Relative(p)
<1>1. /\ r \in Paths /\ Len(r) = Len(p) - Len(Root)
      /\ \A j \in 1 .. Len(r) : r[j] = p[Len(Root) + j]
  BY RelativeIs
<1>2. /\ Len(Root) \in Nat /\ Len(p) \in Nat /\ Len(r) \in Nat /\ resume_from \in Paths
      /\ Len(resume_from) \in Nat
  BY <1>1, PathsAre DEF PlacesArePaths, Paths, TypeOK
<1> HIDE DEF r
<1>3. SUFFICES ASSUME LexLess(NameLess, r, resume_from) PROVE FALSE
  BY DEF BeforePoint, WalkedBefore, r
<1>4. CASE IsStrictPrefix(r, resume_from)
  <2>1. /\ Len(r) <= Len(resume_from) /\ r # resume_from
        /\ SubSeq(r, 1, Len(r)) = SubSeq(resume_from, 1, Len(r))
    BY <1>4 DEF IsStrictPrefix, IsPrefix
  <2>2. \A j \in 1 .. Len(r) : r[j] = resume_from[j]
    <3>1. \A j \in 1 .. Len(r) : /\ SubSeq(r, 1, Len(r))[j] = r[j]
                                 /\ SubSeq(resume_from, 1, Len(r))[j] = resume_from[j]
      BY <1>1, <1>2, <2>1 DEF Paths
    <3> QED BY <2>1, <3>1
  <2>3. Len(r) < Len(resume_from)
    <3> SUFFICES ASSUME Len(r) = Len(resume_from) PROVE FALSE
      BY <1>2, <2>1
    <3>1. r \in Seq(Names) /\ resume_from \in Seq(Names) /\ Len(r) = Len(resume_from)
          /\ \A j \in 1 .. Len(r) : r[j] = resume_from[j]
      BY <1>1, <1>2, <2>2 DEF Paths
    <3>2. r = resume_from
      BY <3>1
    <3> QED BY <2>1, <3>2
  <2> QED BY <1>1, <1>2, <2>2, <2>3 DEF AtOrAfterPoint
<1>5. CASE \E i \in DOMAIN r \cap DOMAIN resume_from :
             /\ SubSeq(r, 1, i - 1) = SubSeq(resume_from, 1, i - 1)
             /\ NameLess(r[i], resume_from[i])
  <2>1. PICK i \in 1 .. Len(r) :
             /\ i <= Len(resume_from)
             /\ SubSeq(r, 1, i - 1) = SubSeq(resume_from, 1, i - 1)
             /\ NameLess(r[i], resume_from[i])
    <3>1. DOMAIN r = 1 .. Len(r) /\ DOMAIN resume_from = 1 .. Len(resume_from)
      BY <1>1, <1>2 DEF Paths
    <3>2. \A i \in 1 .. Len(resume_from) : i <= Len(resume_from)
      BY <1>2
    <3> QED BY <1>5, <3>1, <3>2
  <2>2. \A j \in 1 .. i - 1 : r[j] = resume_from[j]
    <3>1. \A j \in 1 .. i - 1 : /\ SubSeq(r, 1, i - 1)[j] = r[j]
                                /\ SubSeq(resume_from, 1, i - 1)[j] = resume_from[j]
      BY <1>1, <1>2, <2>1 DEF Paths
    <3> QED BY <2>1, <3>1
  <2>3. i \in Nat /\ resume_from[i] \in Names
    BY <1>2, <2>1 DEF Paths
  <2>4. r[i] # resume_from[i]
    BY <2>1, <2>3, NameLessIrreflexive
  <2> QED BY <1>1, <1>2, <2>1, <2>2, <2>3, <2>4 DEF AtOrAfterPoint
<1> QED BY <1>3, <1>4, <1>5 DEF LexLess

LEMMA LeadingIsPrefix ==
  ASSUME TypeOK, NEW p \in Paths, Within(p), LeadsToPoint(p)
  PROVE  IsStrictPrefix(Relative(p), resume_from)
<1>1. /\ Relative(p) \in Paths /\ Len(Relative(p)) = Len(p) - Len(Root)
      /\ \A j \in 1 .. Len(Relative(p)) : Relative(p)[j] = p[Len(Root) + j]
  BY RelativeIs
<1>2. /\ Len(Root) \in Nat /\ Len(p) \in Nat /\ Len(Root) <= Len(p) /\ resume_from \in Paths
      /\ Len(resume_from) \in Nat
  BY PathsAre DEF PlacesArePaths, Paths, TypeOK, Within
<1>3. /\ Len(Relative(p)) < Len(resume_from)
      /\ \A j \in 1 .. Len(Relative(p)) : Relative(p)[j] = resume_from[j]
  BY <1>1, <1>2 DEF LeadsToPoint
<1>4. SubSeq(Relative(p), 1, Len(Relative(p))) = SubSeq(resume_from, 1, Len(Relative(p)))
  BY <1>1, <1>2, <1>3 DEF Paths
<1> QED BY <1>2, <1>3, <1>4 DEF IsStrictPrefix, IsPrefix

(* The filter's decision about a child keeps a resumed walk on the way to  *)
(* the resume point, and skips what lies before it.                        *)
LEMMA DecideIs ==
  ASSUME TypeOK, NEW d \in Paths, Within(d), NEW p \in Paths, p # <<>>, Front(p) = d,
         NEW resuming \in BOOLEAN,
         resuming => LeadsToPoint(d), ~ resuming => AtOrAfterPoint(d),
         Decide(p, resuming) # "SkipEntry"
  PROVE  IF Decide(p, resuming) = "ContinueTowardResumePoint"
         THEN LeadsToPoint(p) ELSE AtOrAfterPoint(p)
<1>1. /\ Len(p) = Len(d) + 1 /\ Under(d, p) /\ Last(p) = p[Len(p)]
  BY ChildIs
<1>2. /\ Len(Root) \in Nat /\ Len(d) \in Nat /\ Len(p) \in Nat /\ Len(Root) <= Len(d)
      /\ resume_from \in Paths /\ Len(resume_from) \in Nat
  BY PathsAre DEF PlacesArePaths, Paths, Within, TypeOK
<1>3. Len(Relative(p)) = Len(p) - Len(Root)
  BY <1>1, <1>2, RelativeIs DEF Within
<1>4. CASE ~ resuming
  BY <1>1, <1>4, AfterPointBelow DEF Decide
<1>5. CASE resuming
  <2> DEFINE depth == Len(p) - Len(Root)
  <2>1. depth \in 1 .. Len(resume_from) /\ Len(Root) + depth = Len(p)
        /\ Len(d) - Len(Root) = depth - 1
    BY <1>1, <1>2, <1>5 DEF LeadsToPoint
  <2>2. \A j \in 1 .. depth - 1 : p[Len(Root) + j] = resume_from[j]
    <3>1. \A j \in 1 .. depth - 1 : d[Len(Root) + j] = resume_from[j]
      BY <1>5, <2>1 DEF LeadsToPoint
    <3>2. \A j \in 1 .. depth - 1 : Len(Root) + j \in 1 .. Len(d)
      BY <1>2, <2>1
    <3> QED BY <1>1, <3>1, <3>2 DEF Under
  <2>3. Decide(p, resuming) =
          IF depth > Len(resume_from) THEN "TraverseNormally"
          ELSE IF NameLess(Last(p), resume_from[depth]) THEN "SkipEntry"
          ELSE IF Last(p) = resume_from[depth] /\ depth < Len(resume_from)
          THEN "ContinueTowardResumePoint"
          ELSE "TraverseNormally"
    BY <1>3, <1>5 DEF Decide
  <2> HIDE DEF depth
  <2>4. ~ NameLess(p[Len(Root) + depth], resume_from[depth])
    BY <1>1, <1>2, <2>1, <2>3
  <2>5. CASE Decide(p, resuming) = "ContinueTowardResumePoint"
    <3>1. p[Len(Root) + depth] = resume_from[depth] /\ depth < Len(resume_from)
      BY <1>1, <2>1, <2>3, <2>5
    <3>2. \A j \in 1 .. depth : p[Len(Root) + j] = resume_from[j]
      BY <2>1, <2>2, <3>1
    <3> QED BY <1>2, <2>1, <2>5, <3>1, <3>2 DEF LeadsToPoint, depth
  <2>6. CASE Decide(p, resuming) # "ContinueTowardResumePoint"
    <3>1. CASE p[Len(Root) + depth] # resume_from[depth]
      BY <1>2, <2>1, <2>2, <2>4, <2>6, <3>1 DEF AtOrAfterPoint
    <3>2. CASE p[Len(Root) + depth] = resume_from[depth]
      <4>1. depth = Len(resume_from)
        BY <1>1, <1>2, <2>1, <2>3, <2>4, <2>6, <3>2
      <4>2. \A j \in 1 .. depth : p[Len(Root) + j] = resume_from[j]
        BY <2>1, <2>2, <3>2
      <4> QED BY <1>2, <2>1, <2>6, <4>1, <4>2 DEF AtOrAfterPoint
    <3> QED BY <3>1, <3>2
  <2> QED BY <2>5, <2>6
<1> QED BY <1>4, <1>5
-----------------------------------------------------------------------------
(* The frame of a directory that has not been read.                        *)
Entered(d, resuming) == [dir |-> d, resuming |-> resuming, read |-> FALSE, children |-> {}]

LEMMA EnteredIs ==
  ASSUME NEW d \in Below, NEW resuming \in BOOLEAN
  PROVE  /\ Entered(d, resuming) \in Frames
         /\ Entered(d, resuming).dir = d /\ Entered(d, resuming).resuming = resuming
         /\ ~ Entered(d, resuming).read /\ Entered(d, resuming).children = {}
BY DEF Frames, Entered

LEMMA RootIsBelow == Root \in Below /\ Places \subseteq Paths
<1>1. Root \in Paths /\ Len(Root) \in Nat /\ SubSeq(Root, 1, Len(Root)) = Root
  BY PathsAre DEF PlacesArePaths, Paths
<1> QED BY <1>1, WalkAssumption, PathsAre DEF Below, IsPrefix, PlacesArePaths

(* What a name adds to a path that the walk came to.                       *)
LEMMA AppendIs ==
  ASSUME NEW d \in Paths, NEW name \in Names
  PROVE  LET p == Append(d, name)
         IN  /\ p \in Paths /\ p # <<>> /\ Front(p) = d /\ Last(p) = name
             /\ d \in Below /\ name \notin {Dot, DotDot} => p \in Below
<1> DEFINE p == Append(d, name)
<1>1. /\ p \in Paths /\ Len(d) \in Nat /\ Len(p) = Len(d) + 1 /\ p # <<>> /\ DOMAIN p = 1 .. Len(p)
      /\ \A i \in 1 .. Len(d) : p[i] = d[i]
      /\ p[Len(p)] = name
  BY DEF Paths
<1> HIDE DEF p
<1>2. /\ Front(p) \in Paths /\ Len(Front(p)) = Len(d)
      /\ \A i \in 1 .. Len(d) : Front(p)[i] = d[i]
  <2>1. Len(p) - 1 = Len(d)
    BY <1>1
  <2>2. /\ Front(p) \in Paths /\ Len(Front(p)) = Len(p) - 1
        /\ \A j \in 1 .. Len(Front(p)) : p[j] = Front(p)[j]
    BY <1>1, FrontIs
  <2> QED BY <1>1, <2>1, <2>2
<1>3. Front(p) = d
  BY <1>2 DEF Paths
<1>4. Last(p) = name
  BY <1>1 DEF Last
<1>5. ASSUME d \in Below, name \notin {Dot, DotDot} PROVE p \in Below
  <2>1. Root \in Paths /\ IsPrefix(Root, d) /\ \A i \in 1 .. Len(d) : d[i] \notin {Dot, DotDot}
    BY <1>5, RootIsBelow DEF Below, Paths
  <2>2. Len(Root) \in Nat /\ Len(Root) <= Len(d) /\ \A j \in 1 .. Len(Root) : Root[j] = d[j]
    BY <2>1, PrefixIs DEF Paths
  <2>3. Len(Root) <= Len(p) /\ \A j \in 1 .. Len(Root) : j \in 1 .. Len(d) /\ Root[j] = p[j]
    BY <1>1, <2>2
  <2>4. IsPrefix(Root, p)
    BY <1>1, <2>1, <2>3, PrefixIs
  <2>5. \A i \in 1 .. Len(p) : i \in 1 .. Len(d) \/ i = Len(p)
    BY <1>1
  <2> QED BY <1>1, <1>5, <2>1, <2>4, <2>5 DEF Below
<1> QED BY <1>1, <1>3, <1>4, <1>5 DEF p

LEMMA ChildrenAre ==
  ASSUME TypeOK, NEW d \in Below
  PROVE  /\ Children(d) \subseteq Entries
         /\ \A c \in Children(d) : c.path # <<>> /\ Front(c.path) = d
<1> SUFFICES ASSUME NEW c \in Children(d)
             PROVE  c \in Entries /\ c.path # <<>> /\ Front(c.path) = d
  OBVIOUS
<1>1. PICK p \in Places \ {<<>>} : c = [path |-> Append(d, Last(p)), kind |-> kind[p]]
  BY DEF Children
<1>2. p \in Paths /\ Len(p) \in DOMAIN p /\ Last(p) = p[Len(p)] /\ Last(p) \in Names
  <2>1. p \in Paths
    BY RootIsBelow
  <2> QED BY <1>1, <2>1, ChildIs DEF Paths
<1>3. Last(p) \notin {Dot, DotDot}
  BY <1>2, WalkAssumption
<1>4. Append(d, Last(p)) \in Below /\ Append(d, Last(p)) # <<>> /\ Front(Append(d, Last(p))) = d
  BY <1>2, <1>3, AppendIs DEF Below
<1> QED BY <1>1, <1>4 DEF Entries, TypeOK

LEMMA PushIs ==
  ASSUME NEW f \in Frames, NEW st \in Seq(Frames)
  PROVE  <<f>> \o st \in Seq(Frames)
OBVIOUS

LEMMA CallersAre ==
  /\ \A c : CallersWithout(c) = Without(stack, c)
  /\ \A d, resuming, callers :
       WalkDirectory(d, resuming, callers) =
         IF ShouldSkip(d) THEN callers ELSE <<Entered(d, resuming)>> \o callers
BY DEF CallersWithout, Without, WalkDirectory, Entered

(* A reading of the innermost directory.                                   *)
LEMMA ReadingIs ==
  ASSUME TypeOK, ReadSortedChildren
  PROVE  /\ stack \in Seq(Frames) /\ stack # <<>> /\ 1 \in DOMAIN stack /\ ~ stack[1].read
         /\ stack[1].dir \in Below
         /\ \E some \in SUBSET Children(stack[1].dir) :
              /\ stack' = Opened(stack, some) /\ some \in SUBSET Entries
              /\ \A c \in some : c.path # <<>> /\ Front(c.path) = stack[1].dir
              /\ some # Children(stack[1].dir) => stack[1].dir \in broken'
         /\ broken' \in {broken, broken \cup {stack[1].dir}}
         /\ UNCHANGED <<kind, config, visited, status, changed>>
<1>1. stack \in Seq(Frames) /\ stack # <<>> /\ ~ stack[1].read
  BY DEF ReadSortedChildren, TypeOK
<1>2. 1 \in DOMAIN stack /\ stack[1] \in Frames
  BY <1>1
<1>3. stack[1].dir \in Below
  BY <1>2, FrameIs
<1>4. /\ Children(stack[1].dir) \subseteq Entries
      /\ \A c \in Children(stack[1].dir) : c.path # <<>> /\ Front(c.path) = stack[1].dir
  BY <1>3, ChildrenAre
<1> QED BY <1>1, <1>2, <1>3, <1>4 DEF ReadSortedChildren, Opened

(* The next child of the innermost directory.                              *)
LEMMA ChildOfStack ==
  ASSUME TypeOK, stack # <<>>, NEW c \in stack[1].children
  PROVE  /\ 1 \in DOMAIN stack /\ stack[1] \in Frames
         /\ c.path \in Below /\ c.path \in Paths
         /\ stack[1].dir \in Below /\ stack[1].dir \in Paths /\ stack[1].resuming \in BOOLEAN
<1>1. stack[1] \in Frames /\ 1 \in DOMAIN stack
  BY DEF TypeOK
<1> QED BY <1>1, FrameIs

LEMMA TypeStep == TypeOK /\ [Next]_vars => TypeOK'
<1> SUFFICES ASSUME TypeOK, [Next]_vars PROVE TypeOK'
  OBVIOUS
<1> USE DEF TypeOK, config, history, vars
<1>1. CASE LoadExcludes
  BY <1>1 DEF LoadExcludes
<1>2. CASE RootFails
  BY <1>2 DEF RootFails
<1>3. CASE RootIsSkipped
  BY <1>3 DEF RootIsSkipped
<1>4. CASE RootIsFile
  BY <1>4, RootIsBelow DEF RootIsFile
<1>5. CASE RootIsDirectory
  <2> DEFINE f == Entered(Root, resume_from # <<>>)
  <2>1. f \in Frames
    BY EnteredIs, RootIsBelow
  <2> HIDE DEF f
  <2>2. stack' = <<>> \/ stack' = <<f>> \o <<>>
    BY <1>5, CallersAre DEF RootIsDirectory, f
  <2>3. stack' \in Seq(Frames)
    BY <2>1, <2>2, PushIs, <<>> \in Seq(Frames)
  <2> QED BY <1>5, <2>3 DEF RootIsDirectory
<1>6. ASSUME stack # <<>>, NEW c \in stack[1].children, SkipChild(c) PROVE TypeOK'
  BY <1>6, CallersAre, WithoutIs DEF SkipChild
<1>7. ASSUME stack # <<>>, NEW c \in stack[1].children, EnterChild(c) PROVE TypeOK'
  <2> DEFINE f == Entered(c.path, Decide(c.path, stack[1].resuming) = "ContinueTowardResumePoint")
  <2>1. f \in Frames
    BY <1>7, ChildOfStack, EnteredIs
  <2> HIDE DEF f
  <2>2. stack' = Without(stack, c) \/ stack' = <<f>> \o Without(stack, c)
    BY <1>7, CallersAre DEF EnterChild, f
  <2>3. Without(stack, c) \in Seq(Frames)
    BY <1>7, WithoutIs
  <2>4. stack' \in Seq(Frames)
    BY <2>1, <2>2, <2>3, PushIs
  <2> QED BY <1>7, <2>4 DEF EnterChild
<1>8. ASSUME stack # <<>>, NEW c \in stack[1].children, HandleFile(c) PROVE TypeOK'
  <2>1. visited' \in Seq(Below)
    BY <1>8, ChildOfStack DEF HandleFile
  <2> QED BY <1>8, <2>1, CallersAre, WithoutIs DEF HandleFile
<1>9. CASE LeaveDirectory
  BY <1>9 DEF LeaveDirectory
<1>10. CASE EndWalk
  BY <1>10 DEF EndWalk
<1>11. ASSUME NEW p \in Places, ChangeTree(p) PROVE TypeOK'
  BY <1>11 DEF ChangeTree
<1>12. CASE ReadSortedChildren
  BY <1>12, ReadingIs, OpenedIs
<1>13. CASE UNCHANGED vars
  BY <1>13
<1> QED BY <1>1, <1>2, <1>3, <1>4, <1>5, <1>6, <1>7, <1>8, <1>9, <1>10, <1>11, <1>12, <1>13
     DEF Next, WalkStep

(* The walk keeps the shape of its state: what is on its stack, what it    *)
(* has handed over and what it has come to.                                *)
THEOREM WalkerTypeCorrect == Spec => []TypeOK
<1>1. Init => TypeOK
  BY WalkAssumption DEF Init, TypeOK
<1> QED BY <1>1, TypeStep, PTL DEF Spec
-----------------------------------------------------------------------------
(* The order of the walk.  Files are told apart by where they lie: below   *)
(* the root, unless the root is a file itself.                             *)
OrderInv ==
  /\ status = "walking" \/ stack = <<>>
  /\ status \in {"loading", "ready"} => visited = <<>>
  /\ \/ status = "done" /\ visited = <<Root>>
     \/ \A k \in DOMAIN visited : Under(Root, visited[k])
  /\ StackInv(stack, visited)
  /\ \A k, l \in DOMAIN visited : k < l => ParallelBefore(visited[k], visited[l])

LEMMA ChildIsUnderRoot ==
  ASSUME TypeOK, OrderInv, stack # <<>>, NEW c \in stack[1].children
  PROVE  /\ c.path # <<>> /\ Front(c.path) = stack[1].dir /\ Under(Root, c.path)
         /\ stack[1].dir = Root \/ Under(Root, stack[1].dir)
         /\ \A k \in DOMAIN visited : ParallelBefore(visited[k], c.path)
<1>1. 1 \in DOMAIN stack /\ c.path \in Paths /\ stack[1].dir \in Paths
  BY ChildOfStack
<1>2. /\ c.path # <<>> /\ Front(c.path) = stack[1].dir /\ (stack[1].dir = Root \/ Under(Root, stack[1].dir))
      /\ \A k \in DOMAIN visited : ParallelBefore(visited[k], c.path)
  BY <1>1 DEF OrderInv, StackInv
<1>3. Under(stack[1].dir, c.path)
  BY <1>1, <1>2, ChildIs
<1> QED BY <1>1, <1>2, <1>3, UnderTransitive, PathsAre DEF PlacesArePaths

LEMMA OrderStep == TypeOK /\ OrderInv /\ [Next]_vars => OrderInv'
<1> SUFFICES ASSUME TypeOK, OrderInv, [Next]_vars PROVE OrderInv'
  OBVIOUS
<1> USE DEF config, history, vars
<1>1. CASE LoadExcludes
  BY <1>1 DEF LoadExcludes, OrderInv
<1>2. CASE RootFails
  BY <1>2 DEF RootFails, OrderInv
<1>3. CASE RootIsSkipped
  BY <1>3 DEF RootIsSkipped, OrderInv
<1>4. CASE RootIsFile
  <2>1. stack = <<>> /\ stack' = <<>> /\ visited' = <<Root>> /\ status' = "done"
    BY <1>4 DEF RootIsFile, OrderInv
  <2>2. DOMAIN visited' = {1} /\ DOMAIN stack' = {}
    BY <2>1
  <2> QED BY <2>1, <2>2 DEF OrderInv, StackInv
<1>5. CASE RootIsDirectory
  <2> DEFINE f == Entered(Root, resume_from # <<>>)
  <2>1. f \in Frames /\ f.dir = Root /\ f.children = {}
    BY EnteredIs, RootIsBelow
  <2> HIDE DEF f
  <2>2. stack' = <<>> \/ stack' = <<f>> \o <<>>
    BY <1>5, CallersAre DEF RootIsDirectory, f
  <2>3. stack' = <<>> \/ stack' = <<f>>
    BY <2>2
  <2>4. visited = <<>> /\ visited' = <<>> /\ status' = "walking"
    BY <1>5 DEF RootIsDirectory, OrderInv
  <2>5. StackInv(stack', visited')
    <3>1. CASE stack' = <<>>
      BY <2>4, <3>1 DEF StackInv
    <3>2. CASE stack' = <<f>>
      <4>1. DOMAIN stack' = {1} /\ stack'[1] = f /\ DOMAIN visited' = {}
        BY <2>4, <3>2
      <4> QED BY <2>1, <4>1 DEF StackInv
    <3> QED BY <2>3, <3>1, <3>2
  <2> QED BY <2>4, <2>5 DEF OrderInv
<1>6. ASSUME stack # <<>>, NEW c \in stack[1].children, SkipChild(c) PROVE OrderInv'
  <2>1. StackInv(stack, visited) /\ stack \in Seq(Frames) /\ status = "walking"
    BY <1>6 DEF OrderInv, TypeOK
  <2>2. stack' = Without(stack, c) /\ visited' = visited /\ status' = status
    BY <1>6, CallersAre DEF SkipChild
  <2>3. StackInv(stack', visited')
    BY <1>6, <2>1, <2>2, WithoutKeeps
  <2> QED BY <2>1, <2>2, <2>3 DEF OrderInv
<1>7. ASSUME stack # <<>>, NEW c \in stack[1].children, EnterChild(c) PROVE OrderInv'
  <2> DEFINE f == Entered(c.path, Decide(c.path, stack[1].resuming) = "ContinueTowardResumePoint")
  <2>1. f \in Frames /\ f.dir = c.path /\ f.children = {}
    BY <1>7, ChildOfStack, EnteredIs
  <2> HIDE DEF f
  <2>2. stack' = Without(stack, c) \/ stack' = <<f>> \o Without(stack, c)
    BY <1>7, CallersAre DEF EnterChild, f
  <2>3. /\ StackInv(stack, visited) /\ stack \in Seq(Frames) /\ status = "walking"
        /\ visited \in Seq(Below) /\ visited' = visited /\ status' = status
        /\ \A d \in stack[1].children \ {c} : Sorts(c, d)
    BY <1>7 DEF EnterChild, AtChild, OrderInv, TypeOK
  <2>4. StackInv(Without(stack, c), visited)
    BY <1>7, <2>3, WithoutKeeps
  <2>5. StackInv(<<f>> \o Without(stack, c), visited)
    BY <1>7, <2>1, <2>3, EnterKeeps
  <2> QED BY <2>2, <2>3, <2>4, <2>5 DEF OrderInv
<1>8. ASSUME stack # <<>>, NEW c \in stack[1].children, HandleFile(c) PROVE OrderInv'
  <2>1. /\ StackInv(stack, visited) /\ stack \in Seq(Frames) /\ status = "walking"
        /\ visited \in Seq(Below) /\ visited' = Append(visited, c.path) /\ status' = status
        /\ stack' = Without(stack, c)
        /\ \A d \in stack[1].children \ {c} : Sorts(c, d)
    BY <1>8, CallersAre DEF HandleFile, AtChild, OrderInv, TypeOK
  <2>2. StackInv(stack', visited')
    BY <1>8, <2>1, VisitKeeps
  <2>3. Under(Root, c.path) /\ \A k \in DOMAIN visited : ParallelBefore(visited[k], c.path)
    BY <1>8, ChildIsUnderRoot
  <2>4. \A k \in DOMAIN visited : Under(Root, visited[k])
    BY <2>1 DEF OrderInv
  <2>5. /\ \A k \in DOMAIN visited' : \/ k \in DOMAIN visited /\ visited'[k] = visited[k]
                                      \/ k = Len(visited) + 1 /\ visited'[k] = c.path
        /\ \A k \in DOMAIN visited' : k \in Int /\ k <= Len(visited) + 1
        /\ \A k \in DOMAIN visited : k # Len(visited) + 1
    BY <2>1
  <2>6. \A k \in DOMAIN visited' : Under(Root, visited'[k])
    BY <2>3, <2>4, <2>5
  <2>7. ASSUME NEW k \in DOMAIN visited', NEW l \in DOMAIN visited', k < l
        PROVE  ParallelBefore(visited'[k], visited'[l])
    <3>1. k \in DOMAIN visited /\ visited'[k] = visited[k]
      BY <2>5, <2>7
    <3>2. CASE l \in DOMAIN visited /\ visited'[l] = visited[l]
      BY <2>7, <3>1, <3>2 DEF OrderInv
    <3>3. CASE visited'[l] = c.path
      BY <2>3, <3>1, <3>3
    <3> QED BY <2>5, <3>2, <3>3
  <2> QED BY <2>1, <2>2, <2>6, <2>7 DEF OrderInv
<1>9. CASE LeaveDirectory
  <2>1. /\ StackInv(stack, visited) /\ stack \in Seq(Frames) /\ stack # <<>>
        /\ status = "walking" /\ visited' = visited /\ status' = status /\ stack' = Tail(stack)
    BY <1>9 DEF LeaveDirectory, OrderInv, TypeOK
  <2>2. StackInv(stack', visited')
    BY <2>1, TailKeeps
  <2> QED BY <2>1, <2>2 DEF OrderInv
<1>10. CASE EndWalk
  BY <1>10 DEF EndWalk, OrderInv
<1>11. ASSUME NEW p \in Places, ChangeTree(p) PROVE OrderInv'
  BY <1>11 DEF ChangeTree, OrderInv
<1>12. CASE ReadSortedChildren
  <2>1. /\ StackInv(stack, visited) /\ stack # <<>> /\ stack \in Seq(Frames) /\ ~ stack[1].read
        /\ visited \in Seq(Below) /\ visited' = visited /\ status' = status
    BY <1>12, ReadingIs DEF OrderInv, TypeOK
  <2>2. PICK some \in SUBSET Entries :
          stack' = Opened(stack, some) /\ \A c \in some : c.path # <<>> /\ Front(c.path) = stack[1].dir
    BY <1>12, ReadingIs
  <2>3. StackInv(stack', visited')
    BY <2>1, <2>2, OpenKeeps
  <2>4. status = "walking"
    BY <1>12 DEF ReadSortedChildren
  <2> QED BY <2>1, <2>3, <2>4 DEF OrderInv
<1>13. CASE UNCHANGED vars
  BY <1>13 DEF OrderInv
<1> QED BY <1>1, <1>2, <1>3, <1>4, <1>5, <1>6, <1>7, <1>8, <1>9, <1>10, <1>11, <1>12, <1>13
     DEF Next, WalkStep

LEMMA OrderInvariant == Spec => [](TypeOK /\ OrderInv)
<1>1. Init => OrderInv
  <2> SUFFICES ASSUME Init PROVE OrderInv
    OBVIOUS
  <2>1. stack = <<>> /\ visited = <<>> /\ status = "loading"
    BY DEF Init
  <2> QED BY <2>1 DEF OrderInv, StackInv
<1> QED BY <1>1, OrderStep, WalkerTypeCorrect, PTL DEF Spec

(* FileTreeWalker::walkDirectory(): whatever appears, goes or changes its  *)
(* type during the walk, each file that is handed over comes after those   *)
(* before it, in the order in which resume points are compared.            *)
THEOREM WalkIsInOrder == Spec => []VisitsInOrder
<1>1. TypeOK /\ OrderInv => VisitsInOrder
  <2> SUFFICES ASSUME TypeOK, OrderInv, NEW i \in DOMAIN visited, NEW j \in DOMAIN visited, i < j
               PROVE  WalkedBefore(Relative(visited[i]), Relative(visited[j]))
    BY DEF VisitsInOrder
  <2>1. visited[i] \in Paths /\ visited[j] \in Paths /\ Root \in Paths
    BY PathsAre DEF PlacesArePaths, TypeOK, Below
  <2>2. ParallelBefore(visited[i], visited[j])
    BY DEF OrderInv
  <2>3. CASE visited = <<Root>>
    <3>1. i = 1 /\ j = 1
      BY <2>3
    <3> QED BY <3>1
  <2>4. CASE \A k \in DOMAIN visited : Under(Root, visited[k])
    BY <2>1, <2>2, <2>4, BeforeIsWalked DEF Relative
  <2> QED BY <2>3, <2>4 DEF OrderInv
<1> QED BY <1>1, OrderInvariant, PTL

(* Nothing is handed over twice, not even a file that was moved about.     *)
COROLLARY NoneTwice ==
  Spec => [](\A i, j \in DOMAIN visited : i # j => visited[i] # visited[j])
<1>1. ASSUME TypeOK, VisitsInOrder, NEW i \in DOMAIN visited, NEW j \in DOMAIN visited,
             i < j, visited[i] = visited[j]
      PROVE  FALSE
  <2> DEFINE r == Relative(visited[i])
  <2>1. LexLess(NameLess, r, r)
    BY <1>1 DEF VisitsInOrder, WalkedBefore
  <2>2. visited[i] \in Paths /\ Len(Root) \in Nat
    BY <1>1, PathsAre DEF PlacesArePaths, Paths, TypeOK, Below
  <2>3. r \in Paths
    BY <2>2 DEF Paths, Relative
  <2> HIDE DEF r
  <2>4. PICK k \in DOMAIN r : NameLess(r[k], r[k])
    BY <2>1 DEF LexLess, IsStrictPrefix
  <2> QED BY <2>3, <2>4, NameLessIrreflexive DEF Paths
<1>2. TypeOK /\ VisitsInOrder => \A i, j \in DOMAIN visited : i # j => visited[i] # visited[j]
  <2> SUFFICES ASSUME TypeOK, VisitsInOrder,
                      NEW i \in DOMAIN visited, NEW j \in DOMAIN visited, i # j
               PROVE  visited[i] # visited[j]
    OBVIOUS
  <2>1. i < j \/ j < i
    BY DEF TypeOK
  <2> QED BY <1>1, <2>1
<1> QED BY <1>2, WalkIsInOrder, WalkerTypeCorrect, PTL
-----------------------------------------------------------------------------
LEMMA VisitedIs ==
  ASSUME TypeOK, NEW p, visited' = Append(visited, p)
  PROVE  \A k \in DOMAIN visited' : (k \in DOMAIN visited /\ visited'[k] = visited[k]) \/ visited'[k] = p
BY DEF TypeOK

-----------------------------------------------------------------------------
(* How far the walk is from the resume point: a directory for which the    *)
(* filter is on leads to it, any other one, and everything below, lies at  *)
(* or after it.                                                            *)
OnTheWay(f) == IF f.resuming THEN LeadsToPoint(f.dir) ELSE AtOrAfterPoint(f.dir)

PointInv ==
  /\ \A i \in DOMAIN stack : OnTheWay(stack[i])
  /\ \A k \in DOMAIN visited : LeadsToPoint(visited[k]) \/ AtOrAfterPoint(visited[k])

LEMMA RootIsOnTheWay ==
  ASSUME TypeOK
  PROVE  IF resume_from # <<>> THEN LeadsToPoint(Root) ELSE AtOrAfterPoint(Root)
<1>1. Root \in Paths /\ resume_from \in Paths
  BY PathsAre DEF PlacesArePaths, TypeOK
<1>2. Len(Root) \in Nat /\ Len(resume_from) \in Nat /\ (resume_from # <<>> => Len(resume_from) > 0)
  BY <1>1 DEF Paths
<1>3. \A j \in 1 .. Len(Root) - Len(Root) : FALSE
  BY <1>2
<1>4. CASE resume_from # <<>>
  BY <1>2, <1>3, <1>4 DEF LeadsToPoint
<1>5. CASE resume_from = <<>>
  <2>1. Len(resume_from) = 0 /\ \A j \in 1 .. Len(resume_from) : FALSE
    BY <1>5
  <2> QED BY <1>2, <1>5, <2>1 DEF AtOrAfterPoint
<1> QED BY <1>4, <1>5

LEMMA ChildIsOnTheWay ==
  ASSUME TypeOK, OrderInv, PointInv, stack # <<>>, NEW c \in stack[1].children, Passes(c)
  PROVE  IF Decide(c.path, stack[1].resuming) = "ContinueTowardResumePoint"
         THEN LeadsToPoint(c.path) ELSE AtOrAfterPoint(c.path)
<1> DEFINE d == stack[1].dir
<1>1. /\ 1 \in DOMAIN stack /\ c.path \in Paths /\ c.path # <<>> /\ d \in Paths
      /\ stack[1].resuming \in BOOLEAN
  BY ChildOfStack, ChildIsUnderRoot
<1>2. Front(c.path) = d /\ (d = Root \/ Under(Root, d))
  BY ChildIsUnderRoot
<1>3. Within(d)
  <2>1. Root \in Paths
    BY PathsAre DEF PlacesArePaths
  <2>2. Len(Root) \in Nat /\ Len(d) \in Nat
    BY <1>1, <2>1 DEF Paths
  <2> QED BY <1>2, <2>2 DEF Within, Under
<1>4. OnTheWay(stack[1])
  BY <1>1 DEF PointInv
<1>5. /\ stack[1].resuming => LeadsToPoint(d)
      /\ ~ stack[1].resuming => AtOrAfterPoint(d)
  BY <1>4 DEF OnTheWay
<1>6. Decide(c.path, stack[1].resuming) # "SkipEntry"
  BY DEF Passes
<1> HIDE DEF d
<1> QED BY <1>1, <1>2, <1>3, <1>5, <1>6, DecideIs

LEMMA PointStep == TypeOK /\ OrderInv /\ PointInv /\ [Next]_vars => PointInv'
<1> SUFFICES ASSUME TypeOK, OrderInv, PointInv, [Next]_vars PROVE PointInv'
  OBVIOUS
<1> USE DEF config, history, vars
<1>1. resume_from' = resume_from
  BY DEF Next, WalkStep, LoadExcludes, RootFails, RootIsSkipped, RootIsFile, RootIsDirectory,
         ReadSortedChildren, SkipChild, EnterChild, HandleFile, LeaveDirectory, EndWalk, ChangeTree
<1>2. \A i \in DOMAIN stack' : OnTheWay(stack'[i])
  <2>1. ASSUME stack # <<>>, NEW c \in stack[1].children
        PROVE  \A i \in DOMAIN Without(stack, c) : OnTheWay(Without(stack, c)[i])
    <3>1. stack \in Seq(Frames)
      BY DEF TypeOK
    <3>2. /\ DOMAIN Without(stack, c) = DOMAIN stack
          /\ \A i \in DOMAIN stack : /\ Without(stack, c)[i].dir = stack[i].dir
                                     /\ Without(stack, c)[i].resuming = stack[i].resuming
      BY <2>1, <3>1, WithoutIs
    <3> QED BY <3>2 DEF PointInv, OnTheWay
  <2>2. CASE RootIsDirectory
    <3> DEFINE f == Entered(Root, resume_from # <<>>)
    <3>1. OnTheWay(f)
      BY RootIsOnTheWay DEF OnTheWay, Entered
    <3> HIDE DEF f
    <3>2. stack' = <<>> \/ stack' = <<f>> \o <<>>
      BY <2>2, CallersAre DEF RootIsDirectory, f
    <3>3. \A i \in DOMAIN stack' : stack'[i] = f
      BY <3>2
    <3> QED BY <3>1, <3>3
  <2>3. ASSUME stack # <<>>, NEW c \in stack[1].children, EnterChild(c)
        PROVE  \A i \in DOMAIN stack' : OnTheWay(stack'[i])
    <3> DEFINE f == Entered(c.path, Decide(c.path, stack[1].resuming) = "ContinueTowardResumePoint")
               old == Without(stack, c)
    <3>1. OnTheWay(f)
      BY <2>3, ChildIsOnTheWay DEF OnTheWay, EnterChild, Entered
    <3>2. f \in Frames /\ old \in Seq(Frames)
      BY <2>3, ChildOfStack, EnteredIs, WithoutIs DEF TypeOK
    <3>3. stack' = old \/ stack' = <<f>> \o old
      BY <2>3, CallersAre DEF EnterChild
    <3>4. \A i \in DOMAIN old : OnTheWay(old[i])
      BY <2>1, <2>3
    <3> HIDE DEF f, old
    <3>5. \A i \in DOMAIN (<<f>> \o old) :
            (<<f>> \o old)[i] = f \/ (i - 1 \in DOMAIN old /\ (<<f>> \o old)[i] = old[i - 1])
      BY <3>2
    <3> QED BY <3>1, <3>3, <3>4, <3>5
  <2>4. ASSUME stack # <<>>, NEW c \in stack[1].children, SkipChild(c) \/ HandleFile(c)
        PROVE  \A i \in DOMAIN stack' : OnTheWay(stack'[i])
    BY <2>1, <2>4, CallersAre DEF SkipChild, HandleFile
  <2>5. CASE LeaveDirectory
    <3>1. \A i \in DOMAIN Tail(stack) : i + 1 \in DOMAIN stack /\ Tail(stack)[i] = stack[i + 1]
      BY <2>5 DEF LeaveDirectory, TypeOK
    <3> QED BY <2>5, <3>1 DEF LeaveDirectory, PointInv
  <2>6. CASE ReadSortedChildren
    <3>1. /\ DOMAIN stack' = DOMAIN stack
          /\ \A i \in DOMAIN stack : stack'[i].dir = stack[i].dir /\ stack'[i].resuming = stack[i].resuming
      BY <2>6, ReadingIs, OpenedIs
    <3> QED BY <3>1 DEF PointInv, OnTheWay
  <2>7. CASE stack' = stack
    BY <2>7 DEF PointInv
  <2> QED BY <2>2, <2>3, <2>4, <2>5, <2>6, <2>7
       DEF Next, WalkStep, LoadExcludes, RootFails, RootIsSkipped, RootIsFile, EndWalk, ChangeTree
<1>3. \A k \in DOMAIN visited' : LeadsToPoint(visited'[k]) \/ AtOrAfterPoint(visited'[k])
  <2>1. CASE RootIsFile
    <3>1. \A k \in DOMAIN visited' : visited'[k] = Root
      BY <2>1 DEF RootIsFile
    <3> QED BY <3>1, RootIsOnTheWay
  <2>2. ASSUME stack # <<>>, NEW c \in stack[1].children, HandleFile(c)
        PROVE  \A k \in DOMAIN visited' : LeadsToPoint(visited'[k]) \/ AtOrAfterPoint(visited'[k])
    <3>1. LeadsToPoint(c.path) \/ AtOrAfterPoint(c.path)
      BY <2>2, ChildIsOnTheWay DEF HandleFile
    <3>2. visited' = Append(visited, c.path)
      BY <2>2 DEF HandleFile
    <3> QED BY <3>1, <3>2, VisitedIs DEF PointInv
  <2>3. CASE visited' = visited
    BY <2>3 DEF PointInv
  <2> QED BY <2>1, <2>2, <2>3
       DEF Next, WalkStep, LoadExcludes, RootFails, RootIsSkipped, RootIsDirectory,
           ReadSortedChildren, SkipChild, EnterChild, LeaveDirectory, EndWalk, ChangeTree
<1> QED BY <1>1, <1>2, <1>3 DEF PointInv, OnTheWay, LeadsToPoint, AtOrAfterPoint

LEMMA PointInvariant == Spec => [](TypeOK /\ OrderInv /\ PointInv)
<1>1. Init => PointInv
  BY DEF Init, PointInv
<1> QED BY <1>1, PointStep, OrderInvariant, PTL DEF Spec

(* ResumePathFilter::decide(): what a resumed walk hands over is not       *)
(* before the resume point, unless it is a file that took the place of a   *)
(* directory on the way to it.                                             *)
LEMMA NothingBeforeResumePoint == Spec => []NothingBeforePoint
<1>1. TypeOK /\ OrderInv /\ PointInv => NothingBeforePoint
  <2> SUFFICES ASSUME TypeOK, OrderInv, PointInv, NEW i \in DOMAIN visited, BeforePoint(visited[i])
               PROVE  IsStrictPrefix(Relative(visited[i]), resume_from)
    BY DEF NothingBeforePoint
  <2>1. visited[i] \in Paths /\ Root \in Paths
    BY PathsAre DEF PlacesArePaths, TypeOK, Below
  <2>2. visited[i] = Root \/ Under(Root, visited[i])
    <3>1. CASE visited = <<Root>>
      BY <3>1
    <3> QED BY <3>1 DEF OrderInv
  <2>3. Within(visited[i])
    <3>1. Len(Root) \in Nat /\ Len(visited[i]) \in Nat
      BY <2>1 DEF Paths
    <3> QED BY <2>2, <3>1 DEF Within, Under
  <2>4. LeadsToPoint(visited[i])
    BY <2>1, <2>3, AfterPointNotBefore DEF PointInv
  <2> QED BY <2>1, <2>3, <2>4, LeadingIsPrefix
<1> QED BY <1>1, PointInvariant, PTL
-----------------------------------------------------------------------------
(* What Resolve computes is found name by name, so it takes induction, over *)
(* sets of numbers: a set of naturals has a least one.                     *)
LEMMA LeastNumber ==
  ASSUME NEW T, T \subseteq Nat, T # {}
  PROVE  \E n \in T : \A m \in T : n <= m
<1> DEFINE R == {ss \in Nat \X Nat : ss[1] < ss[2]}
<1>1. IsWellFoundedOn(R, Nat)
  BY NatLessThanWellFounded DEF OpToRel
<1>2. PICK n \in T : \A m \in T : ~ (<<m, n>> \in R)
  <2> HIDE DEF R
  <2> QED BY <1>1, WFMin
<1>3. \A m \in T : ~ (m < n)
  BY <1>2
<1> QED BY <1>3

LEMMA CountingUp ==
  ASSUME NEW N \in Nat, NEW G, 0 \in G, \A n \in 0 .. N - 1 : n \in G => n + 1 \in G
  PROVE  \A n \in 0 .. N : n \in G
<1> DEFINE T == {n \in 0 .. N : n \notin G}
<1> SUFFICES ASSUME T # {} PROVE FALSE
  OBVIOUS
<1>1. PICK n \in T : \A m \in T : n <= m
  <2>1. T \subseteq Nat
    OBVIOUS
  <2> HIDE DEF T
  <2> QED BY <2>1, LeastNumber
<1>2. n # 0 /\ n - 1 \in 0 .. N - 1 /\ n - 1 \notin T
  BY <1>1
<1> QED BY <1>1, <1>2

(* The function that Resolve defines.                                      *)
ResolvesWith(f, p, links) ==
  f = [n \in 0 .. Len(p) |-> IF n = 0 THEN <<>> ELSE Onward(f[n - 1], p[n], links)]

LEMMA ResolveIs ==
  ASSUME NEW p \in Paths, NEW links
  PROVE  \E f : ResolvesWith(f, p, links) /\ Resolve(p, links) = f[Len(p)]
<1> DEFINE To(N, f) == f = [n \in 0 .. N |-> IF n = 0 THEN <<>> ELSE Onward(f[n - 1], p[n], links)]
           G == {N \in Nat : \E f : To(N, f)}
<1>1. Len(p) \in Nat
  BY DEF Paths
<1>2. 0 \in G
  <2>1. To(0, [n \in 0 .. 0 |-> <<>>])
    OBVIOUS
  <2> QED BY <2>1
<1>3. ASSUME NEW N \in Nat, N \in G PROVE N + 1 \in G
  <2>1. PICK f : To(N, f)
    BY <1>3
  <2> DEFINE g == [n \in 0 .. N + 1 |-> IF n <= N THEN f[n] ELSE Onward(f[N], p[N + 1], links)]
  <2>2. \A n \in 0 .. N : g[n] = f[n]
    OBVIOUS
  <2>3. \A n \in 0 .. N : f[n] = IF n = 0 THEN <<>> ELSE Onward(f[n - 1], p[n], links)
    BY <2>1
  <2>4. ASSUME NEW n \in 0 .. N + 1
        PROVE  g[n] = IF n = 0 THEN <<>> ELSE Onward(g[n - 1], p[n], links)
    <3>1. CASE n <= N
      <4>1. n \in 0 .. N /\ (n # 0 => n - 1 \in 0 .. N)
        BY <3>1
      <4> QED BY <2>2, <2>3, <4>1
    <3>2. CASE n = N + 1
      <4>1. n # 0 /\ n - 1 = N /\ g[n] = Onward(f[N], p[N + 1], links)
        BY <3>2
      <4>2. g[N] = f[N]
        BY <2>2
      <4> QED BY ONLY <3>2, <4>1, <4>2
    <3> QED BY <3>1, <3>2
  <2>5. To(N + 1, g)
    <3>1. g = [n \in 0 .. N + 1 |-> g[n]]
      OBVIOUS
    <3> HIDE DEF g
    <3> QED BY <2>4, <3>1
  <2> HIDE DEF g, To
  <2> QED BY <2>5
<1> HIDE DEF G
<1>4. Len(p) \in G
  BY <1>1, <1>2, <1>3, CountingUp
<1>5. PICK g : ResolvesWith(g, p, links)
  BY <1>4 DEF G, ResolvesWith
<1> DEFINE f == CHOOSE h : h = [n \in 0 .. Len(p) |-> IF n = 0 THEN <<>> ELSE Onward(h[n - 1], p[n], links)]
<1>6. f = [n \in 0 .. Len(p) |-> IF n = 0 THEN <<>> ELSE Onward(f[n - 1], p[n], links)]
  BY <1>5 DEF ResolvesWith
<1>7. Resolve(p, links) = f[Len(p)]
  BY DEF Resolve
<1> QED BY <1>6, <1>7 DEF ResolvesWith

LEMMA ResolveNameByName ==
  ASSUME NEW p \in Paths, NEW links
  PROVE  /\ Resolve(SubSeq(p, 1, 0), links) = <<>>
         /\ \A n \in 1 .. Len(p) :
              Resolve(SubSeq(p, 1, n), links) = Onward(Resolve(SubSeq(p, 1, n - 1), links), p[n], links)
         /\ SubSeq(p, 1, Len(p)) = p
<1>1. Len(p) \in Nat /\ SubSeq(p, 1, Len(p)) = p
  BY DEF Paths
<1>2. PICK f : ResolvesWith(f, p, links)
  BY ResolveIs
<1>3. /\ f[0] = <<>>
      /\ \A n \in 1 .. Len(p) : f[n] = Onward(f[n - 1], p[n], links)
  <2>1. \A n \in 0 .. Len(p) : f[n] = IF n = 0 THEN <<>> ELSE Onward(f[n - 1], p[n], links)
    BY <1>2 DEF ResolvesWith
  <2> QED BY <1>1, <2>1
<1>4. ASSUME NEW m \in 0 .. Len(p) PROVE Resolve(SubSeq(p, 1, m), links) = f[m]
  <2> DEFINE q == SubSeq(p, 1, m)
  <2>1. q \in Paths /\ Len(q) = m /\ \A i \in 1 .. m : q[i] = p[i]
    BY <1>1 DEF Paths
  <2> HIDE DEF q
  <2>2. PICK g : ResolvesWith(g, q, links) /\ Resolve(q, links) = g[m]
    BY <2>1, ResolveIs
  <2>3. \A n \in 0 .. m : g[n] = IF n = 0 THEN <<>> ELSE Onward(g[n - 1], q[n], links)
    BY <2>1, <2>2 DEF ResolvesWith
  <2> DEFINE G == {n \in 0 .. m : g[n] = f[n]}
  <2>4. 0 \in G
    BY <1>1, <1>3, <2>3
  <2>5. ASSUME NEW n \in 0 .. m - 1, n \in G PROVE n + 1 \in G
    <3>1. n + 1 \in 1 .. m /\ n + 1 \in 1 .. Len(p) /\ (n + 1) - 1 = n /\ n + 1 \in 0 .. m /\ n + 1 # 0
      BY <1>1
    <3>2. g[n + 1] = Onward(g[n], q[n + 1], links)
      BY <2>3, <3>1
    <3>3. f[n + 1] = Onward(f[n], p[n + 1], links)
      BY <1>3, <3>1
    <3>4. q[n + 1] = p[n + 1] /\ g[n] = f[n]
      BY <2>1, <2>5, <3>1
    <3> QED BY ONLY <3>1, <3>2, <3>3, <3>4
  <2>6. m \in G
    <3> HIDE DEF G
    <3>1. m \in Nat /\ m \in 0 .. m
      BY <1>1
    <3> QED BY <2>4, <2>5, <3>1, CountingUp
  <2> QED BY <2>2, <2>6 DEF q
<1>5. \A n \in 1 .. Len(p) : n \in 0 .. Len(p) /\ n - 1 \in 0 .. Len(p)
  BY <1>1
<1> QED BY <1>1, <1>3, <1>4, <1>5
(* A path without the names that stand for directories above.              *)
PlainPaths == {p \in Paths : \A i \in 1 .. Len(p) : p[i] \notin {Dot, DotDot}}

LEMMA PlacesArePlain == Places \subseteq PlainPaths
<1> SUFFICES ASSUME NEW p \in Places PROVE p \in PlainPaths
  OBVIOUS
<1>1. p \in Paths /\ DOMAIN p = 1 .. Len(p)
  BY PathsAre DEF PlacesArePaths, Paths
<1> QED BY <1>1, WalkAssumption DEF PlainPaths

LEMMA OnwardIsPlain ==
  ASSUME NEW p \in PlainPaths, NEW name \in Names, NEW links \in SUBSET Linkable
  PROVE  Onward(p, name, links) \in PlainPaths
<1>1. p \in Paths /\ Len(p) \in Nat
  BY DEF PlainPaths, Paths
<1>2. Climb(p, name) \in PlainPaths
  <2>0. Dot # DotDot
    BY DEF Dot, DotDot
  <2>1. CASE name = Dot
    BY <2>1, <2>0 DEF Climb
  <2>2. CASE name = DotDot /\ p # <<>>
    <3>1. Climb(p, name) = Front(p)
      BY <2>2, <2>0 DEF Climb
    <3> QED BY <1>1, <2>2, <3>1, FrontIs DEF PlainPaths
  <2>3. CASE name = DotDot /\ p = <<>>
    BY <2>0, <2>3 DEF Climb
  <2>4. CASE name \notin {Dot, DotDot}
    <3>1. Climb(p, name) = Append(p, name)
      BY <2>4 DEF Climb
    <3>2. Append(p, name) \in Paths /\ Len(Append(p, name)) = Len(p) + 1
          /\ \A i \in 1 .. Len(p) + 1 : Append(p, name)[i] = IF i <= Len(p) THEN p[i] ELSE name
      BY <1>1 DEF Paths
    <3>3. \A i \in 1 .. Len(p) + 1 : Append(p, name)[i] \notin {Dot, DotDot}
      <4> TAKE i \in 1 .. Len(p) + 1
      <4>1. i <= Len(p) => i \in 1 .. Len(p)
        BY <1>1
      <4> QED BY <2>4, <3>2, <4>1 DEF PlainPaths
    <3> QED BY <3>1, <3>2, <3>3 DEF PlainPaths
  <2> QED BY <2>1, <2>2, <2>3, <2>4
<1>3. \A q \in links : LinkTarget[q] \in PlainPaths
  BY WalkAssumption, PlacesArePlain
<1> QED BY <1>2, <1>3 DEF Onward

LEMMA ResolvedIsPlain ==
  ASSUME NEW p \in Paths, NEW links \in SUBSET Linkable
  PROVE  Resolve(p, links) \in PlainPaths
<1> DEFINE G == {n \in 0 .. Len(p) : Resolve(SubSeq(p, 1, n), links) \in PlainPaths}
<1>1. Len(p) \in Nat /\ \A i \in 1 .. Len(p) : p[i] \in Names
  BY DEF Paths
<1>2. <<>> \in PlainPaths
  BY DEF PlainPaths, Paths
<1>3. 0 \in G
  <2>1. Resolve(SubSeq(p, 1, 0), links) = <<>> /\ 0 \in 0 .. Len(p)
    BY <1>1, ResolveNameByName
  <2> QED BY <1>2, <2>1
<1>4. ASSUME NEW n \in 0 .. Len(p) - 1, n \in G PROVE n + 1 \in G
  <2>1. n + 1 \in 1 .. Len(p) /\ (n + 1) - 1 = n /\ n + 1 \in 0 .. Len(p)
    BY <1>1
  <2>2. Resolve(SubSeq(p, 1, n + 1), links) = Onward(Resolve(SubSeq(p, 1, n), links), p[n + 1], links)
    BY <2>1, ResolveNameByName
  <2> QED BY <1>1, <1>4, <2>1, <2>2, OnwardIsPlain
<1> HIDE DEF G
<1>5. Len(p) \in G
  <2>1. Len(p) \in 0 .. Len(p)
    BY <1>1
  <2> QED BY <1>1, <1>3, <1>4, <2>1, CountingUp
<1> QED BY <1>5, ResolveNameByName DEF G

(* A plain path with no link on it is its own normal form.                 *)
LEMMA PlainStays ==
  ASSUME NEW p \in PlainPaths, NEW links, \A n \in 1 .. Len(p) : SubSeq(p, 1, n) \notin links
  PROVE  Resolve(p, links) = p
<1> DEFINE G == {n \in 0 .. Len(p) : Resolve(SubSeq(p, 1, n), links) = SubSeq(p, 1, n)}
<1>1. p \in Paths /\ Len(p) \in Nat /\ \A i \in 1 .. Len(p) : p[i] \in Names
  BY DEF PlainPaths, Paths
<1>2. 0 \in G
  <2>1. SubSeq(p, 1, 0) = <<>> /\ 0 \in 0 .. Len(p)
    BY <1>1 DEF Paths
  <2>2. Resolve(SubSeq(p, 1, 0), links) = <<>>
    BY <1>1, ResolveNameByName
  <2> QED BY <2>1, <2>2
<1>3. ASSUME NEW n \in 0 .. Len(p) - 1, n \in G PROVE n + 1 \in G
  <2>1. n + 1 \in 1 .. Len(p) /\ (n + 1) - 1 = n /\ n + 1 \in 0 .. Len(p)
    BY <1>1
  <2>2. Resolve(SubSeq(p, 1, n + 1), links) = Onward(SubSeq(p, 1, n), p[n + 1], links)
    <3>1. Resolve(SubSeq(p, 1, n), links) = SubSeq(p, 1, n)
      BY <1>3
    <3>2. Resolve(SubSeq(p, 1, n + 1), links)
            = Onward(Resolve(SubSeq(p, 1, n), links), p[n + 1], links)
      BY <1>1, <2>1, ResolveNameByName
    <3> QED BY <3>1, <3>2
  <2>3. Append(SubSeq(p, 1, n), p[n + 1]) = SubSeq(p, 1, n + 1)
    BY <1>1, <2>1 DEF Paths
  <2>4. p[n + 1] \notin {Dot, DotDot}
    BY <2>1 DEF PlainPaths
  <2>5. Climb(SubSeq(p, 1, n), p[n + 1]) = SubSeq(p, 1, n + 1)
    BY <2>3, <2>4 DEF Climb
  <2> QED BY <2>1, <2>2, <2>5 DEF Onward
<1> HIDE DEF G
<1>4. Len(p) \in G
  <2>1. Len(p) \in 0 .. Len(p)
    BY <1>1
  <2> QED BY <1>1, <1>2, <1>3, <2>1, CountingUp
<1> QED BY <1>1, <1>4, ResolveNameByName DEF G

(* Where the lexical form meets no link, it is the canonical one.          *)
LEMMA LexicalIsCanonical ==
  ASSUME NEW p \in Paths, NEW links,
         \A n \in 1 .. Len(p) : Resolve(SubSeq(p, 1, n), {}) \notin links
  PROVE  Resolve(p, links) = Resolve(p, {})
<1> DEFINE G == {n \in 0 .. Len(p) : Resolve(SubSeq(p, 1, n), links) = Resolve(SubSeq(p, 1, n), {})}
<1>1. Len(p) \in Nat
  BY DEF Paths
<1>2. 0 \in G
  BY <1>1, ResolveNameByName
<1>3. ASSUME NEW n \in 0 .. Len(p) - 1, n \in G PROVE n + 1 \in G
  <2>1. n + 1 \in 1 .. Len(p) /\ (n + 1) - 1 = n /\ n + 1 \in 0 .. Len(p)
    BY <1>1
  <2>2. Resolve(SubSeq(p, 1, n + 1), {}) = Onward(Resolve(SubSeq(p, 1, n), {}), p[n + 1], {})
    BY <2>1, ResolveNameByName
  <2>3. Resolve(SubSeq(p, 1, n + 1), links) = Onward(Resolve(SubSeq(p, 1, n), {}), p[n + 1], links)
    BY <1>3, <2>1, ResolveNameByName
  <2>4. Resolve(SubSeq(p, 1, n + 1), {}) \notin links
    BY <2>1
  <2> QED BY <2>1, <2>2, <2>3, <2>4 DEF Onward
<1> HIDE DEF G
<1>4. Len(p) \in G
  <2>1. Len(p) \in 0 .. Len(p)
    BY <1>1
  <2> QED BY <1>1, <1>2, <1>3, <2>1, CountingUp
<1> QED BY <1>4, ResolveNameByName DEF G
-----------------------------------------------------------------------------
LEMMA PrefixesArePlaces ==
  ASSUME NEW p \in Places
  PROVE  \A n \in 0 .. Len(p) : SubSeq(p, 1, n) \in Places
<1> DEFINE G == {m \in 0 .. Len(p) : SubSeq(p, 1, Len(p) - m) \in Places}
<1>1. p \in Paths
  BY PathsAre DEF PlacesArePaths
<1>2. Len(p) \in Nat /\ SubSeq(p, 1, Len(p)) = p
  BY <1>1 DEF Paths
<1>3. 0 \in G
  <2>1. 0 \in 0 .. Len(p) /\ Len(p) - 0 = Len(p)
    BY <1>2
  <2> QED BY <1>2, <2>1
<1>4. ASSUME NEW m \in 0 .. Len(p) - 1, m \in G PROVE m + 1 \in G
  <2> DEFINE q == SubSeq(p, 1, Len(p) - m)
  <2>1. m + 1 \in 0 .. Len(p) /\ Len(p) - (m + 1) = (Len(p) - m) - 1
    BY <1>2
  <2>2. q \in Places /\ q \in Paths /\ Len(q) = Len(p) - m /\ Len(q) > 0
        /\ \A j \in 1 .. Len(q) : q[j] = p[j]
    BY <1>1, <1>2, <1>4 DEF Paths
  <2> HIDE DEF q
  <2>3. q # <<>>
    BY <2>2
  <2>4. Front(q) \in Places
    BY <2>2, <2>3, WalkAssumption
  <2>5. /\ Front(q) \in Paths /\ Len(Front(q)) = Len(q) - 1
        /\ \A j \in 1 .. Len(q) - 1 : Front(q)[j] = q[j]
    BY <2>2, <2>3, FrontIs
  <2> DEFINE r == SubSeq(p, 1, Len(p) - (m + 1))
  <2>6. r \in Paths /\ Len(r) = Len(p) - (m + 1) /\ \A j \in 1 .. Len(r) : r[j] = p[j]
    <3>1. PICK n \in 0 .. Len(p) : n = Len(p) - (m + 1)
      <4>1. Len(p) \in Nat /\ m + 1 \in 0 .. Len(p)
        BY <1>2, <2>1
      <4>2. Len(p) - (m + 1) \in 0 .. Len(p)
        BY ONLY <4>1
      <4> QED BY <4>2
    <3>2. SubSeq(p, 1, n) \in Paths /\ Len(SubSeq(p, 1, n)) = n
          /\ \A j \in 1 .. n : SubSeq(p, 1, n)[j] = p[j]
      BY <1>1, <1>2 DEF Paths
    <3> QED BY <3>1, <3>2
  <2> HIDE DEF r
  <2>7. Len(r) = Len(Front(q)) /\ \A j \in 1 .. Len(r) : r[j] = Front(q)[j]
    BY <1>2, <2>1, <2>2, <2>5, <2>6
  <2>8. r = Front(q)
    BY <2>5, <2>6, <2>7 DEF Paths
  <2> QED BY <2>1, <2>4, <2>8 DEF r
<1> HIDE DEF G
<1>5. \A m \in 0 .. Len(p) : m \in G
  BY <1>2, <1>3, <1>4, CountingUp
<1>6. ASSUME NEW n \in 0 .. Len(p) PROVE SubSeq(p, 1, n) \in Places
  <2>1. Len(p) - n \in 0 .. Len(p) /\ Len(p) - (Len(p) - n) = n
    BY <1>2
  <2>2. SubSeq(p, 1, Len(p) - (Len(p) - n)) \in Places
    BY <1>5, <2>1 DEF G
  <2> QED BY <2>1, <2>2
<1> QED BY <1>6

(* A place with directories above it is where its path says, and unless a  *)
(* link is there the path is in normal form.                               *)
Straight(p) == p \in Places /\ \A d \in Ancestors(p) : kind[d] = "dir"

LEMMA ShorterIsAncestor ==
  ASSUME NEW p \in Paths
  PROVE  /\ \A n \in 1 .. Len(p) : n # Len(p) => SubSeq(p, 1, n) \in Ancestors(p)
         /\ SubSeq(p, 1, Len(p)) = p
         /\ p # <<>> =>
              /\ Front(p) \in Ancestors(p)
              /\ \A n \in 1 .. Len(Front(p)) : SubSeq(Front(p), 1, n) \in Ancestors(p)
              /\ Ancestors(Front(p)) \subseteq Ancestors(p)
<1>1. Len(p) \in Nat /\ SubSeq(p, 1, Len(p)) = p
  BY DEF Paths
<1>2. \A n \in 1 .. Len(p) : n # Len(p) => n \in 0 .. Len(p) - 1
  <2>1. Len(p) \in Nat
    BY <1>1
  <2> QED BY ONLY <2>1
<1>3. ASSUME p # <<>>
      PROVE  /\ Front(p) \in Ancestors(p)
             /\ \A n \in 1 .. Len(Front(p)) : SubSeq(Front(p), 1, n) \in Ancestors(p)
             /\ Ancestors(Front(p)) \subseteq Ancestors(p)
  <2>1. /\ Front(p) \in Paths /\ Len(Front(p)) = Len(p) - 1 /\ Len(p) \in Nat \ {0}
        /\ \A i \in 1 .. Len(p) - 1 : Front(p)[i] = p[i]
    <3>1. Len(p) \in Nat \ {0}
      BY <1>3 DEF Paths
    <3> QED BY <1>3, <3>1, FrontIs
  <2>2. Front(p) \in Ancestors(p)
    <3>1. Len(p) - 1 \in 0 .. Len(p) - 1
      BY <2>1
    <3> QED BY <3>1 DEF Front, Ancestors
  <2>3. ASSUME NEW n \in 0 .. Len(p) - 1 PROVE SubSeq(Front(p), 1, n) = SubSeq(p, 1, n)
    <3> HIDE DEF Front
    <3>1. n \in Nat /\ n <= Len(p) /\ n <= Len(Front(p)) /\ \A i \in 1 .. n : i \in 1 .. Len(p) - 1
      BY <2>1
    <3>2. /\ SubSeq(p, 1, n) \in Paths /\ Len(SubSeq(p, 1, n)) = n
          /\ \A i \in 1 .. n : SubSeq(p, 1, n)[i] = p[i]
      BY <3>1 DEF Paths
    <3>3. /\ SubSeq(Front(p), 1, n) \in Paths /\ Len(SubSeq(Front(p), 1, n)) = n
          /\ \A i \in 1 .. n : SubSeq(Front(p), 1, n)[i] = Front(p)[i]
      BY <2>1, <3>1 DEF Paths
    <3> QED BY <2>1, <3>1, <3>2, <3>3 DEF Paths
  <2>4. \A n \in 1 .. Len(Front(p)) : n \in 0 .. Len(p) - 1
    BY <2>1
  <2>5. \A n \in 0 .. Len(Front(p)) - 1 : n \in 0 .. Len(p) - 1
    BY <2>1
  <2> QED BY <2>2, <2>3, <2>4, <2>5 DEF Ancestors
<1> QED BY <1>1, <1>2, <1>3 DEF Ancestors

LEMMA AppendLast ==
  ASSUME NEW p \in Paths, p # <<>>
  PROVE  Append(Front(p), Last(p)) = p
<1>1. /\ Len(p) \in Nat \ {0} /\ Front(p) \in Paths /\ Len(Front(p)) = Len(p) - 1
      /\ \A i \in 1 .. Len(p) - 1 : Front(p)[i] = p[i]
      /\ Last(p) = p[Len(p)] /\ Last(p) \in Names
  BY FrontIs, ChildIs DEF Paths
<1> DEFINE q == Append(Front(p), Last(p))
<1>2. /\ q \in Paths /\ Len(q) = Len(p)
      /\ \A i \in 1 .. Len(p) - 1 : q[i] = Front(p)[i]
      /\ q[Len(p)] = Last(p)
  BY <1>1 DEF Paths
<1> HIDE DEF q
<1>3. \A i \in 1 .. Len(p) : i \in 1 .. Len(p) - 1 \/ i = Len(p)
  BY <1>1
<1>4. q = p
  BY <1>1, <1>2, <1>3 DEF Paths
<1> QED BY <1>4 DEF q

LEMMA PlacesArePlainPaths == ASSUME NEW p \in Places PROVE p \in PlainPaths /\ p \in Paths
BY PlacesArePlain DEF PlainPaths

LEMMA StraightIs ==
  ASSUME NEW p, Straight(p)
  PROVE  /\ p \in PlainPaths /\ p \in Paths /\ At(p) = kind[p]
         /\ Place(p) = p /\ Lstat(p) = kind[p]
         /\ p # <<>> => Canonical(Front(p)) = Front(p)
         /\ kind[p] # "link" => Canonical(p) = p /\ Normalize(p) = p /\ Stat(p) = kind[p]
<1> DEFINE links == {q \in Linkable : IsLink(q)}
<1>1. p \in PlainPaths /\ p \in Paths /\ \A i \in 1 .. Len(p) : p[i] \notin {Dot, DotDot}
  BY PlacesArePlainPaths DEF Straight, PlainPaths
<1>2. At(p) = kind[p]
  BY DEF Straight, At
<1>3. \A q : IsLink(q) => kind[q] = "link"
  BY DEF IsLink, At
<1>4. \A d \in Ancestors(p) : d \notin links
  BY <1>3 DEF Straight
<1> HIDE DEF links
<1>5. ASSUME p # <<>> PROVE Canonical(Front(p)) = Front(p)
  <2>1. \A n \in 1 .. Len(Front(p)) : SubSeq(Front(p), 1, n) \notin links
    BY <1>1, <1>4, <1>5, ShorterIsAncestor
  <2>2. Front(p) \in PlainPaths
    <3>1. Front(p) \in Places
      BY <1>5, WalkAssumption DEF Straight
    <3> QED BY <3>1, PlacesArePlainPaths
  <2> QED BY <2>1, <2>2, PlainStays DEF Canonical, links
<1>6. Place(p) = p
  BY <1>1, <1>5, AppendLast DEF Place
<1>7. ASSUME kind[p] # "link" PROVE Canonical(p) = p /\ Normalize(p) = p /\ Stat(p) = kind[p]
  <2>1. p \notin links
    BY <1>3, <1>7 DEF links
  <2>2. \A n \in 1 .. Len(p) : SubSeq(p, 1, n) \notin links
    BY <1>1, <1>4, <2>1, ShorterIsAncestor
  <2>3. Canonical(p) = p
    BY <1>1, <2>2, PlainStays DEF Canonical, links
  <2>4. LexicallyNormal(p) = p
    BY <1>1, PlainStays DEF LexicallyNormal
  <2> QED BY <1>2, <2>3, <2>4 DEF Normalize, Stat
<1> QED BY <1>1, <1>2, <1>5, <1>6, <1>7 DEF Lstat

(* What nobody has touched is as it was.                                   *)
LEMMA UntouchedStays ==
  ASSUME TypeOK, [Next]_vars
  PROVE  /\ changed \subseteq changed' /\ broken \subseteq broken'
         /\ \A q \in Places : q \notin changed' => kind'[q] = kind[q]
<1>1. ASSUME NEW p \in Places, ChangeTree(p)
      PROVE  /\ changed \subseteq changed' /\ broken' = broken
             /\ \A q \in Places : q \notin changed' => kind'[q] = kind[q]
  <2>1. PICK k : kind' = [kind EXCEPT ![p] = k]
    BY <1>1 DEF ChangeTree
  <2>2. \A q \in Places : q # p => kind'[q] = kind[q]
    BY <2>1 DEF TypeOK
  <2> QED BY <1>1, <2>2 DEF ChangeTree
<1>2. CASE kind' = kind /\ changed' = changed /\ broken \subseteq broken'
  BY <1>2
<1>3. CASE ReadSortedChildren
  BY <1>2, <1>3, ReadingIs
<1> QED BY <1>1, <1>2, <1>3
     DEF Next, WalkStep, LoadExcludes, RootFails, RootIsSkipped, RootIsFile, RootIsDirectory,
         SkipChild, EnterChild, HandleFile, LeaveDirectory, EndWalk, history, vars

LEMMA AncestorsArePlaces == ASSUME NEW p \in Places PROVE Ancestors(p) \subseteq Places
<1>1. Len(p) \in Nat
  BY PathsAre DEF PlacesArePaths, Paths
<1>2. \A n \in 0 .. Len(p) - 1 : n \in 0 .. Len(p)
  BY <1>1
<1> QED BY <1>2, PrefixesArePlaces DEF Ancestors

LEMMA StraightWas ==
  ASSUME TypeOK, [Next]_vars, NEW p \in Places, Untouched(p)'
  PROVE  Untouched(p) /\ kind'[p] = kind[p] /\ (Straight(p)' <=> Straight(p))
<1>1. ({p} \cup Ancestors(p)) \cap changed' = {}
  BY DEF Untouched, Ancestors
<1>2. {p} \cup Ancestors(p) \subseteq Places
  BY AncestorsArePlaces
<1>3. \A q \in {p} \cup Ancestors(p) : q \notin changed /\ kind'[q] = kind[q]
  BY <1>1, <1>2, UntouchedStays
<1>4. Straight(p)' <=> \A d \in Ancestors(p) : kind'[d] = "dir"
  BY DEF Straight, Ancestors
<1> QED BY <1>3, <1>4 DEF Untouched, Straight
-----------------------------------------------------------------------------
(* Where the directories on the stack, and the files handed over, come     *)
(* from.                                                                   *)
LEMMA DirsStep ==
  ASSUME TypeOK, [Next]_vars, NEW i \in DOMAIN stack'
  PROVE  \/ \E j \in DOMAIN stack : stack'[i].dir = stack[j].dir
         \/ RootIsDirectory /\ stack'[i].dir = Root /\ ~ ShouldSkip(Root)
         \/ /\ stack # <<>>
            /\ \E c \in stack[1].children :
                 EnterChild(c) /\ stack'[i].dir = c.path /\ ~ ShouldSkip(c.path)
<1> DEFINE Known == \E j \in DOMAIN stack : stack'[i].dir = stack[j].dir
<1>1. ASSUME stack # <<>>, NEW c
      PROVE  /\ Without(stack, c) \in Seq(Frames)
             /\ \A k \in DOMAIN Without(stack, c) :
                  k \in DOMAIN stack /\ Without(stack, c)[k].dir = stack[k].dir
  <2>1. stack \in Seq(Frames)
    BY DEF TypeOK
  <2> QED BY <1>1, <2>1, WithoutIs
<1>2. CASE RootIsDirectory
  <2> DEFINE f == Entered(Root, resume_from # <<>>)
  <2>1. stack' = IF ShouldSkip(Root) THEN <<>> ELSE <<f>> \o <<>>
    BY <1>2, CallersAre DEF RootIsDirectory
  <2>2. f.dir = Root
    BY DEF Entered
  <2> HIDE DEF f
  <2>3. ~ ShouldSkip(Root) /\ stack'[i] = f
    BY <2>1
  <2> QED BY <1>2, <2>2, <2>3
<1>3. ASSUME stack # <<>>, NEW c \in stack[1].children, EnterChild(c)
      PROVE  Known \/ (stack'[i].dir = c.path /\ ~ ShouldSkip(c.path))
  <2> DEFINE f == Entered(c.path, Decide(c.path, stack[1].resuming) = "ContinueTowardResumePoint")
             old == Without(stack, c)
  <2>1. stack' = IF ShouldSkip(c.path) THEN old ELSE <<f>> \o old
    BY <1>3, CallersAre DEF EnterChild
  <2>2. f.dir = c.path /\ f \in Frames
    BY <1>3, ChildOfStack, EnteredIs
  <2>3. old \in Seq(Frames) /\ \A k \in DOMAIN old : k \in DOMAIN stack /\ old[k].dir = stack[k].dir
    BY <1>1, <1>3
  <2> HIDE DEF f, old
  <2>4. CASE ShouldSkip(c.path)
    BY <2>1, <2>3, <2>4
  <2>5. CASE ~ ShouldSkip(c.path)
    <3>1. stack'[i] = f \/ (i - 1 \in DOMAIN old /\ stack'[i] = old[i - 1])
      BY <2>1, <2>2, <2>3, <2>5
    <3> QED BY <2>2, <2>3, <2>5, <3>1
  <2> QED BY <2>4, <2>5
<1>4. ASSUME stack # <<>>, NEW c \in stack[1].children, SkipChild(c) \/ HandleFile(c)
      PROVE  Known
  BY <1>1, <1>4, CallersAre DEF SkipChild, HandleFile
<1>5. CASE LeaveDirectory
  <2>1. \A k \in DOMAIN Tail(stack) : k + 1 \in DOMAIN stack /\ Tail(stack)[k] = stack[k + 1]
    BY <1>5 DEF LeaveDirectory, TypeOK
  <2> QED BY <1>5, <2>1 DEF LeaveDirectory
<1>6. CASE ReadSortedChildren
  BY <1>6, ReadingIs, OpenedIs
<1>7. CASE stack' = stack
  BY <1>7
<1> QED BY <1>2, <1>3, <1>4, <1>5, <1>6, <1>7
     DEF Next, WalkStep, LoadExcludes, RootFails, RootIsSkipped, RootIsFile, EndWalk, ChangeTree, vars

LEMMA VisitedStep ==
  ASSUME TypeOK, [Next]_vars, NEW k \in DOMAIN visited'
  PROVE  \/ k \in DOMAIN visited /\ visited'[k] = visited[k]
         \/ RootIsFile /\ visited'[k] = Root
         \/ /\ stack # <<>>
            /\ \E c \in stack[1].children :
                 HandleFile(c) /\ visited'[k] = c.path /\ ~ ShouldSkip(c.path)
<1>1. CASE RootIsFile
  BY <1>1 DEF RootIsFile
<1>2. ASSUME stack # <<>>, NEW c \in stack[1].children, HandleFile(c)
      PROVE  \/ k \in DOMAIN visited /\ visited'[k] = visited[k]
             \/ HandleFile(c) /\ visited'[k] = c.path /\ ~ ShouldSkip(c.path)
  <2>1. visited' = Append(visited, c.path)
    BY <1>2 DEF HandleFile
  <2> QED BY <1>2, <2>1, VisitedIs DEF HandleFile, Passes
<1>3. CASE visited' = visited
  BY <1>3
<1> QED BY <1>1, <1>2, <1>3
     DEF Next, WalkStep, LoadExcludes, RootFails, RootIsSkipped, RootIsDirectory, SkipChild,
         ReadSortedChildren, EnterChild, LeaveDirectory, EndWalk, ChangeTree, vars

-----------------------------------------------------------------------------
(* No link lies between the scan root and a directory that the walk is in, *)
(* or a file that it has handed over, unless somebody touched the path.    *)
NoLinkOn(p) ==
  \A n \in Len(Root) + 1 .. Len(p) :
    Untouched(SubSeq(p, 1, n)) => ~ IsLink(SubSeq(p, 1, n))

LinksInv ==
  /\ \A i \in DOMAIN stack : NoLinkOn(stack[i].dir)
  /\ \A k \in DOMAIN visited : NoLinkOn(visited[k])

LEMMA NoLinkStays ==
  ASSUME TypeOK, [Next]_vars, NEW p, NoLinkOn(p)
  PROVE  NoLinkOn(p)'
<1> SUFFICES ASSUME NEW q, Untouched(q)', IsLink(q)' PROVE Untouched(q) /\ IsLink(q)
  BY DEF NoLinkOn
<1>1. q \in Places
  BY DEF IsLink, At
<1>2. kind'[q] = "link" /\ Straight(q)'
  <2>1. \A d \in Ancestors(q) : kind'[d] = "dir"
    BY <1>1 DEF IsLink, At, Ancestors
  <2>2. kind'[q] = "link"
    BY DEF IsLink, At, Ancestors
  <2> QED BY <1>1, <2>1, <2>2 DEF Straight, Ancestors
<1> QED BY <1>1, <1>2, StraightWas DEF IsLink, At, Straight

(* A check at the path itself adds what the check above it did not say.    *)
LEMMA CheckedHasNoLink ==
  ASSUME NEW p \in Paths, p # <<>>, NoLinkOn(Front(p)), ~ ShouldSkip(p)
  PROVE  NoLinkOn(p)
<1> SUFFICES ASSUME NEW n \in Len(Root) + 1 .. Len(p), Untouched(SubSeq(p, 1, n)), IsLink(SubSeq(p, 1, n))
             PROVE  FALSE
  BY DEF NoLinkOn
<1>0. Len(Root) \in Nat /\ Len(p) \in Nat
  BY PathsAre DEF PlacesArePaths, Paths
<1>1. /\ Len(Front(p)) = Len(p) - 1 /\ Front(p) \in Paths /\ SubSeq(p, 1, Len(p)) = p
      /\ \A i \in 1 .. Len(p) - 1 : Front(p)[i] = p[i]
  BY FrontIs, ShorterIsAncestor
<1>2. CASE n = Len(p)
  <2>1. IsLink(p)
    BY <1>1, <1>2
  <2>2. Straight(p) /\ kind[p] = "link"
    BY <2>1 DEF IsLink, At, Straight
  <2> QED BY <2>2, StraightIs DEF ShouldSkip
<1>3. CASE n # Len(p)
  <2>1. n \in Len(Root) + 1 .. Len(Front(p)) /\ n \in Nat /\ n <= Len(p) /\ n <= Len(Front(p))
        /\ \A i \in 1 .. n : i \in 1 .. Len(p) - 1
    BY <1>0, <1>1, <1>3
  <2>2. SubSeq(Front(p), 1, n) = SubSeq(p, 1, n)
    <3> HIDE DEF Front
    <3>1. /\ SubSeq(p, 1, n) \in Paths /\ Len(SubSeq(p, 1, n)) = n
          /\ \A i \in 1 .. n : SubSeq(p, 1, n)[i] = p[i]
      BY <2>1 DEF Paths
    <3>2. /\ SubSeq(Front(p), 1, n) \in Paths /\ Len(SubSeq(Front(p), 1, n)) = n
          /\ \A i \in 1 .. n : SubSeq(Front(p), 1, n)[i] = Front(p)[i]
      BY <1>1, <2>1 DEF Paths
    <3> QED BY <1>1, <2>1, <3>1, <3>2 DEF Paths
  <2> QED BY <2>1, <2>2 DEF NoLinkOn
<1> QED BY <1>2, <1>3

LEMMA RootHasNoLink == NoLinkOn(Root)
<1>1. Len(Root) \in Nat
  BY PathsAre DEF PlacesArePaths, Paths
<1>2. \A n \in Len(Root) + 1 .. Len(Root) : FALSE
  BY <1>1
<1> QED BY <1>2 DEF NoLinkOn

LEMMA LinksStep == TypeOK /\ OrderInv /\ LinksInv /\ [Next]_vars => LinksInv'
<1> SUFFICES ASSUME TypeOK, OrderInv, LinksInv, [Next]_vars PROVE LinksInv'
  OBVIOUS
<1>1. ASSUME stack # <<>>, NEW c \in stack[1].children, ~ ShouldSkip(c.path)
      PROVE  NoLinkOn(c.path)
  <2>1. c.path \in Paths /\ c.path # <<>> /\ Front(c.path) = stack[1].dir /\ 1 \in DOMAIN stack
    BY <1>1, ChildOfStack, ChildIsUnderRoot
  <2>2. NoLinkOn(stack[1].dir)
    BY <2>1 DEF LinksInv
  <2> QED BY <1>1, <2>1, <2>2, CheckedHasNoLink
<1>2. ASSUME NEW i \in DOMAIN stack' PROVE NoLinkOn(stack[i].dir)'
  <2>1. NoLinkOn(stack'[i].dir)
    BY <1>1, DirsStep, RootHasNoLink DEF LinksInv
  <2>2. PICK q : q = stack'[i].dir
    OBVIOUS
  <2>3. NoLinkOn(q)'
    BY <2>1, <2>2, NoLinkStays
  <2> QED BY <2>2, <2>3 DEF NoLinkOn
<1>3. ASSUME NEW k \in DOMAIN visited' PROVE NoLinkOn(visited[k])'
  <2>1. NoLinkOn(visited'[k])
    BY <1>1, VisitedStep, RootHasNoLink DEF LinksInv
  <2>2. PICK q : q = visited'[k]
    OBVIOUS
  <2>3. NoLinkOn(q)'
    BY <2>1, <2>2, NoLinkStays
  <2> QED BY <2>2, <2>3 DEF NoLinkOn
<1> QED BY <1>2, <1>3 DEF LinksInv

(* PathFilter::shouldSkip(): the walk hands over nothing from behind a     *)
(* symbolic link below the scan root, whatever else in the tree appears,   *)
(* goes or becomes a link; only what was touched during the walk on the    *)
(* path itself is beyond the check, which is not made again.               *)
THEOREM LinksAreSkipped == Spec => []LinksNotFollowed
<1>1. Init => LinksInv
  BY DEF Init, LinksInv
<1>2. LinksInv => LinksNotFollowed
  BY DEF LinksInv, NoLinkOn, LinksNotFollowed
<1> QED BY <1>1, <1>2, LinksStep, OrderInvariant, PTL DEF Spec
-----------------------------------------------------------------------------
(* Nothing excluded is handed over.  A rule that is taken word for word is *)
(* among the excluded paths, and if the scan root is, too, no directory    *)
(* that the walk is in lies at or below what the rule names.               *)
Clear(p) ==
  \A r \in Rules :
    Literal(r) /\ LexicallyNormal(r) # <<>> => ~ IsPrefix(LexicallyNormal(r), p)

ExcludedInv ==
  /\ excluded_paths \subseteq PlainPaths
  /\ status # "loading" => \A r \in Rules : Literal(r) => LexicallyNormal(r) \in excluded_paths
  /\ Literal(Root) =>
       /\ \A i \in DOMAIN stack : Clear(stack[i].dir)
       /\ \A k \in DOMAIN visited : Clear(visited[k])

LEMMA PrefixOfChild ==
  ASSUME NEW e \in Paths, NEW p \in Paths, p # <<>>, IsPrefix(e, p), e # p
  PROVE  IsPrefix(e, Front(p))
<1>1. Len(e) \in Nat /\ Len(p) \in Nat \ {0}
  BY DEF Paths
<1>2. Len(e) <= Len(p) /\ \A j \in 1 .. Len(e) : e[j] = p[j]
  BY PrefixIs
<1>3. Len(e) # Len(p)
  <2> SUFFICES ASSUME Len(e) = Len(p) PROVE FALSE
    OBVIOUS
  <2>1. e = p
    BY <1>2 DEF Paths
  <2> QED BY <2>1
<1>4. /\ Front(p) \in Paths /\ Len(Front(p)) = Len(p) - 1
      /\ \A j \in 1 .. Len(p) - 1 : Front(p)[j] = p[j]
  BY FrontIs
<1>5. Len(e) <= Len(Front(p)) /\ \A j \in 1 .. Len(e) : j \in 1 .. Len(p) - 1
  BY <1>1, <1>2, <1>3, <1>4
<1> QED BY <1>2, <1>4, <1>5, PrefixIs

LEMMA RulesArePaths == TypeOK => Rules \subseteq Paths
<1> SUFFICES ASSUME TypeOK, NEW p \in Rules PROVE p \in Paths
  OBVIOUS
<1>1. CASE p \in Defaults
  BY <1>1, WalkAssumption DEF Paths, Names
<1>2. CASE \E l \in exclude_file : l.is = "absolute" /\ p = l.path
  BY <1>2, WalkAssumption DEF TypeOK, Paths, Names
<1> QED BY <1>1, <1>2 DEF Rules

(* A rule that names no link is taken word for word.                       *)
LEMMA LiteralIs ==
  ASSUME NEW p \in Paths, Literal(p)
  PROVE  Normalize(p) = LexicallyNormal(p)
<1>1. \A q : IsLink(q) => q \in Places /\ kind[q] = "link"
  BY DEF IsLink, At
<1>2. \A n \in 1 .. Len(p) : Resolve(SubSeq(p, 1, n), {}) \notin {q \in Linkable : IsLink(q)}
  BY <1>1 DEF Literal, LexicallyNormal
<1>3. Canonical(p) = LexicallyNormal(p)
  BY <1>2, LexicalIsCanonical DEF Canonical, LexicallyNormal
<1> QED BY <1>3 DEF Normalize

LEMMA NormalizedIsPlain ==
  ASSUME NEW p \in Paths
  PROVE  Normalize(p) \in PlainPaths /\ LexicallyNormal(p) \in PlainPaths
<1>1. {q \in Linkable : IsLink(q)} \in SUBSET Linkable /\ {} \in SUBSET Linkable
  OBVIOUS
<1> QED BY <1>1, ResolvedIsPlain DEF Normalize, Canonical, LexicallyNormal

(* So is the path that it means.                                           *)
LEMMA LiteralFormIs ==
  ASSUME NEW p \in Paths, Literal(p), LexicallyNormal(p) # <<>>
  PROVE  Normalize(LexicallyNormal(p)) = LexicallyNormal(p)
<1> DEFINE l == LexicallyNormal(p)
           links == {q \in Linkable : IsLink(q)}
<1>1. l \in PlainPaths /\ l \in Paths
  BY NormalizedIsPlain DEF PlainPaths
<1>2. Len(p) \in 1 .. Len(p) /\ SubSeq(p, 1, Len(p)) = p
  <2>1. Len(p) \in Nat /\ SubSeq(p, 1, Len(p)) = p /\ SubSeq(p, 1, 0) = <<>>
    BY DEF Paths
  <2>2. Len(p) # 0
    <3> SUFFICES ASSUME Len(p) = 0 PROVE FALSE
      OBVIOUS
    <3>1. p = SubSeq(p, 1, 0)
      BY <2>1
    <3> QED BY <3>1, ResolveNameByName DEF LexicallyNormal
  <2> QED BY <2>1, <2>2
<1>3. \A d \in {l} \cup Ancestors(l) : d \in Places => kind[d] # "link"
  BY <1>2 DEF Literal
<1> HIDE DEF l
<1>4. \A d \in {l} \cup Ancestors(l) : d \notin links
  BY <1>3 DEF IsLink, At
<1> HIDE DEF links
<1>5. \A n \in 1 .. Len(l) : SubSeq(l, 1, n) \notin links
  BY <1>1, <1>4, ShorterIsAncestor
<1>6. Canonical(l) = l
  BY <1>1, <1>5, PlainStays DEF Canonical, links
<1>7. LexicallyNormal(l) = l
  BY <1>1, PlainStays DEF LexicallyNormal
<1>8. Normalize(l) = l
  BY <1>6, <1>7 DEF Normalize
<1> QED BY <1>8 DEF l

LEMMA LiteralWas ==
  ASSUME TypeOK, [Next]_vars, NEW p, Literal(p)'
  PROVE  Literal(p)
<1> SUFFICES ASSUME NEW n \in 1 .. Len(p),
                    NEW d \in {LexicallyNormal(SubSeq(p, 1, n))} \cup Ancestors(LexicallyNormal(SubSeq(p, 1, n)))
             PROVE  d \notin changed /\ (d \in Places => kind[d] # "link")
  BY DEF Literal
<1>1. d \notin changed' /\ (d \in Places => kind'[d] # "link")
  BY DEF Literal, LexicallyNormal, Ancestors
<1> QED BY <1>1, UntouchedStays

LEMMA RulesStay == TypeOK /\ [Next]_vars => Rules' = Rules
BY DEF Next, WalkStep, LoadExcludes, RootFails, RootIsSkipped, RootIsFile, RootIsDirectory,
       ReadSortedChildren, SkipChild, EnterChild, HandleFile, LeaveDirectory, EndWalk, ChangeTree,
       config, vars, Rules

LEMMA ClearStays ==
  ASSUME TypeOK, [Next]_vars, NEW p, Clear(p)
  PROVE  Clear(p)'
<1>1. \A r : LexicallyNormal(r)' = LexicallyNormal(r)
  BY DEF LexicallyNormal
<1>2. \A r \in Rules : Literal(r)' => Literal(r)
  BY LiteralWas
<1> QED BY <1>1, <1>2, RulesStay DEF Clear

(* A child of a clear directory that is not excluded itself is clear, and  *)
(* so is a root that is not excluded.                                      *)
LEMMA ChildIsClear ==
  ASSUME TypeOK, ExcludedInv, status # "loading",
         NEW p \in Paths, p # <<>>, Clear(Front(p)), ~ ShouldSkip(p)
  PROVE  Clear(p)
<1> SUFFICES ASSUME NEW r \in Rules, Literal(r), LexicallyNormal(r) # <<>>,
                    IsPrefix(LexicallyNormal(r), p)
             PROVE  FALSE
  BY DEF Clear
<1>1. r \in Paths /\ LexicallyNormal(r) \in Paths
  BY RulesArePaths, NormalizedIsPlain DEF PlainPaths
<1>2. ~ IsPrefix(LexicallyNormal(r), Front(p))
  BY DEF Clear
<1>3. LexicallyNormal(r) = p
  BY <1>1, <1>2, PrefixOfChild
<1>4. p \in excluded_paths
  BY <1>3 DEF ExcludedInv
<1>5. Normalize(p) = p
  BY <1>1, <1>3, LiteralFormIs
<1> QED BY <1>4, <1>5 DEF ShouldSkip

LEMMA RootIsClear ==
  ASSUME TypeOK, ExcludedInv, status # "loading", ~ RootIsExcluded, Literal(Root)
  PROVE  Clear(Root)
<1>1. Normalize(Root) = Root
  <2>1. Root \in PlainPaths /\ Root \in Paths
    BY PlacesArePlainPaths, WalkAssumption
  <2>2. LexicallyNormal(Root) = Root
    BY <2>1, PlainStays DEF LexicallyNormal
  <2> QED BY <2>1, <2>2, LiteralIs
<1>2. \A r \in Rules : Literal(r) => LexicallyNormal(r) \in excluded_paths
  BY DEF ExcludedInv
<1> QED BY <1>1, <1>2 DEF RootIsExcluded, Clear, IsStrictPrefix

LEMMA ExcludedStep == TypeOK /\ OrderInv /\ ExcludedInv /\ [Next]_vars => ExcludedInv'
<1> SUFFICES ASSUME TypeOK, OrderInv, ExcludedInv, [Next]_vars PROVE ExcludedInv'
  OBVIOUS
<1>1. Rules' = Rules /\ Rules \subseteq Paths
  BY RulesArePaths, RulesStay
<1>2. \A p : LexicallyNormal(p)' = LexicallyNormal(p)
  BY DEF LexicallyNormal
<1>3. CASE LoadExcludes
  <2>1. /\ excluded_paths' = {Normalize(p) : p \in Rules}
        /\ status = "loading" /\ stack' = stack /\ visited' = visited
    BY <1>3 DEF LoadExcludes
  <2>2. stack' = <<>> /\ visited' = <<>>
    BY <2>1 DEF OrderInv
  <2>3. excluded_paths' \subseteq PlainPaths
    BY <1>1, <2>1, NormalizedIsPlain
  <2>4. ASSUME NEW r \in Rules, Literal(r)' PROVE LexicallyNormal(r) \in excluded_paths'
    <3>1. Literal(r)
      BY <2>4, LiteralWas
    <3> QED BY <1>1, <2>1, <3>1, LiteralIs
  <2> QED BY <1>1, <1>2, <2>2, <2>3, <2>4 DEF ExcludedInv
<1>4. CASE ~ LoadExcludes
  <2>1. excluded_paths' = excluded_paths /\ (status = "loading" => status' = "loading")
    BY <1>4 DEF Next, WalkStep, RootFails, RootIsSkipped, RootIsFile, RootIsDirectory,
         ReadSortedChildren, SkipChild, EnterChild, HandleFile, LeaveDirectory, EndWalk, ChangeTree,
         AtChild, config, vars
  <2>2. ASSUME NEW r \in Rules, Literal(r)', status' # "loading"
        PROVE  LexicallyNormal(r) \in excluded_paths'
    BY <2>1, <2>2, LiteralWas DEF ExcludedInv
  <2>3. ASSUME Literal(Root), stack # <<>>, NEW c \in stack[1].children, ~ ShouldSkip(c.path)
        PROVE  Clear(c.path)
    <3>1. /\ c.path \in Paths /\ c.path # <<>> /\ Front(c.path) = stack[1].dir
          /\ 1 \in DOMAIN stack /\ status # "loading"
      BY <2>3, ChildOfStack, ChildIsUnderRoot DEF OrderInv
    <3>2. Clear(stack[1].dir)
      BY <2>3, <3>1 DEF ExcludedInv
    <3> QED BY <2>3, <3>1, <3>2, ChildIsClear
  <2>4. ASSUME Literal(Root), status = "ready", ~ RootIsExcluded PROVE Clear(Root)
    BY <2>4, RootIsClear
  <2>5. ASSUME Literal(Root)', NEW i \in DOMAIN stack' PROVE Clear(stack[i].dir)'
    <3>1. Literal(Root)
      BY <2>5, LiteralWas
    <3>2. RootIsDirectory => status = "ready" /\ ~ RootIsExcluded
      BY DEF RootIsDirectory
    <3>3. \A j \in DOMAIN stack : Clear(stack[j].dir)
      BY <3>1 DEF ExcludedInv
    <3>4. Clear(stack'[i].dir)
      BY <2>3, <2>4, <3>1, <3>2, <3>3, DirsStep
    <3>5. PICK q : q = stack'[i].dir
      OBVIOUS
    <3>6. Clear(q)'
      BY <3>4, <3>5, ClearStays
    <3> QED BY <3>5, <3>6 DEF Clear
  <2>6. ASSUME Literal(Root)', NEW k \in DOMAIN visited' PROVE Clear(visited[k])'
    <3>1. Literal(Root)
      BY <2>6, LiteralWas
    <3>2. RootIsFile => status = "ready" /\ ~ RootIsExcluded
      BY DEF RootIsFile
    <3>3. \A j \in DOMAIN visited : Clear(visited[j])
      BY <3>1 DEF ExcludedInv
    <3>4. Clear(visited'[k])
      BY <2>3, <2>4, <3>1, <3>2, <3>3, VisitedStep
    <3>5. PICK q : q = visited'[k]
      OBVIOUS
    <3>6. Clear(q)'
      BY <3>4, <3>5, ClearStays
    <3> QED BY <3>5, <3>6 DEF Clear
  <2> QED BY <1>1, <1>2, <2>1, <2>2, <2>5, <2>6 DEF ExcludedInv
<1> QED BY <1>3, <1>4

LEMMA ExcludedInvariant == Spec => []ExcludedInv
<1>1. Init => ExcludedInv
  BY DEF Init, ExcludedInv
<1> QED BY <1>1, ExcludedStep, OrderInvariant, PTL DEF Spec

(* ExcludeSet::load(), PathFilter::shouldSkip() and                        *)
(* isRootInsideExcludedPath(): nothing at or below an excluded path is     *)
(* handed over, although the filter of the walk compares whole paths only, *)
(* as long as neither the rule nor the scan root is about a link or was    *)
(* touched.                                                                *)
THEOREM ExcludedIsSkipped == Spec => []NothingExcluded
<1>1. TypeOK /\ OrderInv /\ ExcludedInv => NothingExcluded
  <2> SUFFICES ASSUME TypeOK, OrderInv, ExcludedInv PROVE NothingExcluded
    OBVIOUS
  <2>1. ASSUME NEW e \in excluded_paths PROVE Dot \notin ToSet(e) /\ DotDot \notin ToSet(e)
    <3>1. e \in PlainPaths /\ DOMAIN e = 1 .. Len(e)
      BY DEF ExcludedInv, PlainPaths, Paths
    <3> QED BY <3>1 DEF PlainPaths, ToSet
  <2>2. ASSUME NEW i \in DOMAIN visited, Literal(Root) PROVE Clear(visited[i])
    BY <2>2 DEF ExcludedInv
  <2> QED BY <2>1, <2>2 DEF NothingExcluded, Clear
<1> QED BY <1>1, ExcludedInvariant, OrderInvariant, PTL
-----------------------------------------------------------------------------
(* Nothing is left out.  A file that the walk owes has been handed over,   *)
(* or a child is still to be looked at, or a directory to be read, that is *)
(* it or lies above it; and what was read of a child is true unless it was *)
(* touched.                                                                *)
Owed(p) == Reachable(p) /\ ~ BeforePoint(p)
Handed(p) == \E k \in DOMAIN visited : visited[k] = p
Ahead(p) ==
  \E i \in DOMAIN stack :
    \/ \E c \in stack[i].children : IsPrefix(c.path, p)
    \/ ~ stack[i].read /\ IsPrefix(stack[i].dir, p) /\ stack[i].dir # p

ProgressInv ==
  /\ \A i \in DOMAIN stack : \A c \in stack[i].children :
       Straight(c.path) /\ Untouched(c.path) => c.kind = kind[c.path]
  /\ \A p \in Places : Owed(p) =>
       /\ status = "walking" => Handed(p) \/ Ahead(p)
       /\ status = "done" => Handed(p)

LEMMA PrefixIsAncestor ==
  ASSUME NEW q \in Paths, NEW p \in Paths, IsPrefix(q, p)
  PROVE  /\ q = SubSeq(p, 1, Len(q)) /\ Len(q) \in 0 .. Len(p)
         /\ q # p => Len(q) \in 0 .. Len(p) - 1 /\ q \in Ancestors(p)
         /\ Ancestors(q) \subseteq Ancestors(p)
<1>1. Len(q) \in Nat /\ Len(p) \in Nat /\ SubSeq(p, 1, Len(p)) = p /\ SubSeq(q, 1, Len(q)) = q
  BY DEF Paths
<1>2. Len(q) <= Len(p) /\ q = SubSeq(p, 1, Len(q)) /\ \A j \in 1 .. Len(q) : q[j] = p[j]
  BY <1>1, PrefixIs DEF IsPrefix
<1>3. ASSUME q # p PROVE Len(q) \in 0 .. Len(p) - 1
  <2>1. Len(q) # Len(p)
    BY <1>1, <1>2, <1>3
  <2>2. Len(q) \in Nat /\ Len(p) \in Nat /\ Len(q) <= Len(p)
    BY <1>1, <1>2
  <2> QED BY ONLY <2>1, <2>2
<1>4. ASSUME NEW n \in 0 .. Len(q) - 1 PROVE SubSeq(q, 1, n) \in Ancestors(p)
  <2>1. n \in 0 .. Len(p) - 1 /\ n \in 0 .. Len(q) /\ n \in 0 .. Len(p)
    BY <1>1, <1>2
  <2>2. /\ SubSeq(q, 1, n) \in Paths /\ Len(SubSeq(q, 1, n)) = n
        /\ \A j \in 1 .. n : SubSeq(q, 1, n)[j] = q[j]
    BY <1>1, <2>1 DEF Paths
  <2>3. /\ SubSeq(p, 1, n) \in Paths /\ Len(SubSeq(p, 1, n)) = n
        /\ \A j \in 1 .. n : SubSeq(p, 1, n)[j] = p[j]
    BY <1>1, <2>1 DEF Paths
  <2>4. \A j \in 1 .. n : j \in 1 .. Len(q)
    BY <1>1, <2>1
  <2>5. SubSeq(q, 1, n) = SubSeq(p, 1, n)
    BY <1>2, <2>2, <2>3, <2>4 DEF Paths
  <2> QED BY <2>1, <2>5 DEF Ancestors
<1>5. q # p => q \in Ancestors(p)
  BY <1>2, <1>3 DEF Ancestors
<1>6. Ancestors(q) \subseteq Ancestors(p)
  BY <1>4 DEF Ancestors
<1>7. Len(q) \in 0 .. Len(p)
  <2>1. Len(q) \in Nat /\ Len(p) \in Nat /\ Len(q) <= Len(p)
    BY <1>1, <1>2
  <2> QED BY ONLY <2>1
<1> QED BY <1>2, <1>3, <1>5, <1>6, <1>7

(* What lies on the way to a file that can be reached is as the walk needs *)
(* it.                                                                     *)
LEMMA OnTheWayToFile ==
  ASSUME NEW p \in Paths, Reachable(p), NEW q \in Paths, IsPrefix(q, p)
  PROVE  /\ q \in Places /\ Straight(q) /\ Untouched(q) /\ ~ ShouldSkip(q)
         /\ Normalize(q) = q /\ Stat(q) = kind[q]
         /\ q # p => q \in Ancestors(p)
         /\ IF q = p THEN kind[q] = "file" ELSE kind[q] = "dir"
<1>1. p \in Places /\ kind[p] = "file" /\ \A d \in Ancestors(p) : kind[d] = "dir"
  BY DEF Reachable, At
<1>2. (q # p => q \in Ancestors(p)) /\ Ancestors(q) \subseteq Ancestors(p)
  BY PrefixIsAncestor
<1>3. q \in Places
  BY <1>1, <1>2, AncestorsArePlaces
<1>4. Straight(q) /\ Untouched(q) /\ IF q = p THEN kind[q] = "file" ELSE kind[q] = "dir"
  BY <1>1, <1>2, <1>3 DEF Reachable, Straight, Untouched
<1>5. Normalize(q) = q /\ Stat(q) = kind[q] /\ Lstat(q) = kind[q]
  BY <1>4, StraightIs
<1>6. q \notin excluded_paths
  BY DEF Reachable
<1> QED BY <1>2, <1>3, <1>4, <1>5, <1>6 DEF ShouldSkip

LEMMA NextOnTheWay ==
  ASSUME NEW p \in Places, Reachable(p), NEW d \in Paths, IsPrefix(d, p), d # p
  PROVE  \E c \in Children(d) : IsPrefix(c.path, p)
<1> DEFINE m == Len(d) + 1
           q == SubSeq(p, 1, m)
<1>1. p \in Paths /\ d \in Paths /\ Len(p) \in Nat /\ Len(d) \in Nat
  BY PathsAre DEF PlacesArePaths, Paths
<1>a. Canonical(d) = d
  <2>1. Straight(d) /\ kind[d] = "dir"
    BY <1>1, OnTheWayToFile
  <2> QED BY <2>1, StraightIs
<1>2. d = SubSeq(p, 1, Len(d)) /\ Len(d) \in 0 .. Len(p) - 1
  BY <1>1, PrefixIsAncestor
<1>3. m \in 1 .. Len(p) /\ m \in 0 .. Len(p) /\ m - 1 = Len(d)
  BY <1>1, <1>2
<1> HIDE DEF m
<1>4. q \in Paths /\ Len(q) = m /\ \A j \in 1 .. m : q[j] = p[j]
  BY <1>1, <1>3 DEF Paths
<1>5. q \in Places
  BY <1>3, PrefixesArePlaces
<1>6. q # <<>>
  BY <1>3, <1>4
<1>7. IsPrefix(q, p)
  <2>1. Len(q) <= Len(p) /\ \A j \in 1 .. Len(q) : q[j] = p[j]
    BY <1>3, <1>4
  <2> HIDE DEF q
  <2> QED BY <1>1, <1>4, <2>1, PrefixIs
<1>8. Front(q) = d
  <2> HIDE DEF q
  <2>1. /\ Front(q) \in Paths /\ Len(Front(q)) = Len(q) - 1
        /\ \A j \in 1 .. Len(q) - 1 : Front(q)[j] = q[j]
    BY <1>4, <1>6, FrontIs
  <2>2. \A j \in 1 .. Len(d) : d[j] = p[j]
    BY <1>1, PrefixIs
  <2>3. Len(Front(q)) = Len(d) /\ \A j \in 1 .. Len(d) : j \in 1 .. m /\ Front(q)[j] = d[j]
    BY <1>1, <1>3, <1>4, <2>1, <2>2
  <2> QED BY <1>1, <2>1, <2>3 DEF Paths
<1> HIDE DEF q
<1>9. At(q) # "absent"
  <2>1. Straight(q) /\ kind[q] \in {"file", "dir"}
    BY <1>1, <1>4, <1>7, OnTheWayToFile
  <2> QED BY <2>1, StraightIs
<1>10. [path |-> Append(d, Last(q)), kind |-> kind[q]] \in Children(d)
  BY <1>5, <1>6, <1>8, <1>9, <1>a DEF Children
<1>11. Append(d, Last(q)) = q
  BY <1>4, <1>6, <1>8, AppendLast
<1> QED BY <1>7, <1>10, <1>11

(* What the filter skips lies before the resume point, with all below it.  *)
LEMMA SkippedIsBefore ==
  ASSUME TypeOK, NEW d \in Paths, Within(d), NEW q \in Paths, q # <<>>, Front(q) = d,
         NEW resuming \in BOOLEAN, resuming => LeadsToPoint(d),
         Decide(q, resuming) = "SkipEntry", NEW p \in Paths, IsPrefix(q, p)
  PROVE  BeforePoint(p)
<1> DEFINE depth == Len(q) - Len(Root)
           r == Relative(p)
<1>1. /\ Len(q) = Len(d) + 1 /\ Under(d, q) /\ Last(q) = q[Len(q)]
  BY ChildIs
<1>2. /\ Len(Root) \in Nat /\ Len(d) \in Nat /\ Len(q) \in Nat /\ Len(p) \in Nat
      /\ Len(Root) <= Len(d) /\ resume_from \in Paths /\ Len(resume_from) \in Nat
  BY PathsAre DEF PlacesArePaths, Paths, Within, TypeOK
<1>3. Len(q) <= Len(p) /\ \A j \in 1 .. Len(q) : q[j] = p[j]
  BY PrefixIs
<1>4. Len(Relative(q)) = Len(q) - Len(Root)
  BY <1>1, <1>2, RelativeIs DEF Within
<1>5. /\ r \in Paths /\ Len(r) = Len(p) - Len(Root)
      /\ \A j \in 1 .. Len(r) : r[j] = p[Len(Root) + j]
  BY <1>1, <1>2, <1>3, RelativeIs DEF Within
<1>6. resuming /\ depth <= Len(resume_from) /\ NameLess(Last(q), resume_from[depth])
  BY <1>4 DEF Decide
<1>7. /\ depth \in 1 .. Len(resume_from) /\ depth \in 1 .. Len(r) /\ Len(Root) + depth = Len(q)
      /\ depth \in Nat /\ Len(d) - Len(Root) = depth - 1
  <2>1. depth <= Len(resume_from)
    BY <1>6
  <2>2. depth \in Nat /\ depth >= 1
    BY <1>1, <1>2
  <2> QED BY <1>1, <1>2, <1>3, <1>5, <2>1, <2>2
<1>8. \A j \in 1 .. depth - 1 : d[Len(Root) + j] = resume_from[j]
  BY <1>6, <1>7 DEF LeadsToPoint
<1> HIDE DEF depth, r
<1>9. \A j \in 1 .. depth : j \in 1 .. Len(r) /\ Len(Root) + j \in 1 .. Len(q)
  BY <1>2, <1>5, <1>7
<1>10. \A j \in 1 .. depth : r[j] = q[Len(Root) + j]
  BY <1>3, <1>5, <1>9
<1>11. ASSUME NEW j \in 1 .. depth - 1 PROVE r[j] = resume_from[j]
  <2>1. j \in 1 .. depth /\ Len(Root) + j \in 1 .. Len(d)
    BY <1>1, <1>2, <1>7
  <2>2. q[Len(Root) + j] = d[Len(Root) + j]
    BY <1>1, <2>1 DEF Under
  <2> QED BY <1>8, <1>10, <2>1, <2>2
<1>12. NameLess(r[depth], resume_from[depth])
  <2>1. depth \in 1 .. depth
    BY <1>7
  <2>2. r[depth] = q[Len(q)]
    BY <1>7, <1>10, <2>1
  <2> QED BY <1>1, <1>6, <2>2
<1>13. SubSeq(r, 1, depth - 1) = SubSeq(resume_from, 1, depth - 1)
  BY <1>2, <1>5, <1>7, <1>11 DEF Paths
<1>14. depth \in DOMAIN r \cap DOMAIN resume_from
  BY <1>2, <1>5, <1>7 DEF Paths
<1>15. LexLess(NameLess, r, resume_from)
  BY <1>12, <1>13, <1>14 DEF LexLess
<1>16. r # <<>>
  BY <1>5, <1>7
<1> QED BY <1>15, <1>16 DEF BeforePoint, WalkedBefore, r

(* A child on the way to a file that the walk owes passes all checks.      *)
LEMMA AheadPasses ==
  ASSUME TypeOK, OrderInv, PointInv, ProgressInv, stack # <<>>, NEW c \in stack[1].children,
         NEW p \in Places, Owed(p), IsPrefix(c.path, p)
  PROVE  /\ Passes(c) /\ ~ ShouldSkip(c.path)
         /\ c.kind = kind[c.path] /\ Stat(c.path) = kind[c.path]
         /\ IF c.path = p THEN kind[c.path] = "file" ELSE kind[c.path] = "dir"
<1>1. /\ 1 \in DOMAIN stack /\ c.path \in Paths /\ c.path # <<>>
      /\ stack[1].dir \in Paths /\ stack[1].resuming \in BOOLEAN
  BY ChildOfStack, ChildIsUnderRoot
<1>2. /\ Straight(c.path) /\ Untouched(c.path) /\ ~ ShouldSkip(c.path) /\ Stat(c.path) = kind[c.path]
      /\ IF c.path = p THEN kind[c.path] = "file" ELSE kind[c.path] = "dir"
  BY <1>1, PlacesArePlainPaths, OnTheWayToFile DEF Owed
<1>3. c.kind = kind[c.path]
  BY <1>1, <1>2 DEF ProgressInv
<1>4. Front(c.path) = stack[1].dir /\ (stack[1].dir = Root \/ Under(Root, stack[1].dir))
  BY ChildIsUnderRoot
<1>5. Within(stack[1].dir)
  <2>1. Len(Root) \in Nat /\ Len(stack[1].dir) \in Nat
    BY <1>1, PathsAre DEF PlacesArePaths, Paths
  <2> QED BY <1>4, <2>1 DEF Within, Under
<1>6. stack[1].resuming => LeadsToPoint(stack[1].dir)
  BY <1>1 DEF PointInv, OnTheWay
<1>7. p \in Paths /\ ~ BeforePoint(p)
  BY PathsAre DEF PlacesArePaths, Owed
<1>8. Decide(c.path, stack[1].resuming) # "SkipEntry"
  BY <1>1, <1>4, <1>5, <1>6, <1>7, SkippedIsBefore
<1> QED BY <1>1, <1>2, <1>3, <1>8 DEF Passes

LEMMA OwedWas ==
  ASSUME TypeOK, [Next]_vars, ~ LoadExcludes, NEW p \in Places, Owed(p)'
  PROVE  Owed(p)
<1>1. excluded_paths' = excluded_paths /\ resume_from' = resume_from
  BY DEF Next, WalkStep, RootFails, RootIsSkipped, RootIsFile, RootIsDirectory, ReadSortedChildren,
         SkipChild, EnterChild, HandleFile, LeaveDirectory, EndWalk, ChangeTree, config, vars
<1>2. /\ At(p)' = "file" /\ IsPrefix(Root, p) /\ Untouched(p)'
      /\ Ancestors(p) \cap broken' = {}
      /\ \A e \in excluded_paths' : ~ IsPrefix(e, p)
  BY DEF Owed, Reachable, Ancestors
<1>3. kind'[p] = "file" /\ Straight(p)'
  BY <1>2 DEF At, Straight, Ancestors
<1>4. Untouched(p) /\ Straight(p) /\ kind[p] = "file"
  BY <1>2, <1>3, StraightWas
<1>5. Ancestors(p) \cap broken = {}
  BY <1>2, UntouchedStays
<1>6. Reachable(p)
  BY <1>1, <1>2, <1>4, <1>5 DEF Reachable, At, Straight
<1> QED BY <1>1, <1>6 DEF Owed, BeforePoint

LEMMA WithoutLeaves ==
  ASSUME NEW st \in Seq(Frames), st # <<>>, NEW c, NEW i \in DOMAIN st, NEW d \in st[i].children,
         i # 1 \/ d # c
  PROVE  d \in Without(st, c)[i].children
<1> DEFINE top == [st[1] EXCEPT !.children = @ \ {c}]
<1>1. st[1] \in Frames /\ 1 \in DOMAIN st
  OBVIOUS
<1>2. top \in Frames /\ top.children = st[1].children \ {c}
  BY <1>1 DEF Frames
<1> HIDE DEF top
<1>3. /\ (<< top >> \o Tail(st))[1] = top /\ DOMAIN (<< top >> \o Tail(st)) = DOMAIN st
      /\ i # 1 => (<< top >> \o Tail(st))[i] = st[i]
  BY <1>1, <1>2
<1>4. Without(st, c) = << top >> \o Tail(st)
  BY DEF Without, top
<1> QED BY <1>2, <1>3, <1>4

(* What a reading finds is true of what nobody has touched.                *)
LEMMA ReadingIsTrue ==
  ASSUME TypeOK, NEW d \in Below, NEW c \in Children(d), Straight(c.path)
  PROVE  c.kind = kind[c.path]
<1>1. PICK q \in Places \ {<<>>} : Front(q) = Canonical(d) /\ c = [path |-> Append(d, Last(q)), kind |-> kind[q]]
  BY DEF Children
<1>2. c.path \in Paths /\ c.path # <<>> /\ Front(c.path) = d /\ c.path \in Places
  <2>1. c.path \in Places
    BY DEF Straight
  <2> QED BY <2>1, ChildrenAre, PlacesArePlainPaths
<1>3. Canonical(d) = d
  BY <1>2, StraightIs
<1>4. q \in Paths /\ Append(Front(q), Last(q)) = q
  BY <1>1, AppendLast, PlacesArePlainPaths
<1>5. c.path = q
  BY <1>1, <1>3, <1>4
<1> QED BY <1>1, <1>5

LEMMA ChildrenStep ==
  ASSUME TypeOK, [Next]_vars, NEW i \in DOMAIN stack', NEW d \in stack'[i].children
  PROVE  \/ \E j \in DOMAIN stack : d \in stack[j].children
         \/ kind' = kind /\ changed' = changed /\ (Straight(d.path) => d.kind = kind[d.path])
<1> DEFINE Known == \E j \in DOMAIN stack : d \in stack[j].children
<1>1. ASSUME stack # <<>>, NEW c
      PROVE  /\ Without(stack, c) \in Seq(Frames)
             /\ \A k \in DOMAIN Without(stack, c) :
                  k \in DOMAIN stack /\ Without(stack, c)[k].children \subseteq stack[k].children
  <2>1. stack \in Seq(Frames)
    BY DEF TypeOK
  <2> QED BY <1>1, <2>1, WithoutIs
<1>2. CASE RootIsDirectory
  <2> DEFINE f == Entered(Root, resume_from # <<>>)
  <2>1. stack' = <<>> \/ stack' = <<f>> \o <<>>
    BY <1>2, CallersAre DEF RootIsDirectory
  <2>2. f.children = {}
    BY DEF Entered
  <2> HIDE DEF f
  <2>3. stack'[i] = f
    BY <2>1
  <2> QED BY <2>2, <2>3
<1>3. ASSUME stack # <<>>, NEW c \in stack[1].children, EnterChild(c) PROVE Known
  <2> DEFINE f == Entered(c.path, Decide(c.path, stack[1].resuming) = "ContinueTowardResumePoint")
             old == Without(stack, c)
  <2>1. stack' = old \/ stack' = <<f>> \o old
    BY <1>3, CallersAre DEF EnterChild
  <2>2. f.children = {} /\ f \in Frames
    BY <1>3, ChildOfStack, EnteredIs
  <2>3. /\ old \in Seq(Frames)
        /\ \A k \in DOMAIN old : k \in DOMAIN stack /\ old[k].children \subseteq stack[k].children
    BY <1>1, <1>3
  <2> HIDE DEF f, old
  <2>4. \/ stack'[i] = f
        \/ i \in DOMAIN old /\ stack'[i] = old[i]
        \/ i - 1 \in DOMAIN old /\ stack'[i] = old[i - 1]
    BY <2>1, <2>2, <2>3
  <2> QED BY <2>2, <2>3, <2>4
<1>4. ASSUME stack # <<>>, NEW c \in stack[1].children, SkipChild(c) \/ HandleFile(c)
      PROVE  Known
  BY <1>1, <1>4, CallersAre DEF SkipChild, HandleFile
<1>5. CASE LeaveDirectory
  <2>1. \A k \in DOMAIN Tail(stack) : k + 1 \in DOMAIN stack /\ Tail(stack)[k] = stack[k + 1]
    BY <1>5 DEF LeaveDirectory, TypeOK
  <2> QED BY <1>5, <2>1 DEF LeaveDirectory
<1>6. CASE ReadSortedChildren
  <2>1. /\ stack \in Seq(Frames) /\ stack # <<>> /\ stack[1].dir \in Below
        /\ kind' = kind /\ changed' = changed
    BY <1>6, ReadingIs
  <2>2. PICK some \in SUBSET Children(stack[1].dir) : some \in SUBSET Entries /\ stack' = Opened(stack, some)
    BY <1>6, ReadingIs
  <2>3. i \in DOMAIN stack /\ IF i = 1 THEN stack'[i].children = some ELSE stack'[i] = stack[i]
    BY <2>1, <2>2, OpenedIs
  <2>4. CASE i = 1
    BY <2>1, <2>2, <2>3, <2>4, ReadingIsTrue
  <2>5. CASE i # 1
    BY <2>3, <2>5
  <2> QED BY <2>4, <2>5
<1>7. CASE stack' = stack
  BY <1>7
<1> QED BY <1>2, <1>3, <1>4, <1>5, <1>6, <1>7
     DEF Next, WalkStep, LoadExcludes, RootFails, RootIsSkipped, RootIsFile, EndWalk, ChangeTree, vars

(* The first step of walk(), for a file that it owes.                      *)
LEMMA RootStep ==
  ASSUME TypeOK, ExcludedInv, NEW p \in Places, Owed(p)
  PROVE  /\ ~ RootIsSkipped
         /\ RootIsFile => Handed(p)'
         /\ RootIsDirectory => Ahead(p)'
<1>1. Reachable(p) /\ IsPrefix(Root, p) /\ Root \in Paths /\ p \in Paths
  BY RootIsBelow DEF Owed, Reachable, Below
<1>2. /\ Normalize(Root) = Root /\ ~ ShouldSkip(Root) /\ Stat(Root) = kind[Root]
      /\ IF Root = p THEN kind[Root] = "file" ELSE kind[Root] = "dir"
  BY <1>1, OnTheWayToFile
<1>3. ~ RootIsSkipped
  <2> SUFFICES ASSUME RootIsExcluded PROVE FALSE
    BY DEF RootIsSkipped
  <2>1. PICK e \in excluded_paths : e = Root \/ IsPrefix(e, Root)
    BY <1>2 DEF RootIsExcluded, IsStrictPrefix
  <2>2. e \in Paths
    BY DEF ExcludedInv, PlainPaths
  <2>3. IsPrefix(e, p)
    <3>1. Len(e) \in Nat /\ Len(Root) \in Nat /\ Len(p) \in Nat
      BY <1>1, <2>2 DEF Paths
    <3>2. Len(Root) <= Len(p) /\ \A j \in 1 .. Len(Root) : Root[j] = p[j]
      BY <1>1, PrefixIs
    <3>3. Len(e) <= Len(Root) /\ \A j \in 1 .. Len(e) : e[j] = Root[j]
      BY <1>1, <2>1, <2>2, <3>1, PrefixIs
    <3>4. Len(e) <= Len(p) /\ \A j \in 1 .. Len(e) : e[j] = p[j]
      BY <3>1, <3>2, <3>3
    <3> QED BY <1>1, <2>2, <3>4, PrefixIs
  <2> QED BY <1>1, <2>3 DEF Reachable
<1>4. ASSUME RootIsFile PROVE Handed(p)'
  <2>1. visited' = <<Root>> /\ Root = p
    BY <1>2, <1>4 DEF RootIsFile
  <2> QED BY <2>1 DEF Handed
<1>5. ASSUME RootIsDirectory PROVE Ahead(p)'
  <2> DEFINE f == Entered(Root, resume_from # <<>>)
  <2>1. Root # p
    BY <1>2, <1>5 DEF RootIsDirectory
  <2>2. stack' = <<f>> \o <<>>
    BY <1>2, <1>5, CallersAre DEF RootIsDirectory
  <2>3. f.dir = Root /\ ~ f.read
    BY DEF Entered
  <2> HIDE DEF f
  <2>4. 1 \in DOMAIN stack' /\ stack'[1] = f
    BY <2>2
  <2> QED BY <1>1, <2>1, <2>3, <2>4 DEF Ahead
<1> QED BY <1>3, <1>4, <1>5

(* The reading of a directory, for a file that the walk owes after it.     *)
LEMMA ReadStep ==
  ASSUME TypeOK, OrderInv, ReadSortedChildren, NEW p \in Places, Owed(p)', Owed(p), Ahead(p)
  PROVE  Ahead(p)'
<1>1. /\ stack \in Seq(Frames) /\ stack # <<>> /\ 1 \in DOMAIN stack /\ ~ stack[1].read
      /\ stack[1].dir \in Below /\ stack[1].dir \in Paths
  BY ReadingIs DEF Below
<1>2. PICK some \in SUBSET Children(stack[1].dir) :
        /\ some \in SUBSET Entries /\ stack' = Opened(stack, some)
        /\ some # Children(stack[1].dir) => stack[1].dir \in broken'
  BY ReadingIs
<1>3. /\ DOMAIN stack' = DOMAIN stack
      /\ \A j \in DOMAIN stack : IF j = 1 THEN stack'[j].children = some ELSE stack'[j] = stack[j]
  BY <1>1, <1>2, OpenedIs
<1>4. stack[1].children = {}
  BY <1>1 DEF OrderInv, StackInv
<1>5. PICK i \in DOMAIN stack :
        \/ \E c \in stack[i].children : IsPrefix(c.path, p)
        \/ ~ stack[i].read /\ IsPrefix(stack[i].dir, p) /\ stack[i].dir # p
  BY DEF Ahead
<1>6. CASE i # 1
  BY <1>3, <1>5, <1>6 DEF Ahead
<1>7. CASE i = 1
  <2>1. IsPrefix(stack[1].dir, p) /\ stack[1].dir # p
    BY <1>4, <1>5, <1>7
  <2>2. Reachable(p) /\ p \in Paths /\ Ancestors(p) \cap broken' = {}
    BY PlacesArePlainPaths DEF Owed, Reachable, Ancestors
  <2>3. stack[1].dir \in Ancestors(p)
    BY <1>1, <2>1, <2>2, PrefixIsAncestor
  <2>4. some = Children(stack[1].dir)
    BY <1>2, <2>2, <2>3
  <2>5. \E c \in some : IsPrefix(c.path, p)
    BY <1>1, <2>1, <2>2, <2>4, NextOnTheWay
  <2> QED BY <1>1, <1>3, <2>5 DEF Ahead
<1> QED BY <1>6, <1>7

(* A step of the loop of walkDirectory, for a file that the walk owes.     *)
LEMMA ChildStep ==
  ASSUME TypeOK, OrderInv, PointInv, ProgressInv, stack # <<>>, NEW c \in stack[1].children,
         SkipChild(c) \/ EnterChild(c) \/ HandleFile(c),
         NEW p \in Places, Owed(p), Handed(p) \/ Ahead(p)
  PROVE  (Handed(p) \/ Ahead(p))'
<1> DEFINE old == Without(stack, c)
<1>1. /\ stack \in Seq(Frames) /\ old \in Seq(Frames) /\ visited \in Seq(Below)
      /\ DOMAIN old = DOMAIN stack
  BY WithoutIs DEF TypeOK
<1>2. CASE Handed(p)
  <2>1. PICK k \in DOMAIN visited : visited[k] = p
    BY <1>2 DEF Handed
  <2>2. \A q : k \in DOMAIN Append(visited, q) /\ Append(visited, q)[k] = visited[k]
    BY <1>1
  <2>3. k \in DOMAIN visited' /\ visited'[k] = p
    BY <2>1, <2>2 DEF SkipChild, EnterChild, HandleFile
  <2> QED BY <2>3 DEF Handed
<1>3. CASE Ahead(p) /\ ~ IsPrefix(c.path, p)
  <2>1. PICK i \in DOMAIN stack :
          \/ \E d \in stack[i].children : IsPrefix(d.path, p)
          \/ ~ stack[i].read /\ IsPrefix(stack[i].dir, p) /\ stack[i].dir # p
    BY <1>3 DEF Ahead
  <2>2. stack[i].read
    <3>1. 1 \in DOMAIN stack /\ StackInv(stack, visited)
      BY <1>1 DEF OrderInv
    <3> QED BY <3>1 DEF StackInv
  <2>3. PICK d \in stack[i].children : IsPrefix(d.path, p)
    BY <2>1, <2>2
  <2>4. i \in DOMAIN old /\ d \in old[i].children
    <3>1. d # c
      BY <1>3, <2>3
    <3> QED BY <1>1, <3>1, WithoutLeaves
  <2>5. stack' = old \/ \E f \in Frames : stack' = <<f>> \o old
    <3> DEFINE f == Entered(c.path, Decide(c.path, stack[1].resuming) = "ContinueTowardResumePoint")
    <3>1. f \in Frames
      BY ChildOfStack, EnteredIs
    <3>2. stack' = old \/ stack' = <<f>> \o old
      BY CallersAre DEF SkipChild, EnterChild, HandleFile
    <3> QED BY <3>1, <3>2
  <2>6. ASSUME NEW f \in Frames, stack' = <<f>> \o old PROVE Ahead(p)'
    <3> HIDE DEF old
    <3>1. i + 1 \in DOMAIN stack' /\ stack'[i + 1] = old[i]
      BY <1>1, <2>4, <2>6
    <3> QED BY <2>3, <2>4, <3>1 DEF Ahead
  <2>7. ASSUME stack' = old PROVE Ahead(p)'
    <3> HIDE DEF old
    <3> QED BY <2>3, <2>4, <2>7 DEF Ahead
  <2> QED BY <2>5, <2>6, <2>7
<1>4. CASE IsPrefix(c.path, p)
  <2>1. /\ Passes(c) /\ ~ ShouldSkip(c.path)
        /\ c.kind = kind[c.path] /\ Stat(c.path) = kind[c.path]
        /\ IF c.path = p THEN kind[c.path] = "file" ELSE kind[c.path] = "dir"
    BY <1>4, AheadPasses
  <2>2. Type(c) = kind[c.path]
    BY <2>1 DEF Type
  <2>3. CASE c.path = p
    <3>1. HandleFile(c)
      BY <2>1, <2>2, <2>3 DEF SkipChild, EnterChild, HasInfo
    <3>2. visited' = Append(visited, p)
      BY <2>3, <3>1 DEF HandleFile
    <3>3. Len(visited) + 1 \in DOMAIN Append(visited, p) /\ Append(visited, p)[Len(visited) + 1] = p
      BY <1>1
    <3> QED BY <3>2, <3>3 DEF Handed
  <2>4. CASE c.path # p
    <3>1. EnterChild(c)
      BY <2>1, <2>2, <2>4 DEF SkipChild, HandleFile
    <3> DEFINE f == Entered(c.path, Decide(c.path, stack[1].resuming) = "ContinueTowardResumePoint")
    <3>2. f \in Frames /\ f.dir = c.path /\ ~ f.read
      BY ChildOfStack, EnteredIs
    <3>3. stack' = <<f>> \o old
      BY <2>1, <3>1, CallersAre DEF EnterChild
    <3> HIDE DEF f, old
    <3>4. 1 \in DOMAIN stack' /\ stack'[1] = f
      BY <1>1, <3>2, <3>3
    <3> QED BY <1>4, <2>4, <3>2, <3>4 DEF Ahead
  <2> QED BY <2>3, <2>4
<1> QED BY <1>2, <1>3, <1>4

LEMMA ProgressStep ==
  TypeOK /\ OrderInv /\ PointInv /\ ExcludedInv /\ ProgressInv /\ [Next]_vars => ProgressInv'
<1> SUFFICES ASSUME TypeOK, OrderInv, PointInv, ExcludedInv, ProgressInv, [Next]_vars
             PROVE  ProgressInv'
  OBVIOUS
<1>1. ASSUME NEW i \in DOMAIN stack', NEW c \in stack'[i].children,
             Straight(c.path)', Untouched(c.path)'
      PROVE  c.kind = kind'[c.path]
  <2>1. PICK q : q = c.path
    OBVIOUS
  <2>2. q \in Places /\ Untouched(q)' /\ Straight(q)'
    BY <1>1, <2>1 DEF Straight, Untouched, Ancestors
  <2>3. Untouched(q) /\ Straight(q) /\ kind'[q] = kind[q]
    BY <2>2, StraightWas
  <2>4. ASSUME NEW j \in DOMAIN stack, c \in stack[j].children PROVE c.kind = kind'[c.path]
    BY <2>1, <2>3, <2>4 DEF ProgressInv
  <2> QED BY <2>1, <2>3, <2>4, ChildrenStep
<1>2. ASSUME NEW p \in Places, Owed(p)'
      PROVE  /\ status' = "walking" => (Handed(p) \/ Ahead(p))'
             /\ status' = "done" => Handed(p)'
  <2>1. CASE LoadExcludes
    BY <2>1 DEF LoadExcludes
  <2>2. CASE ~ LoadExcludes
    <3>1. Owed(p)
      BY <1>2, <2>2, OwedWas
    <3>2. CASE RootFails
      BY <3>2 DEF RootFails
    <3>3. CASE RootIsSkipped
      BY <3>1, <3>3, RootStep
    <3>4. CASE RootIsFile
      BY <3>1, <3>4, RootStep DEF RootIsFile
    <3>5. CASE RootIsDirectory
      BY <3>1, <3>5, RootStep DEF RootIsDirectory
    <3>6. ASSUME stack # <<>>, NEW c \in stack[1].children,
                 SkipChild(c) \/ EnterChild(c) \/ HandleFile(c)
          PROVE  /\ status' = "walking" => (Handed(p) \/ Ahead(p))'
                 /\ status' = "done" => Handed(p)'
      <4>1. status = "walking" /\ status' = "walking"
        BY <3>6 DEF SkipChild, EnterChild, HandleFile, AtChild
      <4>2. Handed(p) \/ Ahead(p)
        BY <3>1, <4>1 DEF ProgressInv
      <4> QED BY <3>1, <3>6, <4>1, <4>2, ChildStep
    <3>7. CASE LeaveDirectory
      <4>1. /\ status = "walking" /\ status' = "walking" /\ visited' = visited
            /\ stack # <<>> /\ stack[1].children = {} /\ stack[1].read /\ stack' = Tail(stack)
        BY <3>7 DEF LeaveDirectory
      <4>2. CASE Handed(p)
        BY <4>1, <4>2 DEF Handed
      <4>3. CASE Ahead(p)
        <5>1. PICK i \in DOMAIN stack :
                \/ \E c \in stack[i].children : IsPrefix(c.path, p)
                \/ ~ stack[i].read /\ IsPrefix(stack[i].dir, p) /\ stack[i].dir # p
          BY <4>3 DEF Ahead
        <5>2. i # 1
          BY <4>1, <5>1
        <5>3. i - 1 \in DOMAIN Tail(stack) /\ Tail(stack)[i - 1] = stack[i]
          BY <4>1, <5>2 DEF TypeOK
        <5> QED BY <4>1, <5>1, <5>3 DEF Ahead
      <4> QED BY <3>1, <4>1, <4>2, <4>3 DEF ProgressInv
    <3>8. CASE EndWalk
      <4>1. status = "walking" /\ status' = "done" /\ visited' = visited /\ stack = <<>>
        BY <3>8 DEF EndWalk
      <4>2. ~ Ahead(p)
        BY <4>1 DEF Ahead
      <4> QED BY <3>1, <4>1, <4>2 DEF ProgressInv, Handed
    <3>9. CASE ReadSortedChildren
      <4>1. status = "walking" /\ status' = "walking" /\ visited' = visited
        BY <3>9 DEF ReadSortedChildren
      <4>2. Handed(p) => Handed(p)'
        BY <4>1 DEF Handed
      <4> QED BY <1>2, <3>1, <3>9, <4>1, <4>2, ReadStep DEF ProgressInv
    <3>10. CASE UNCHANGED <<stack, visited, status>>
      BY <3>1, <3>10 DEF ProgressInv, Handed, Ahead
    <3> QED BY <2>2, <3>2, <3>3, <3>4, <3>5, <3>6, <3>7, <3>8, <3>9, <3>10
         DEF Next, WalkStep, ChangeTree, vars
  <2> QED BY <2>1, <2>2
<1> QED BY <1>1, <1>2 DEF ProgressInv

(* FileTreeWalker::walk() with ResumePathFilter: a resumed walk hands over *)
(* what a fresh one would from the resume point on, and nothing before it; *)
(* what it does hand over is every file that could be read, that no rule   *)
(* excludes and that nobody touched meanwhile, unless the reading of a     *)
(* directory above it broke off.                                           *)
THEOREM ResumedWalkIsTheRest == Spec => []WalksFromResumePoint
<1>1. Init => ProgressInv
  BY DEF Init, ProgressInv
<1>2. ProgressInv => (status = "done" => EverythingFromPoint)
  BY DEF ProgressInv, EverythingFromPoint, Owed, Handed
<1>3. Spec => []ProgressInv
  BY <1>1, ProgressStep, PointInvariant, ExcludedInvariant, PTL DEF Spec
<1> QED BY <1>2, <1>3, NothingBeforeResumePoint, PTL DEF WalksFromResumePoint
=============================================================================
