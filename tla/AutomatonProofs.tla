-------------------------- MODULE AutomatonProofs --------------------------
(***************************************************************************)
(* Proofs about Automaton and FileProcessor: for every alphabet, every     *)
(* list of signatures, every content and every size of the chunks, the     *)
(* automaton is complete, and scanning finds exactly what occurs.          *)
(***************************************************************************)
EXTENDS FileProcessor, FiniteSetTheorems, TLAPS

Strings == Seq(Bytes)

(* IsSuffix, byte by byte.                                                 *)
Suffix(s, t) ==
  Len(s) <= Len(t) /\ \A j \in 1 .. Len(s) : s[j] = t[Len(t) - Len(s) + j]

LEMMA SuffixIs ==
  ASSUME NEW s \in Strings, NEW t \in Strings
  PROVE  IsSuffix(s, t) <=> Suffix(s, t)
<1> DEFINE r == Reverse(s)
           q == Reverse(t)
<1>1. PICK m \in Nat : m = Len(s)
  BY DEF Strings
<1>2. PICK n \in Nat : n = Len(t)
  BY DEF Strings
<1>3. r \in Strings /\ Len(r) = m /\ \A i \in 1 .. m : r[i] = s[m - i + 1]
  BY <1>1 DEF Reverse, Strings
<1>4. q \in Strings /\ Len(q) = n /\ \A i \in 1 .. n : q[i] = t[n - i + 1]
  BY <1>2 DEF Reverse, Strings
<1>5. IsSuffix(s, t) <=> IsPrefix(r, q)
  BY DEF IsSuffix
<1> HIDE DEF r, q
<1>6. ASSUME m <= n PROVE SubSeq(r, 1, m) = SubSeq(q, 1, m) <=> \A i \in 1 .. m : r[i] = q[i]
  <2>1. SubSeq(r, 1, m) \in Strings /\ Len(SubSeq(r, 1, m)) = m
        /\ \A i \in 1 .. m : SubSeq(r, 1, m)[i] = r[i]
    BY <1>3 DEF Strings
  <2>2. SubSeq(q, 1, m) \in Strings /\ Len(SubSeq(q, 1, m)) = m
        /\ \A i \in 1 .. m : SubSeq(q, 1, m)[i] = q[i]
    BY <1>4, <1>6 DEF Strings
  <2> HIDE DEF Strings
  <2>3. ASSUME \A i \in 1 .. m : r[i] = q[i] PROVE SubSeq(r, 1, m) = SubSeq(q, 1, m)
    BY <2>1, <2>2, <2>3 DEF Strings
  <2> QED BY <2>1, <2>2, <2>3
<1>7. ASSUME m <= n
      PROVE  (\A i \in 1 .. m : r[i] = q[i]) <=> \A j \in 1 .. m : s[j] = t[n - m + j]
  <2>1. ASSUME \A i \in 1 .. m : r[i] = q[i], NEW j \in 1 .. m PROVE s[j] = t[n - m + j]
    <3>1. m - j + 1 \in 1 .. m /\ m - j + 1 \in 1 .. n
          /\ m - (m - j + 1) + 1 = j /\ n - (m - j + 1) + 1 = n - m + j
      BY <1>7
    <3> QED BY <1>3, <1>4, <2>1, <3>1
  <2>2. ASSUME \A j \in 1 .. m : s[j] = t[n - m + j], NEW i \in 1 .. m PROVE r[i] = q[i]
    <3>1. m - i + 1 \in 1 .. m /\ i \in 1 .. n /\ n - m + (m - i + 1) = n - i + 1
      BY <1>7
    <3> QED BY <1>3, <1>4, <2>2, <3>1
  <2> QED BY <2>1, <2>2
<1> QED BY <1>1, <1>2, <1>3, <1>4, <1>5, <1>6, <1>7 DEF IsPrefix, Suffix

LEMMA SuffixTransitive ==
  ASSUME NEW r \in Strings, NEW s \in Strings, NEW t \in Strings, Suffix(r, s), Suffix(s, t)
  PROVE  Suffix(r, t)
<1>1. PICK k \in Nat : k = Len(r)
  BY DEF Strings
<1>2. PICK m \in Nat : m = Len(s)
  BY DEF Strings
<1>3. PICK n \in Nat : n = Len(t)
  BY DEF Strings
<1>4. k <= m /\ m <= n
  BY <1>1, <1>2, <1>3 DEF Suffix
<1>5. ASSUME NEW j \in 1 .. k PROVE r[j] = t[n - k + j]
  <2>1. m - k + j \in 1 .. m /\ n - m + (m - k + j) = n - k + j
    BY <1>4
  <2> QED BY <1>1, <1>2, <1>3, <2>1 DEF Suffix
<1> QED BY <1>1, <1>2, <1>3, <1>4, <1>5 DEF Suffix

(* Two suffixes of the same string.                                        *)
LEMMA SuffixOfBoth ==
  ASSUME NEW r \in Strings, NEW s \in Strings, NEW t \in Strings,
         Suffix(r, t), Suffix(s, t), Len(r) <= Len(s)
  PROVE  Suffix(r, s)
<1>1. PICK k \in Nat : k = Len(r)
  BY DEF Strings
<1>2. PICK m \in Nat : m = Len(s)
  BY DEF Strings
<1>3. PICK n \in Nat : n = Len(t)
  BY DEF Strings
<1>4. k <= m /\ m <= n
  BY <1>1, <1>2, <1>3 DEF Suffix
<1>5. ASSUME NEW j \in 1 .. k PROVE r[j] = s[m - k + j]
  <2>1. m - k + j \in 1 .. m /\ n - m + (m - k + j) = n - k + j
    BY <1>4
  <2> QED BY <1>1, <1>2, <1>3, <2>1 DEF Suffix
<1> QED BY <1>1, <1>2, <1>4, <1>5 DEF Suffix

LEMMA SuffixEqual ==
  ASSUME NEW s \in Strings, NEW t \in Strings, Suffix(s, t), Len(s) = Len(t)
  PROVE  s = t
<1>1. PICK n \in Nat : n = Len(s)
  BY DEF Strings
<1>2. \A j \in 1 .. n : s[j] = t[j]
  BY <1>1 DEF Suffix
<1> QED BY <1>1, <1>2 DEF Strings

LEMMA SuffixReflexive == \A s \in Strings : Suffix(s, s) /\ Suffix(<<>>, s)
BY DEF Suffix, Strings

LEMMA AppendIs ==
  ASSUME NEW s \in Strings, NEW b \in Bytes
  PROVE  /\ Append(s, b) \in Strings /\ Len(Append(s, b)) = Len(s) + 1
         /\ \A j \in 1 .. Len(s) : Append(s, b)[j] = s[j]
         /\ Append(s, b)[Len(s) + 1] = b
         /\ Append(s, b) # <<>> /\ Len(s) \in Nat
BY DEF Strings

IsAppended(x, s, b) ==
  /\ x \in Strings /\ Len(x) = Len(s) + 1 /\ Len(s) \in Nat
  /\ \A j \in 1 .. Len(s) : x[j] = s[j]
  /\ x[Len(s) + 1] = b

LEMMA AppendedIs == \A s \in Strings, b \in Bytes : IsAppended(Append(s, b), s, b)
BY AppendIs DEF IsAppended

LEMMA AppendsEqual ==
  ASSUME NEW s \in Strings, NEW t \in Strings, NEW b \in Bytes, NEW c \in Bytes,
         NEW x, x = Append(s, b), x = Append(t, c)
  PROVE  s = t /\ b = c
<1>1. IsAppended(x, s, b) /\ IsAppended(x, t, c)
  BY AppendedIs, Zenon
<1>2. Len(s) = Len(t) /\ b = c /\ \A j \in 1 .. Len(s) : s[j] = t[j]
  BY ONLY <1>1 DEF IsAppended
<1>3. s = t
  BY ONLY <1>1, <1>2, s \in Strings, t \in Strings DEF Strings
<1> QED BY ONLY <1>2, <1>3

LEMMA SuffixAppend ==
  ASSUME NEW s \in Strings, NEW t \in Strings, NEW b \in Bytes, Suffix(s, t)
  PROVE  Suffix(Append(s, b), Append(t, b))
<1>1. PICK m \in Nat : m = Len(s)
  BY DEF Strings
<1>2. PICK n \in Nat : n = Len(t)
  BY DEF Strings
<1>3. m <= n /\ Len(Append(s, b)) = m + 1 /\ Len(Append(t, b)) = n + 1
  BY <1>1, <1>2, AppendIs DEF Suffix
<1>4. ASSUME NEW j \in 1 .. m + 1
      PROVE  Append(s, b)[j] = Append(t, b)[(n + 1) - (m + 1) + j]
  <2>1. CASE j = m + 1
    <3>1. (n + 1) - (m + 1) + j = n + 1
      BY <1>3, <2>1
    <3> QED BY <1>1, <1>2, <2>1, <3>1, AppendIs
  <2>2. CASE j # m + 1
    <3>1. j \in 1 .. m /\ (n + 1) - (m + 1) + j = n - m + j /\ n - m + j \in 1 .. n
      BY <1>3, <2>2
    <3>2. s[j] = t[n - m + j]
      BY <1>1, <1>2, <3>1 DEF Suffix
    <3>3. Append(s, b)[j] = s[j] /\ Append(t, b)[n - m + j] = t[n - m + j]
      BY <1>1, <1>2, <3>1, AppendIs
    <3> QED BY <3>1, <3>2, <3>3
  <2> QED BY <2>1, <2>2
<1>5. PICK u \in Strings : u = Append(s, b)
  BY AppendIs
<1>6. PICK v \in Strings : v = Append(t, b)
  BY AppendIs
<1>7. Len(u) = m + 1 /\ Len(v) = n + 1 /\ \A j \in 1 .. m + 1 : u[j] = v[(n + 1) - (m + 1) + j]
  BY <1>3, <1>4, <1>5, <1>6
<1>8. Suffix(u, v)
  BY <1>3, <1>7 DEF Suffix
<1> QED BY <1>5, <1>6, <1>8

LEMMA LastOfSuffix ==
  ASSUME NEW z \in Strings, NEW x \in Strings, NEW b \in Bytes, z # <<>>,
         Suffix(z, Append(x, b))
  PROVE  \E y \in Strings : z = Append(y, b) /\ Suffix(y, x)
<1>1. PICK k \in Nat : Len(z) = k + 1
  BY DEF Strings
<1>2. PICK n \in Nat : n = Len(x)
  BY DEF Strings
<1>3. Len(Append(x, b)) = n + 1 /\ k <= n
  BY <1>1, <1>2, AppendIs DEF Suffix
<1> DEFINE y == SubSeq(z, 1, k)
<1>4. y \in Strings /\ Len(y) = k /\ \A j \in 1 .. k : y[j] = z[j]
  BY <1>1 DEF Strings
<1> HIDE DEF y
<1>5. \A j \in 1 .. k + 1 : z[j] = Append(x, b)[(n + 1) - (k + 1) + j]
  BY <1>1, <1>3 DEF Suffix
<1>6. z[k + 1] = b
  <2>1. (n + 1) - (k + 1) + (k + 1) = n + 1 /\ k + 1 \in 1 .. k + 1
    BY <1>3
  <2> QED BY <1>2, <1>5, <2>1, AppendIs
<1>7. ASSUME NEW j \in 1 .. k PROVE y[j] = x[n - k + j]
  <2>1. (n + 1) - (k + 1) + j = n - k + j /\ n - k + j \in 1 .. n /\ j \in 1 .. k + 1
    BY <1>3
  <2>2. Append(x, b)[n - k + j] = x[n - k + j]
    BY <1>2, <2>1, AppendIs
  <2> QED BY <1>4, <1>5, <2>1, <2>2
<1>8. Suffix(y, x)
  BY <1>2, <1>3, <1>4, <1>7 DEF Suffix
<1>9. z = Append(y, b)
  <2>1. Append(y, b) \in Strings /\ Len(Append(y, b)) = k + 1
        /\ \A j \in 1 .. k : Append(y, b)[j] = y[j]
        /\ Append(y, b)[k + 1] = b
    BY <1>4, AppendIs
  <2>2. \A j \in 1 .. k + 1 : z[j] = Append(y, b)[j]
    <3> TAKE j \in 1 .. k + 1
    <3>1. j \in 1 .. k \/ j = k + 1
      OBVIOUS
    <3> QED BY <1>4, <1>6, <2>1, <3>1
  <2> QED BY <1>1, <2>1, <2>2 DEF Strings
<1> QED BY <1>4, <1>8, <1>9

(* A suffix of the longer text that is not longer than what y becomes.     *)
LEMMA SuffixExtends ==
  ASSUME NEW x \in Strings, NEW y \in Strings, NEW z \in Strings, NEW b \in Bytes,
         Suffix(y, x), Suffix(z, Append(x, b)), Len(z) <= Len(y) + 1
  PROVE  Suffix(z, Append(y, b))
<1>1. Suffix(Append(y, b), Append(x, b))
  BY SuffixAppend
<1>2. Append(y, b) \in Strings /\ Append(x, b) \in Strings /\ Len(Append(y, b)) = Len(y) + 1
  BY AppendIs
<1> QED BY <1>1, <1>2, SuffixOfBoth
-----------------------------------------------------------------------------
(* The trie: strings name its states, and come with all their prefixes.    *)
NodeInv ==
  /\ 0 \in States /\ word[0] = <<>>
  /\ word \in [States -> Strings]
  /\ \A s, t \in States : word[s] = word[t] => s = t
  /\ \A t \in States : \A n \in 0 .. Len(word[t]) : \E s \in States : word[s] = SubSeq(word[t], 1, n)

(* The state for the longest suffix of a text, and of those that are not   *)
(* the text itself.                                                        *)
Longest(s, x) ==
  Suffix(word[s], x) /\ \A t \in States : Suffix(word[t], x) => Len(word[t]) <= Len(word[s])

LongestProper(s, x) ==
  /\ Suffix(word[s], x) /\ Len(word[s]) < Len(x)
  /\ \A t \in States :
       Suffix(word[t], x) /\ Len(word[t]) < Len(x) => Len(word[t]) <= Len(word[s])

LEMMA ParentIs ==
  ASSUME NodeInv, NEW t \in States, NEW y \in Strings, NEW b \in Bytes, word[t] = Append(y, b)
  PROVE  \E s \in States : word[s] = y
<1>1. PICK n \in Nat : n = Len(y)
  BY DEF Strings
<1>2. Len(word[t]) = n + 1
  BY <1>1, AppendIs
<1>3. SubSeq(Append(y, b), 1, n) = y
  <2>1. PICK x \in Strings : x = Append(y, b)
    BY AppendIs
  <2>2. Len(x) = n + 1 /\ \A j \in 1 .. n : x[j] = y[j]
    BY <1>1, <2>1, AppendIs
  <2>3. SubSeq(x, 1, n) \in Strings /\ Len(SubSeq(x, 1, n)) = n
        /\ \A j \in 1 .. n : SubSeq(x, 1, n)[j] = x[j]
    BY <2>2 DEF Strings
  <2>4. SubSeq(x, 1, n) = y
    BY <1>1, <2>2, <2>3 DEF Strings
  <2> QED BY <2>1, <2>4
<1>4. n \in 0 .. Len(word[t])
  BY <1>2
<1> QED BY <1>3, <1>4 DEF NodeInv

(* What a suffix of the longer text becomes in terms of that of the text.  *)
LEMMA LongestExtends ==
  ASSUME NodeInv, NEW x \in Strings, NEW b \in Bytes, NEW s \in States, NEW t \in States,
         Longest(s, x), Longest(t, Append(word[s], b))
  PROVE  Longest(t, Append(x, b))
<1>1. word[s] \in Strings /\ word[t] \in Strings
  BY DEF NodeInv
<1>2. Append(word[s], b) \in Strings /\ Append(x, b) \in Strings
  BY <1>1, AppendIs
<1>3. Suffix(word[t], Append(x, b))
  <2>1. Suffix(Append(word[s], b), Append(x, b))
    BY <1>1, SuffixAppend DEF Longest
  <2> QED BY <1>1, <1>2, <2>1, SuffixTransitive DEF Longest
<1>4. ASSUME NEW u \in States, Suffix(word[u], Append(x, b)) PROVE Len(word[u]) <= Len(word[t])
  <2>1. word[u] \in Strings /\ Len(word[t]) \in Nat
    BY <1>1 DEF NodeInv, Strings
  <2>2. CASE word[u] = <<>>
    BY <2>1, <2>2
  <2>3. CASE word[u] # <<>>
    <3>1. PICK y \in Strings : word[u] = Append(y, b) /\ Suffix(y, x)
      BY <1>4, <2>1, <2>3, LastOfSuffix
    <3>2. PICK v \in States : word[v] = y
      BY <3>1, ParentIs
    <3>3. Len(y) <= Len(word[s]) /\ Len(word[u]) = Len(y) + 1 /\ Len(y) \in Nat
      BY <3>1, <3>2, AppendIs DEF Longest
    <3>4. Len(word[s]) \in Nat
      BY <1>1 DEF Strings
    <3>5. Suffix(word[u], Append(word[s], b))
      BY <1>1, <1>4, <2>1, <3>3, <3>4, SuffixExtends DEF Longest
    <3> QED BY <3>5 DEF Longest
  <2> QED BY <2>2, <2>3
<1> QED BY <1>3, <1>4 DEF Longest

(* Below a state, where the failure link of the state leads.               *)
LEMMA LinkExtends ==
  ASSUME NodeInv, NEW s \in States, NEW f \in States, NEW t \in States, NEW b \in Bytes,
         LongestProper(f, word[s]), Longest(t, Append(word[f], b))
  PROVE  LongestProper(t, Append(word[s], b))
<1> DEFINE x == word[s]
<1>1. x \in Strings /\ word[f] \in Strings /\ word[t] \in Strings
  BY DEF NodeInv
<1>2. /\ Append(x, b) \in Strings /\ Append(word[f], b) \in Strings
      /\ Len(Append(x, b)) = Len(x) + 1 /\ Len(Append(word[f], b)) = Len(word[f]) + 1
      /\ Len(x) \in Nat /\ Len(word[f]) \in Nat /\ Len(word[t]) \in Nat
  BY <1>1, AppendIs DEF Strings
<1> HIDE DEF x
<1>3. Suffix(word[f], x) /\ Len(word[f]) < Len(x)
      /\ \A u \in States : Suffix(word[u], x) /\ Len(word[u]) < Len(x) => Len(word[u]) <= Len(word[f])
  BY DEF LongestProper, x
<1>4. Suffix(word[t], Append(word[f], b))
      /\ \A u \in States : Suffix(word[u], Append(word[f], b)) => Len(word[u]) <= Len(word[t])
  BY DEF Longest
<1>5. Suffix(word[t], Append(x, b)) /\ Len(word[t]) < Len(Append(x, b))
  <2>1. Suffix(Append(word[f], b), Append(x, b))
    BY <1>1, <1>3, SuffixAppend
  <2>2. Len(word[t]) <= Len(Append(word[f], b))
    BY <1>4 DEF Suffix
  <2> QED BY <1>1, <1>2, <1>3, <1>4, <2>1, <2>2, SuffixTransitive
<1>6. ASSUME NEW u \in States, Suffix(word[u], Append(x, b)), Len(word[u]) < Len(Append(x, b))
      PROVE  Len(word[u]) <= Len(word[t])
  <2>1. word[u] \in Strings
    BY DEF NodeInv
  <2>2. CASE word[u] = <<>>
    BY <1>2, <2>1, <2>2
  <2>3. CASE word[u] # <<>>
    <3>1. PICK y \in Strings : word[u] = Append(y, b) /\ Suffix(y, x)
      BY <1>1, <1>6, <2>1, <2>3, LastOfSuffix
    <3>2. PICK v \in States : word[v] = y
      BY <3>1, ParentIs
    <3>3. Len(word[u]) = Len(y) + 1 /\ Len(y) \in Nat
      BY <3>1, AppendIs
    <3>4. Len(y) <= Len(word[f])
      BY <1>2, <1>3, <1>6, <3>1, <3>2, <3>3
    <3>5. Suffix(word[u], Append(word[f], b))
      BY <1>1, <1>2, <1>3, <1>6, <2>1, <3>3, <3>4, SuffixExtends
    <3> QED BY <1>4, <3>5
  <2> QED BY <2>2, <2>3
<1> QED BY <1>5, <1>6 DEF LongestProper, x

(* Where there is no such child, that is the longest suffix of all.        *)
LEMMA LinkIsLongest ==
  ASSUME NodeInv, NEW x \in Strings, NEW t \in States, LongestProper(t, x),
         \A u \in States : word[u] # x
  PROVE  Longest(t, x)
<1>1. ASSUME NEW u \in States, Suffix(word[u], x) PROVE Len(word[u]) < Len(x)
  <2>1. word[u] \in Strings /\ Len(word[u]) \in Nat /\ Len(x) \in Nat
    BY DEF NodeInv, Strings
  <2>2. Len(word[u]) <= Len(x)
    BY <1>1 DEF Suffix
  <2>3. Len(word[u]) # Len(x)
    BY <1>1, <2>1, SuffixEqual
  <2> QED BY <2>1, <2>2, <2>3
<1> QED BY <1>1 DEF Longest, LongestProper
-----------------------------------------------------------------------------
(* A transition that the search has not looked at: the child, or Missing.  *)
Unlinked(s, b) ==
  IF next[s][b] = Missing THEN \A t \in States : word[t] # Append(word[s], b)
  ELSE next[s][b] \in States /\ word[next[s][b]] = Append(word[s], b)

(* While signatures are added: where the one under way is, and those that  *)
(* are in the trie, each in the output of its state.                       *)
TrieInv ==
  /\ byte = 0 /\ pending = <<>>
  /\ IF index <= Len(signatures)
     THEN taken <= Len(signatures[index]) /\ word[at] = SubSeq(signatures[index], 1, taken)
     ELSE taken = 0 /\ at = 0
  /\ \A s \in States, b \in Bytes : Unlinked(s, b)
  /\ \A s \in States :
       output[s] = {i \in 1 .. index - 1 : signatures[i] # <<>> /\ signatures[i] = word[s]}
  /\ \A i \in 1 .. index - 1 : signatures[i] # <<>> => \E s \in States : word[s] = signatures[i]

(* The search: which transitions are complete, and which states were met.  *)
Processed(done, s, b) == s \in done \/ (s = at /\ b < byte)
Met(done, s) == s \in done \/ s = at \/ \E i \in DOMAIN pending : pending[i] = s

SuffixSignatures(text) ==
  {i \in DOMAIN signatures : signatures[i] # <<>> /\ Suffix(signatures[i], text)}

MetOnce(done) ==
  /\ at \notin done
  /\ \A i \in DOMAIN pending : pending[i] \notin done /\ pending[i] # at
  /\ \A i, j \in DOMAIN pending : i # j => pending[i] # pending[j]
  /\ \A t \in States :
       Met(done, t) <=>
         (t = 0 \/ \E s \in States, b \in Bytes : Processed(done, s, b) /\ word[t] = Append(word[s], b))

BreadthFirst(done) ==
  /\ \A i, j \in DOMAIN pending : i < j => Len(word[pending[i]]) <= Len(word[pending[j]])
  /\ \A i \in DOMAIN pending :
       Len(word[at]) <= Len(word[pending[i]]) /\ Len(word[pending[i]]) <= Len(word[at]) + 1
  /\ \A s \in States : Len(word[s]) < Len(word[at]) => s \in done
  /\ \A s \in done : Len(word[s]) <= Len(word[at])

Completed(done) ==
  /\ \A t \in States : Met(done, t) /\ t # 0 =>
       failure_link[t] \in States /\ LongestProper(failure_link[t], word[t])
  /\ \A s \in States, b \in Bytes :
       IF Processed(done, s, b)
       THEN next[s][b] \in States /\ Longest(next[s][b], Append(word[s], b))
       ELSE Unlinked(s, b)
  /\ \A t \in States :
       output[t] = IF Met(done, t) THEN SuffixSignatures(word[t])
                   ELSE {i \in DOMAIN signatures : signatures[i] # <<>> /\ signatures[i] = word[t]}

SignaturesAdded ==
  \A i \in DOMAIN signatures : signatures[i] # <<>> => \E s \in States : word[s] = signatures[i]

LinkInv ==
  \E done \in SUBSET States : MetOnce(done) /\ BreadthFirst(done) /\ Completed(done)

BuiltInv ==
  \A s \in States :
    /\ \A b \in Bytes : next[s][b] \in States /\ Longest(next[s][b], Append(word[s], b))
    /\ output[s] = SuffixSignatures(word[s])

Numbered == \E n \in Nat : States = 0 .. n

AutomatonInv ==
  /\ Numbered
  /\ AutomatonTypeOK
  /\ NodeInv
  /\ phase = "trie" => TrieInv
  /\ phase # "trie" => SignaturesAdded
  /\ phase = "links" => LinkInv
  /\ phase = "built" => BuiltInv

LEMMA SignaturesAre ==
  ASSUME AutomatonTypeOK
  PROVE  /\ signatures \in Seq(Strings) /\ Len(signatures) \in Nat
         /\ DOMAIN signatures = 1 .. Len(signatures)
         /\ \A i \in 1 .. Len(signatures) : signatures[i] \in Strings
BY AutomatonAssumption DEF AutomatonTypeOK, Strings

LEMMA BytesAre == Bytes \subseteq Nat /\ LastByte \in Nat /\ Missing \notin Nat
BY AutomatonAssumption DEF Bytes, Missing

LEMMA NumberedIs ==
  ASSUME NEW n \in Nat, NEW S, S = 0 .. n
  PROVE  Cardinality(S) = n + 1 /\ S = 0 .. Cardinality(S) - 1 /\ S \subseteq Nat
<1>1. Cardinality(0 .. n) = n + 1
  BY FS_Interval
<1> QED BY <1>1

LEMMA InitialAutomaton == AutomatonInit => AutomatonInv
<1> SUFFICES ASSUME AutomatonInit PROVE AutomatonInv
  OBVIOUS
<1>1. States = {0} /\ States = 0 .. 0
  BY DEF AutomatonInit, States
<1>2. Numbered
  BY <1>1 DEF Numbered
<1>3. Cardinality(States) = 0 + 1
  BY <1>1, NumberedIs, 0 \in Nat
<1>4. signatures \in SignatureLists /\ signatures \in Seq(Strings) /\ Len(signatures) \in Nat
  BY AutomatonAssumption DEF AutomatonInit, Strings
<1>5. AutomatonTypeOK
  BY <1>1, <1>3, <1>4, BytesAre DEF AutomatonInit, AutomatonTypeOK, States, NoChildren
<1>6. NodeInv
  <2>1. word[0] = <<>> /\ word \in [States -> Strings]
    BY <1>1 DEF AutomatonInit, Strings
  <2>2. \A t \in States : \A n \in 0 .. Len(word[t]) : word[0] = SubSeq(word[t], 1, n)
    BY <1>1, <2>1
  <2> QED BY <1>1, <2>1, <2>2 DEF NodeInv
<1>7. TrieInv
  <2>1. /\ word[0] = <<>> /\ at = 0 /\ taken = 0 /\ index = 1 /\ byte = 0 /\ pending = <<>>
        /\ output[0] = {} /\ \A b \in Bytes : next[0][b] = Missing
    BY DEF AutomatonInit, NoChildren
  <2>2. \A b \in Bytes : Unlinked(0, b)
    <3>1. \A b \in Bytes : Append(<<>>, b) # <<>>
      BY AppendIs DEF Strings
    <3> QED BY <1>1, <2>1, <3>1 DEF Unlinked
  <2>3. ASSUME index <= Len(signatures)
        PROVE  taken <= Len(signatures[index]) /\ word[at] = SubSeq(signatures[index], 1, taken)
    <3>1. signatures[index] \in Strings
      BY <1>4, <2>1, <2>3
    <3>2. \A x \in Strings : 0 <= Len(x) /\ SubSeq(x, 1, 0) = <<>>
      BY DEF Strings
    <3> QED BY <2>1, <3>1, <3>2
  <2>4. \A i \in 1 .. index - 1 : FALSE
    BY <2>1
  <2> QED BY <1>1, <2>1, <2>2, <2>3, <2>4 DEF TrieInv
<1> QED BY <1>2, <1>5, <1>6, <1>7 DEF AutomatonInv, AutomatonInit
-----------------------------------------------------------------------------
LEMMA NodesStay == next' = next /\ word' = word /\ NodeInv => NodeInv' /\ States' = States
BY DEF NodeInv, States

LEMMA NodesAre == States' = States /\ word' = word /\ NodeInv => NodeInv'
BY DEF NodeInv

LEMMA UnlinkedStays ==
  ASSUME next' = next, word' = word, NEW s, NEW b
  PROVE  Unlinked(s, b)' <=> Unlinked(s, b)
BY DEF Unlinked, States

LEMMA LongestStays ==
  ASSUME States' = States, word' = word, signatures' = signatures, NEW s, NEW x
  PROVE  /\ Longest(s, x)' <=> Longest(s, x)
         /\ LongestProper(s, x)' <=> LongestProper(s, x)
         /\ SuffixSignatures(x)' = SuffixSignatures(x)
BY DEF Longest, LongestProper, SuffixSignatures

LEMMA MetStays ==
  ASSUME UNCHANGED <<at, byte, pending>>, NEW done, NEW s, NEW b
  PROVE  /\ Met(done, s)' <=> Met(done, s)
         /\ Processed(done, s, b)' <=> Processed(done, s, b)
BY DEF Met, Processed

LEMMA SkipStep == AutomatonInv /\ SkipSignature => AutomatonInv'
<1> SUFFICES ASSUME AutomatonInv, SkipSignature PROVE AutomatonInv'
  OBVIOUS
<1>1. /\ phase = "trie" /\ index <= Len(signatures) /\ signatures[index] = <<>>
      /\ index' = index + 1
      /\ UNCHANGED <<signatures, taken, at, byte, next, failure_link, output, pending, phase, word>>
  BY DEF SkipSignature, Adding
<1>2. Numbered /\ AutomatonTypeOK /\ NodeInv /\ TrieInv
  BY <1>1 DEF AutomatonInv
<1>3. NodeInv' /\ States' = States /\ Numbered'
  BY <1>1, <1>2, NodesStay DEF Numbered
<1>4. index \in 1 .. Len(signatures) /\ index' \in 1 .. Len(signatures) + 1 /\ index' - 1 = index
      /\ index \in Nat
  BY <1>1, <1>2, SignaturesAre DEF AutomatonTypeOK
<1>5. AutomatonTypeOK'
  BY <1>1, <1>2, <1>3, <1>4 DEF AutomatonTypeOK
<1>6. taken = 0 /\ at = 0
  <2>1. taken = 0
    BY <1>1, <1>2 DEF TrieInv, AutomatonTypeOK
  <2>2. word[at] = <<>>
    <3>1. SubSeq(<<>>, 1, 0) = <<>>
      OBVIOUS
    <3> QED BY <1>1, <1>2, <2>1, <3>1 DEF TrieInv
  <2> QED BY <1>2, <2>1, <2>2 DEF NodeInv, AutomatonTypeOK
<1>7. TrieInv'
  <2>1. IF index' <= Len(signatures)
        THEN taken <= Len(signatures[index']) /\ word[at] = SubSeq(signatures[index'], 1, taken)
        ELSE taken = 0 /\ at = 0
    <3>1. ASSUME index' <= Len(signatures)
          PROVE  0 <= Len(signatures[index']) /\ <<>> = SubSeq(signatures[index'], 1, 0)
      <4>1. signatures[index'] \in Strings
        BY <1>2, <1>4, <3>1, SignaturesAre
      <4> QED BY <4>1 DEF Strings
    <3> QED BY <1>2, <1>6, <3>1 DEF NodeInv
  <2>2. \A i : i \in 1 .. index /\ signatures[i] # <<>> <=> i \in 1 .. index - 1 /\ signatures[i] # <<>>
    BY <1>1, <1>4
  <2>3. \A s \in States :
          output[s] = {i \in 1 .. index : signatures[i] # <<>> /\ signatures[i] = word[s]}
    BY <1>2, <2>2 DEF TrieInv
  <2>4. \A i \in 1 .. index : signatures[i] # <<>> => \E s \in States : word[s] = signatures[i]
    BY <1>2, <2>2 DEF TrieInv
  <2>5. \A s \in States, b \in Bytes : Unlinked(s, b)'
    BY <1>1, <1>2, UnlinkedStays DEF TrieInv
  <2> QED BY <1>1, <1>2, <1>3, <1>4, <2>1, <2>3, <2>4, <2>5 DEF TrieInv
<1> QED BY <1>1, <1>3, <1>5, <1>7 DEF AutomatonInv

(* The string up to and including its next byte.                           *)
LEMMA NextByte ==
  ASSUME NEW x \in Strings, NEW n \in Nat, n < Len(x)
  PROVE  /\ x[n + 1] \in Bytes /\ SubSeq(x, 1, n) \in Strings
         /\ Append(SubSeq(x, 1, n), x[n + 1]) = SubSeq(x, 1, n + 1)
<1>1. x[n + 1] \in Bytes /\ SubSeq(x, 1, n) \in Strings /\ Len(SubSeq(x, 1, n)) = n
      /\ \A j \in 1 .. n : SubSeq(x, 1, n)[j] = x[j]
  BY DEF Strings
<1>2. PICK y \in Strings : y = SubSeq(x, 1, n)
  BY <1>1
<1>3. PICK z \in Strings : z = SubSeq(x, 1, n + 1)
  <2>1. SubSeq(x, 1, n + 1) \in Strings
    BY DEF Strings
  <2> QED BY <2>1
<1>4. Len(z) = n + 1 /\ \A j \in 1 .. n + 1 : z[j] = x[j]
  BY <1>3 DEF Strings
<1>5. PICK a \in Strings : a = Append(y, x[n + 1])
  BY <1>1, AppendIs
<1>6. Len(a) = n + 1 /\ a[n + 1] = x[n + 1] /\ \A j \in 1 .. n : a[j] = y[j]
  BY <1>1, <1>2, <1>5, AppendIs
<1>7. \A j \in 1 .. n + 1 : a[j] = z[j]
  <2> TAKE j \in 1 .. n + 1
  <2>1. j \in 1 .. n \/ j = n + 1
    OBVIOUS
  <2> QED BY <1>1, <1>2, <1>4, <1>6, <2>1
<1>8. a = z
  BY <1>4, <1>6, <1>7 DEF Strings
<1> QED BY <1>1, <1>2, <1>3, <1>5, <1>8

(* What addSignature() is about to do.                                     *)
LEMMA AtByte ==
  ASSUME AutomatonTypeOK, NodeInv, TrieInv, index <= Len(signatures),
         taken < Len(signatures[index])
  PROVE  /\ index \in 1 .. Len(signatures) /\ signatures[index] \in Strings
         /\ signatures[index][taken + 1] \in Bytes /\ word[at] \in Strings /\ at \in States
         /\ Append(word[at], signatures[index][taken + 1]) = SubSeq(signatures[index], 1, taken + 1)
         /\ taken + 1 <= Len(signatures[index]) /\ taken + 1 \in Nat
<1>1. index \in 1 .. Len(signatures) /\ signatures[index] \in Strings
  BY SignaturesAre DEF AutomatonTypeOK
<1>2. taken \in Nat /\ Len(signatures[index]) \in Nat
  BY <1>1 DEF AutomatonTypeOK, Strings
<1>3. word[at] = SubSeq(signatures[index], 1, taken) /\ at \in States /\ word[at] \in Strings
  BY DEF TrieInv, AutomatonTypeOK, NodeInv
<1> QED BY <1>1, <1>2, <1>3, NextByte

LEMMA FollowStep == AutomatonInv /\ FollowByte => AutomatonInv'
<1> SUFFICES ASSUME AutomatonInv, FollowByte PROVE AutomatonInv'
  OBVIOUS
<1> DEFINE b == signatures[index][taken + 1]
<1>1. /\ phase = "trie" /\ index <= Len(signatures) /\ taken < Len(signatures[index])
      /\ next[at][b] # Missing /\ at' = next[at][b] /\ taken' = taken + 1
      /\ UNCHANGED <<signatures, index, byte, next, failure_link, output, pending, phase, word>>
  BY DEF FollowByte, Adding
<1>2. Numbered /\ AutomatonTypeOK /\ NodeInv /\ TrieInv
  BY <1>1 DEF AutomatonInv
<1>3. NodeInv' /\ States' = States /\ Numbered'
  BY <1>1, <1>2, NodesStay DEF Numbered
<1>4. /\ b \in Bytes /\ at \in States
      /\ Append(word[at], b) = SubSeq(signatures[index], 1, taken + 1)
      /\ taken + 1 <= Len(signatures[index]) /\ taken + 1 \in Nat
  BY <1>1, <1>2, AtByte
<1> HIDE DEF b
<1>5. at' \in States /\ word[at'] = SubSeq(signatures[index], 1, taken + 1)
  BY <1>1, <1>2, <1>4 DEF TrieInv, Unlinked
<1>6. AutomatonTypeOK'
  BY <1>1, <1>2, <1>3, <1>4, <1>5 DEF AutomatonTypeOK
<1>7. \A s \in States, c \in Bytes : Unlinked(s, c)'
  BY <1>1, <1>2, UnlinkedStays DEF TrieInv
<1>8. TrieInv'
  BY <1>1, <1>2, <1>3, <1>4, <1>5, <1>7 DEF TrieInv
<1> QED BY <1>1, <1>3, <1>6, <1>8 DEF AutomatonInv

LEMMA EndStep == AutomatonInv /\ EndSignature => AutomatonInv'
<1> SUFFICES ASSUME AutomatonInv, EndSignature PROVE AutomatonInv'
  OBVIOUS
<1>1. /\ phase = "trie" /\ index <= Len(signatures)
      /\ taken > 0 /\ taken = Len(signatures[index])
      /\ output' = [output EXCEPT ![at] = @ \cup {index}]
      /\ index' = index + 1 /\ taken' = 0 /\ at' = 0
      /\ UNCHANGED <<signatures, byte, next, failure_link, pending, phase, word>>
  BY DEF EndSignature, Adding
<1>2. Numbered /\ AutomatonTypeOK /\ NodeInv /\ TrieInv
  BY <1>1 DEF AutomatonInv
<1>3. NodeInv' /\ States' = States /\ Numbered'
  BY <1>1, <1>2, NodesStay DEF Numbered
<1>4. index \in 1 .. Len(signatures) /\ index' \in 1 .. Len(signatures) + 1 /\ index' - 1 = index
      /\ index \in Nat /\ index \in DOMAIN signatures /\ signatures[index] \in Strings
  BY <1>1, <1>2, SignaturesAre DEF AutomatonTypeOK
<1>5. output' \in [States -> SUBSET DOMAIN signatures] /\ at \in States
  BY <1>1, <1>2, <1>4 DEF AutomatonTypeOK
<1>6. AutomatonTypeOK'
  BY <1>1, <1>2, <1>3, <1>4, <1>5 DEF AutomatonTypeOK, NodeInv
<1>7. word[at] = signatures[index] /\ signatures[index] # <<>>
  <2>1. \A x \in Strings : SubSeq(x, 1, Len(x)) = x /\ (Len(x) > 0 => x # <<>>)
    BY DEF Strings
  <2> QED BY <1>1, <1>2, <1>4, <2>1 DEF TrieInv
<1>8. TrieInv'
  <2>1. IF index' <= Len(signatures)
        THEN 0 <= Len(signatures[index']) /\ word[0] = SubSeq(signatures[index'], 1, 0)
        ELSE TRUE
    <3>1. ASSUME index' <= Len(signatures)
          PROVE  0 <= Len(signatures[index']) /\ <<>> = SubSeq(signatures[index'], 1, 0)
      <4>1. signatures[index'] \in Strings
        BY <1>2, <1>4, <3>1, SignaturesAre
      <4> QED BY <4>1 DEF Strings
    <3> QED BY <1>2, <3>1 DEF NodeInv
  <2>2. \A i : i \in 1 .. index <=> i \in 1 .. index - 1 \/ i = index
    BY <1>4
  <2>3. ASSUME NEW s \in States
        PROVE  output'[s] = {i \in 1 .. index : signatures[i] # <<>> /\ signatures[i] = word[s]}
    <3>1. output[s] = {i \in 1 .. index - 1 : signatures[i] # <<>> /\ signatures[i] = word[s]}
      BY <1>2 DEF TrieInv
    <3>2. output'[s] = IF s = at THEN output[s] \cup {index} ELSE output[s]
      BY <1>1, <1>2, <1>5 DEF AutomatonTypeOK
    <3>3. s # at => signatures[index] # word[s]
      BY <1>2, <1>5, <1>7 DEF NodeInv
    <3> QED BY <1>7, <2>2, <3>1, <3>2, <3>3
  <2>4. \A i \in 1 .. index : signatures[i] # <<>> => \E s \in States : word[s] = signatures[i]
    BY <1>2, <1>5, <1>7, <2>2 DEF TrieInv
  <2>5. \A s \in States, b \in Bytes : Unlinked(s, b)'
    BY <1>1, <1>2, UnlinkedStays DEF TrieInv
  <2> QED BY <1>1, <1>2, <1>3, <1>4, <2>1, <2>3, <2>4, <2>5 DEF TrieInv
<1> QED BY <1>1, <1>3, <1>6, <1>8 DEF AutomatonInv

(* A new node: its string was no state's, and has no child.                *)
LEMMA AddStep == AutomatonInv /\ AddByte => AutomatonInv'
<1> SUFFICES ASSUME AutomatonInv, AddByte PROVE AutomatonInv'
  OBVIOUS
<1> DEFINE b == signatures[index][taken + 1]
           new == Cardinality(States)
<1>1. /\ phase = "trie" /\ index <= Len(signatures) /\ taken < Len(signatures[index])
      /\ next[at][b] = Missing
      /\ next' = WithNode([next EXCEPT ![at][b] = new], new, NoChildren)
      /\ failure_link' = WithNode(failure_link, new, 0)
      /\ output' = WithNode(output, new, {})
      /\ word' = WithNode(word, new, Append(word[at], b))
      /\ at' = new /\ taken' = taken + 1
      /\ UNCHANGED <<signatures, index, byte, pending, phase>>
  BY DEF AddByte, Adding
<1>2. Numbered /\ AutomatonTypeOK /\ NodeInv /\ TrieInv
  BY <1>1 DEF AutomatonInv
<1>3. /\ b \in Bytes /\ at \in States /\ word[at] \in Strings
      /\ Append(word[at], b) = SubSeq(signatures[index], 1, taken + 1)
      /\ taken + 1 <= Len(signatures[index]) /\ taken + 1 \in Nat
  BY <1>1, <1>2, AtByte
<1>4. PICK n \in Nat : States = 0 .. n
  BY <1>2 DEF Numbered
<1>5. new = n + 1
  BY <1>4, NumberedIs
<1>6. new \notin States /\ new \in Nat /\ States \cup {new} = 0 .. n + 1 /\ States \subseteq Nat
  BY <1>4, <1>5
<1> DEFINE x == Append(word[at], b)
<1>7. /\ x \in Strings /\ x # <<>> /\ Len(x) = Len(word[at]) + 1 /\ Len(word[at]) \in Nat
      /\ \A j \in 1 .. Len(word[at]) : x[j] = word[at][j]
  BY <1>3, AppendIs
<1>8. x = SubSeq(signatures[index], 1, taken + 1)
  BY <1>3
<1>9. \A t \in States : word[t] # x
  BY <1>1, <1>2, <1>3 DEF TrieInv, Unlinked
<1>10. States' = States \cup {new}
  BY <1>1 DEF States, WithNode
<1>11. /\ word' = [s \in States' |-> IF s = new THEN x ELSE word[s]]
       /\ output' = [s \in States' |-> IF s = new THEN {} ELSE output[s]]
       /\ failure_link' = [s \in States' |-> IF s = new THEN 0 ELSE failure_link[s]]
  BY <1>1, <1>10 DEF WithNode
<1>12. /\ next' \in [States' -> [Bytes -> States' \cup {Missing}]]
       /\ \A s \in States, c \in Bytes :
            next'[s][c] = IF s = at /\ c = b THEN new ELSE next[s][c]
       /\ \A c \in Bytes : next'[new][c] = Missing
  <2> DEFINE old == [next EXCEPT ![at][b] = new]
  <2>1. next \in [States -> [Bytes -> States \cup {Missing}]]
    BY <1>2 DEF AutomatonTypeOK
  <2>2. /\ old \in [States -> [Bytes -> States' \cup {Missing}]]
        /\ \A s \in States, c \in Bytes : old[s][c] = IF s = at /\ c = b THEN new ELSE next[s][c]
    BY <1>3, <1>10, <2>1
  <2>3. next' = [s \in States' |-> IF s = new THEN NoChildren ELSE old[s]]
    BY <1>1, <1>10 DEF WithNode
  <2> HIDE DEF old
  <2> QED BY <1>6, <1>10, <2>2, <2>3 DEF NoChildren
<1> HIDE DEF b, new, x
<1>13. Numbered' /\ States' = 0 .. Cardinality(States') - 1
  <2>1. States' = 0 .. n + 1 /\ n + 1 \in Nat
    BY <1>6, <1>10
  <2> QED BY <2>1, NumberedIs DEF Numbered
<1>14. AutomatonTypeOK'
  <2>1. 0 \in States'
    BY <1>2, <1>10 DEF NodeInv
  <2>2. word' \in [States' -> Strings] /\ failure_link' \in [States' -> States']
        /\ output' \in [States' -> SUBSET DOMAIN signatures]
    BY <1>2, <1>7, <1>10, <1>11, <2>1 DEF AutomatonTypeOK, NodeInv
  <2>3. pending' \in Seq(States')
    BY <1>1, <1>2, <1>10 DEF TrieInv
  <2> QED BY <1>1, <1>2, <1>3, <1>10, <1>12, <1>13, <2>2, <2>3 DEF AutomatonTypeOK, Strings, new
<1>15. NodeInv'
  <2>1. 0 \in States /\ 0 \in States' /\ word'[0] = <<>> /\ word' \in [States' -> Strings]
    BY <1>2, <1>6, <1>7, <1>10, <1>11 DEF NodeInv
  <2>2. \A s, t \in States' : word'[s] = word'[t] => s = t
    BY <1>2, <1>6, <1>9, <1>10, <1>11 DEF NodeInv
  <2>3. ASSUME NEW t \in States', NEW m \in 0 .. Len(word'[t])
        PROVE  \E s \in States' : word'[s] = SubSeq(word'[t], 1, m)
    <3>1. CASE t # new
      <4>1. t \in States /\ word'[t] = word[t]
        BY <1>10, <1>11, <3>1
      <4>2. PICK s \in States : word[s] = SubSeq(word[t], 1, m)
        BY <1>2, <2>3, <4>1 DEF NodeInv
      <4> QED BY <1>6, <1>10, <1>11, <4>1, <4>2
    <3>2. CASE t = new /\ m = Len(x)
      <4>1. SubSeq(x, 1, Len(x)) = x
        BY <1>7 DEF Strings
      <4> QED BY <1>10, <1>11, <3>2, <4>1
    <3>3. CASE t = new /\ m # Len(x)
      <4>1. word'[t] = x /\ m \in 0 .. Len(word[at])
        BY <1>7, <1>10, <1>11, <2>3, <3>3
      <4>2. SubSeq(x, 1, m) = SubSeq(word[at], 1, m)
        <5>1. \A j \in 1 .. m : x[j] = word[at][j]
          BY <1>7, <4>1
        <5>2. SubSeq(x, 1, m) \in Strings /\ Len(SubSeq(x, 1, m)) = m
              /\ \A j \in 1 .. m : SubSeq(x, 1, m)[j] = x[j]
          BY <1>7, <4>1 DEF Strings
        <5>3. SubSeq(word[at], 1, m) \in Strings /\ Len(SubSeq(word[at], 1, m)) = m
              /\ \A j \in 1 .. m : SubSeq(word[at], 1, m)[j] = word[at][j]
          BY <1>3, <1>7, <4>1 DEF Strings
        <5>4. PICK u \in Strings : u = SubSeq(x, 1, m)
          BY <5>2
        <5>5. PICK v \in Strings : v = SubSeq(word[at], 1, m)
          BY <5>3
        <5>6. Len(u) = m /\ Len(v) = m /\ \A j \in 1 .. m : u[j] = v[j]
          BY <5>1, <5>2, <5>3, <5>4, <5>5
        <5>7. u = v
          BY <5>6 DEF Strings
        <5> QED BY <5>4, <5>5, <5>7
      <4>3. PICK s \in States : word[s] = SubSeq(word[at], 1, m)
        BY <1>2, <1>3, <4>1 DEF NodeInv
      <4> QED BY <1>6, <1>10, <1>11, <4>1, <4>2, <4>3
    <3> QED BY <3>1, <3>2, <3>3
  <2> QED BY <2>1, <2>2, <2>3 DEF NodeInv
<1>16. TrieInv'
  <2>1. taken' <= Len(signatures'[index']) /\ word'[at'] = SubSeq(signatures'[index'], 1, taken')
    BY <1>1, <1>3, <1>8, <1>10, <1>11 DEF new
  <2>2. ASSUME NEW s \in States', NEW c \in Bytes PROVE Unlinked(s, c)'
    <3>1. CASE s = at /\ c = b
      <4>1. next'[s][c] = new /\ word'[new] = x /\ word'[s] = word[s] /\ new \in States'
            /\ new # Missing
        BY <1>3, <1>6, <1>10, <1>11, <1>12, <3>1, BytesAre
      <4> QED BY <3>1, <4>1 DEF Unlinked, x
    <3>2. CASE s \in States /\ ~ (s = at /\ c = b)
      <4>1. next'[s][c] = next[s][c] /\ word'[s] = word[s] /\ Unlinked(s, c) /\ word[s] \in Strings
        BY <1>2, <1>6, <1>10, <1>11, <1>12, <3>2 DEF TrieInv, NodeInv
      <4>2. Append(word[s], c) # x
        <5> SUFFICES ASSUME x = Append(word[s], c) PROVE FALSE
          OBVIOUS
        <5>1. x = Append(word[at], b)
          BY DEF x
        <5>2. word[s] = word[at] /\ c = b
          BY <1>3, <4>1, <5>1, AppendsEqual
        <5> QED BY <1>2, <1>3, <3>2, <5>2 DEF NodeInv
      <4> QED BY <1>6, <1>10, <1>11, <4>1, <4>2 DEF Unlinked
    <3>3. CASE s = new
      <4>1. next'[s][c] = Missing /\ word'[s] = x
        BY <1>11, <1>12, <2>2, <3>3
      <4>2. ASSUME NEW t \in States', word'[t] = Append(x, c) PROVE FALSE
        <5>1. PICK u \in States' : word'[u] = x /\ (t \in States => u \in States)
          <6>1. CASE t \in States
            <7>1. word[t] = Append(x, c)
              BY <1>6, <1>11, <4>2, <6>1
            <7>2. PICK u \in States : word[u] = x
              BY <1>2, <1>7, <6>1, <7>1, ParentIs
            <7> QED BY <1>9, <7>2
          <6>2. CASE t = new
            BY <1>10, <1>11, <6>2
          <6> QED BY <1>10, <6>1, <6>2
        <5>2. CASE t \in States
          BY <1>6, <1>9, <1>10, <1>11, <5>1, <5>2
        <5>3. CASE t = new
          <6>1. x = Append(x, c)
            BY <1>11, <4>2, <5>3
          <6> QED BY <1>7, <6>1, AppendIs
        <5> QED BY <1>10, <5>2, <5>3
      <4> QED BY <4>1, <4>2 DEF Unlinked
    <3> QED BY <1>10, <3>1, <3>2, <3>3
  <2>3. \A i \in 1 .. index - 1 : signatures[i] # <<>> => \E s \in States : word[s] = signatures[i]
    BY <1>2 DEF TrieInv
  <2>4. ASSUME NEW s \in States'
        PROVE  output'[s] = {i \in 1 .. index - 1 : signatures[i] # <<>> /\ signatures[i] = word'[s]}
    <3>1. CASE s \in States
      BY <1>2, <1>6, <1>10, <1>11, <3>1 DEF TrieInv
    <3>2. CASE s = new
      BY <1>9, <1>10, <1>11, <2>3, <3>2
    <3> QED BY <1>10, <3>1, <3>2
  <2>5. \A i \in 1 .. index - 1 : signatures[i] # <<>> => \E s \in States' : word'[s] = signatures[i]
    BY <1>6, <1>10, <1>11, <2>3
  <2> QED BY <1>1, <1>2, <2>1, <2>2, <2>4, <2>5 DEF TrieInv
<1> QED BY <1>1, <1>13, <1>14, <1>15, <1>16 DEF AutomatonInv

LEMMA StartStep == AutomatonInv /\ StartLinks => AutomatonInv'
<1> SUFFICES ASSUME AutomatonInv, StartLinks PROVE AutomatonInv'
  OBVIOUS
<1>1. /\ phase = "trie" /\ index > Len(signatures) /\ phase' = "links"
      /\ UNCHANGED <<signatures, index, taken, at, byte, next, failure_link, output, pending, word>>
  BY DEF StartLinks, loop
<1>2. Numbered /\ AutomatonTypeOK /\ NodeInv /\ TrieInv
  BY <1>1 DEF AutomatonInv
<1>3. NodeInv' /\ States' = States /\ Numbered'
  BY <1>1, <1>2, NodesStay DEF Numbered
<1>4. AutomatonTypeOK'
  BY <1>1, <1>2, <1>3 DEF AutomatonTypeOK
<1>5. /\ Len(signatures) \in Nat /\ DOMAIN signatures = 1 .. Len(signatures)
      /\ \A i \in DOMAIN signatures : signatures[i] \in Strings
      /\ index = Len(signatures) + 1
  <2>1. /\ Len(signatures) \in Nat /\ DOMAIN signatures = 1 .. Len(signatures)
        /\ \A i \in 1 .. Len(signatures) : signatures[i] \in Strings
    BY <1>2, SignaturesAre
  <2>2. index \in 1 .. Len(signatures) + 1
    BY <1>2 DEF AutomatonTypeOK
  <2> QED BY <1>1, <2>1, <2>2
<1>6. 1 .. index - 1 = DOMAIN signatures
  BY <1>5
<1>7. at = 0 /\ byte = 0 /\ pending = <<>> /\ 0 \in States /\ word[0] = <<>>
  BY <1>1, <1>2, <1>5 DEF TrieInv, NodeInv
<1>8. SignaturesAdded
  BY <1>2, <1>6 DEF TrieInv, SignaturesAdded
<1>9. \A s \in States, b \in Bytes : ~ Processed({}, s, b)
  BY <1>7, BytesAre DEF Processed
<1>10. \A s : Met({}, s) <=> s = 0
  BY <1>7 DEF Met
<1>11. MetOnce({})
  BY <1>7, <1>9, <1>10 DEF MetOnce
<1>12. BreadthFirst({})
  <2>1. \A s \in States : ~ (Len(word[s]) < Len(word[at]))
    BY <1>2, <1>7 DEF NodeInv, Strings
  <2> QED BY <1>7, <2>1 DEF BreadthFirst
<1>13. Completed({})
  <2>1. ASSUME NEW t \in States
        PROVE  output[t] = {i \in DOMAIN signatures : signatures[i] # <<>> /\ signatures[i] = word[t]}
    BY <1>2, <1>6 DEF TrieInv
  <2>2. SuffixSignatures(word[0]) =
          {i \in DOMAIN signatures : signatures[i] # <<>> /\ signatures[i] = word[0]}
    <3>1. ASSUME NEW x \in Strings, Suffix(x, <<>>) PROVE x = <<>>
      BY <3>1 DEF Suffix, Strings
    <3> QED BY <1>5, <1>7, <3>1 DEF SuffixSignatures
  <2> QED BY <1>2, <1>9, <1>10, <2>1, <2>2 DEF Completed, TrieInv
<1>14. MetOnce({})' /\ BreadthFirst({})' /\ SignaturesAdded'
  BY <1>1, <1>3, <1>8, <1>11, <1>12
     DEF MetOnce, BreadthFirst, Met, Processed, SignaturesAdded
<1>15. Completed({})'
  BY <1>1, <1>3, <1>9, <1>10, <1>13, UnlinkedStays, LongestStays, MetStays DEF Completed
<1>16. LinkInv'
  BY <1>14, <1>15 DEF LinkInv
<1> QED BY <1>1, <1>3, <1>4, <1>14, <1>16 DEF AutomatonInv
-----------------------------------------------------------------------------
(* The signatures a string ends with: its own, and those that its longest  *)
(* proper suffix in the trie ends with.                                    *)
LEMMA OutputsInherited ==
  ASSUME NodeInv, AutomatonTypeOK, SignaturesAdded, NEW c \in States, NEW f \in States,
         LongestProper(f, word[c])
  PROVE  SuffixSignatures(word[c]) =
           {i \in DOMAIN signatures : signatures[i] # <<>> /\ signatures[i] = word[c]}
             \cup SuffixSignatures(word[f])
<1>1. word[c] \in Strings /\ word[f] \in Strings /\ Suffix(word[f], word[c])
  BY DEF NodeInv, LongestProper
<1>2. ASSUME NEW i \in DOMAIN signatures, signatures[i] # <<>>
      PROVE  Suffix(signatures[i], word[c]) <=>
               signatures[i] = word[c] \/ Suffix(signatures[i], word[f])
  <2>1. PICK u \in States : word[u] = signatures[i]
    BY <1>2 DEF SignaturesAdded
  <2>2. word[u] \in Strings
    BY DEF NodeInv
  <2>3. ASSUME Suffix(word[u], word[c]), word[u] # word[c] PROVE Suffix(word[u], word[f])
    <3>1. Len(word[u]) \in Nat /\ Len(word[c]) \in Nat /\ Len(word[u]) <= Len(word[c])
      BY <1>1, <2>2, <2>3 DEF Suffix, Strings
    <3>2. Len(word[u]) # Len(word[c])
      BY <1>1, <2>2, <2>3, SuffixEqual
    <3>3. Len(word[u]) <= Len(word[f])
      BY <2>3, <3>1, <3>2 DEF LongestProper
    <3> QED BY <1>1, <2>2, <2>3, <3>3, SuffixOfBoth
  <2>4. Suffix(word[u], word[f]) => Suffix(word[u], word[c])
    BY <1>1, <2>2, SuffixTransitive
  <2>5. Suffix(word[c], word[c])
    BY <1>1, SuffixReflexive
  <2> QED BY <2>1, <2>3, <2>4, <2>5
<1> QED BY <1>2 DEF SuffixSignatures

(* What the search needs at every byte: the state for the longest proper   *)
(* suffix of the string with that byte, met before.                        *)
LinkingTo(below, done) ==
  /\ Numbered /\ AutomatonTypeOK /\ NodeInv /\ SignaturesAdded
  /\ MetOnce(done) /\ BreadthFirst(done) /\ Completed(done)
  /\ phase = "links" /\ byte \in Bytes
  /\ below \in States /\ Met(done, below) /\ LongestProper(below, Append(word[at], byte))

(* The byte has no child: the transition leads to that state.              *)
LEMMA MissingStep ==
  ASSUME NEW done \in SUBSET States, NEW below, LinkingTo(below, done),
         next[at][byte] = Missing,
         next' = [next EXCEPT ![at][byte] = below], byte' = byte + 1,
         UNCHANGED <<signatures, index, taken, at, failure_link, output, pending, phase, word>>
  PROVE  AutomatonInv'
<1>1. /\ Numbered /\ AutomatonTypeOK /\ NodeInv /\ SignaturesAdded
      /\ MetOnce(done) /\ BreadthFirst(done) /\ Completed(done)
      /\ phase = "links" /\ byte \in Bytes
      /\ below \in States /\ Met(done, below) /\ LongestProper(below, Append(word[at], byte))
  BY DEF LinkingTo
<1>2. PICK b \in Bytes : b = byte
  BY <1>1
<1>3. PICK a \in States : a = at
  BY <1>1 DEF AutomatonTypeOK
<1>4. b \in Nat /\ byte' \in 0 .. LastByte + 1 /\ \A c \in Bytes : c \in Nat
  BY <1>1, <1>2, BytesAre DEF Bytes
<1>5. next \in [States -> [Bytes -> States \cup {Missing}]]
  BY <1>1 DEF AutomatonTypeOK
<1>6. /\ next' \in [States -> [Bytes -> States \cup {Missing}]]
      /\ \A s \in States, c \in Bytes :
           next'[s][c] = IF s = a /\ c = b THEN below ELSE next[s][c]
  BY <1>1, <1>2, <1>3, <1>5
<1>7. States' = States /\ NodeInv'
  BY <1>1, <1>5, <1>6, NodesAre DEF States
<1>8. AutomatonTypeOK' /\ Numbered' /\ SignaturesAdded'
  BY <1>1, <1>4, <1>6, <1>7 DEF AutomatonTypeOK, Numbered, SignaturesAdded
<1>9. \A s, c : Processed(done, s, c) <=> s \in done \/ (s = a /\ c < b)
  BY <1>2, <1>3 DEF Processed
<1>10. \A s : \A c \in Bytes : Processed(done, s, c)' <=> Processed(done, s, c) \/ (s = a /\ c = b)
  BY <1>2, <1>3, <1>4, <1>9 DEF Processed
<1>11. a \notin done /\ ~ Processed(done, a, b)
  BY <1>1, <1>3, <1>4, <1>9 DEF MetOnce
<1>12. Unlinked(a, b) /\ next[a][b] = Missing
  BY <1>1, <1>2, <1>3, <1>11 DEF Completed
<1>13. \A t \in States : word[t] # Append(word[a], b)
  BY <1>12 DEF Unlinked
<1>14. Longest(below, Append(word[a], b))
  <2>1. Append(word[a], b) \in Strings
    BY <1>1, AppendIs DEF NodeInv
  <2>2. LongestProper(below, Append(word[a], b))
    BY <1>1, <1>2, <1>3
  <2> QED BY <1>1, <1>13, <2>1, <2>2, LinkIsLongest
<1>15. \A s : Met(done, s)' <=> Met(done, s)
  BY DEF Met
<1>16. MetOnce(done)'
  <2>1. ASSUME NEW t \in States
        PROVE  (\E s \in States, c \in Bytes : Processed(done, s, c)' /\ word[t] = Append(word[s], c))
                 <=> \E s \in States, c \in Bytes : Processed(done, s, c) /\ word[t] = Append(word[s], c)
    BY <1>10, <1>13
  <2> QED BY <1>1, <1>7, <1>15, <2>1 DEF MetOnce
<1>17. BreadthFirst(done)'
  BY <1>1, <1>7 DEF BreadthFirst
<1>18. Completed(done)'
  <2>1. \A t \in States : Met(done, t) /\ t # 0 =>
          failure_link[t] \in States /\ LongestProper(failure_link[t], word[t])'
    BY <1>1, <1>7 DEF Completed, LongestProper
  <2>2. ASSUME NEW s \in States, NEW c \in Bytes
        PROVE  IF Processed(done, s, c)'
               THEN next'[s][c] \in States /\ Longest(next'[s][c], Append(word[s], c))
               ELSE Unlinked(s, c)'
    <3>1. CASE s = a /\ c = b
      BY <1>1, <1>6, <1>10, <1>14, <3>1
    <3>2. CASE ~ (s = a /\ c = b)
      BY <1>1, <1>6, <1>7, <1>10, <3>2 DEF Completed, Unlinked
    <3> QED BY <3>1, <3>2
  <2>3. \A s \in States : \A x : Longest(s, x)' <=> Longest(s, x)
    BY <1>7 DEF Longest
  <2>4. \A t \in States :
          output[t] = IF Met(done, t) THEN SuffixSignatures(word[t])'
                      ELSE {i \in DOMAIN signatures : signatures[i] # <<>> /\ signatures[i] = word[t]}
    BY <1>1 DEF Completed, SuffixSignatures
  <2> QED BY <1>7, <1>15, <2>1, <2>2, <2>3, <2>4 DEF Completed
<1>19. LinkInv'
  BY <1>7, <1>16, <1>17, <1>18 DEF LinkInv
<1> QED BY <1>1, <1>7, <1>8, <1>19 DEF AutomatonInv

(* The byte has a child: it is met now, its link leads to that state, and  *)
(* it inherits the state's outputs.                                        *)
LEMMA ChildStep ==
  ASSUME NEW done \in SUBSET States, NEW below, LinkingTo(below, done),
         NEW child, child = next[at][byte], child # Missing,
         failure_link' = [failure_link EXCEPT ![child] = below],
         output' = [output EXCEPT ![child] = @ \cup output[below]],
         pending' = Append(pending, child), byte' = byte + 1,
         UNCHANGED <<signatures, index, taken, at, next, phase, word>>
  PROVE  AutomatonInv'
<1>1. /\ Numbered /\ AutomatonTypeOK /\ NodeInv /\ SignaturesAdded
      /\ MetOnce(done) /\ BreadthFirst(done) /\ Completed(done)
      /\ phase = "links" /\ byte \in Bytes
      /\ below \in States /\ Met(done, below) /\ LongestProper(below, Append(word[at], byte))
  BY DEF LinkingTo
<1>2. PICK b \in Bytes : b = byte
  BY <1>1
<1>3. PICK a \in States : a = at
  BY <1>1 DEF AutomatonTypeOK
<1>4. b \in Nat /\ byte' \in 0 .. LastByte + 1 /\ \A c \in Bytes : c \in Nat
  BY <1>1, <1>2, BytesAre DEF Bytes
<1>5. States' = States /\ NodeInv'
  BY <1>1, NodesStay
<1>6. \A s, c : Processed(done, s, c) <=> s \in done \/ (s = a /\ c < b)
  BY <1>2, <1>3 DEF Processed
<1>7. \A s : \A c \in Bytes : Processed(done, s, c)' <=> Processed(done, s, c) \/ (s = a /\ c = b)
  <2>1. at' = at /\ byte' = byte + 1
    OBVIOUS
  <2>2. \A s, c : Processed(done, s, c)' <=> s \in done \/ (s = a /\ c < b + 1)
    BY ONLY <1>2, <1>3, <2>1 DEF Processed
  <2>3. \A c \in Bytes : c < b + 1 <=> c < b \/ c = b
    BY ONLY <1>4
  <2> QED BY ONLY <1>6, <2>2, <2>3
<1>8. a \notin done /\ ~ Processed(done, a, b)
  BY <1>1, <1>3, <1>4, <1>6 DEF MetOnce
<1>9. Unlinked(a, b) /\ next[a][b] = child
  BY <1>1, <1>2, <1>3, <1>8 DEF Completed
<1>10. child \in States /\ word[child] = Append(word[a], b)
  BY <1>9 DEF Unlinked
<1>11. /\ word[a] \in Strings /\ word[child] \in Strings /\ word[child] # <<>>
       /\ Len(word[child]) = Len(word[a]) + 1 /\ Len(word[a]) \in Nat /\ child # 0
  <2>1. word[a] \in Strings /\ word[child] \in Strings /\ word[0] = <<>>
    BY ONLY <1>1, <1>10, a \in States DEF NodeInv
  <2>2. IsAppended(word[child], word[a], b)
    BY ONLY <1>10, <2>1, b \in Bytes, AppendedIs, Zenon
  <2>3. Len(<<>>) = 0 /\ Len(word[child]) # 0
    BY ONLY <2>2 DEF IsAppended
  <2> QED BY ONLY <2>1, <2>2, <2>3 DEF IsAppended
<1>12. ~ Met(done, child)
  <2> SUFFICES ASSUME Met(done, child) PROVE FALSE
    OBVIOUS
  <2>1. PICK s \in States, c \in Bytes : Processed(done, s, c) /\ word[child] = Append(word[s], c)
    BY <1>1, <1>10, <1>11 DEF MetOnce
  <2>2. word[s] \in Strings
    BY <1>1 DEF NodeInv
  <2>3. word[s] = word[a] /\ c = b
    <3>1. PICK x : x = word[child]
      OBVIOUS
    <3>2. x = Append(word[a], b) /\ x = Append(word[s], c)
      BY ONLY <1>10, <2>1, <3>1, Zenon
    <3> QED BY ONLY <1>11, <2>2, <3>2, b \in Bytes, c \in Bytes, AppendsEqual
  <2> QED BY <1>1, <1>8, <2>1, <2>3 DEF NodeInv
<1>13. LongestProper(below, word[child])
  BY <1>1, <1>2, <1>3, <1>10
<1>14. PICK n \in Nat : n = Len(pending)
  BY <1>1 DEF AutomatonTypeOK
<1>15. /\ pending' \in Seq(States) /\ DOMAIN pending = 1 .. n /\ DOMAIN pending' = 1 .. n + 1
       /\ pending'[n + 1] = child /\ \A i \in 1 .. n : pending'[i] = pending[i]
       /\ \A i \in 1 .. n : pending[i] \in States
  BY <1>1, <1>10, <1>14 DEF AutomatonTypeOK
<1>16. \A s : Met(done, s)' <=> Met(done, s) \/ s = child
  BY <1>15 DEF Met
<1>17. /\ failure_link' \in [States -> States]
       /\ \A t \in States : failure_link'[t] = IF t = child THEN below ELSE failure_link[t]
  BY <1>1, <1>10 DEF AutomatonTypeOK
<1>18. /\ output' \in [States -> SUBSET DOMAIN signatures]
       /\ \A t \in States :
            output'[t] = IF t = child THEN output[child] \cup output[below] ELSE output[t]
  BY <1>1, <1>10 DEF AutomatonTypeOK
<1>19. AutomatonTypeOK' /\ Numbered' /\ SignaturesAdded'
  BY <1>1, <1>4, <1>5, <1>15, <1>17, <1>18 DEF AutomatonTypeOK, Numbered, SignaturesAdded
<1>20. MetOnce(done)'
  <2>1. \A i \in 1 .. n : pending[i] # child /\ pending[i] \notin done /\ pending[i] # a
    BY <1>1, <1>3, <1>12, <1>15 DEF Met, MetOnce
  <2>2. child \notin done /\ child # a
    BY <1>3, <1>12 DEF Met
  <2>3. \A i, j \in 1 .. n : i # j => pending[i] # pending[j]
    BY <1>1, <1>15 DEF MetOnce
  <2>4. \A i \in DOMAIN pending' : pending'[i] \notin done /\ pending'[i] # a
    BY <1>14, <1>15, <2>1, <2>2
  <2>5. \A i, j \in DOMAIN pending' : i # j => pending'[i] # pending'[j]
    BY <1>14, <1>15, <2>1, <2>3
  <2>6. ASSUME NEW t \in States
        PROVE  (Met(done, t) \/ t = child) <=>
                 (t = 0 \/ \E s \in States, c \in Bytes :
                             Processed(done, s, c)' /\ word[t] = Append(word[s], c))
    <3>1. Met(done, t) <=>
            (t = 0 \/ \E s \in States, c \in Bytes : Processed(done, s, c) /\ word[t] = Append(word[s], c))
      BY <1>1 DEF MetOnce
    <3>2. word[t] = Append(word[a], b) => t = child
      BY <1>1, <1>10 DEF NodeInv
    <3> QED BY <1>7, <1>10, <3>1, <3>2
  <2> QED BY <1>3, <1>5, <1>8, <1>16, <2>4, <2>5, <2>6 DEF MetOnce
<1>21. BreadthFirst(done)'
  <2>1. \A i \in 1 .. n : Len(word[a]) <= Len(word[pending[i]])
                          /\ Len(word[pending[i]]) <= Len(word[a]) + 1
    BY <1>1, <1>3, <1>15 DEF BreadthFirst
  <2>2. \A i, j \in 1 .. n : i < j => Len(word[pending[i]]) <= Len(word[pending[j]])
    BY <1>1, <1>15 DEF BreadthFirst
  <2>3. \A i \in DOMAIN pending' : Len(word[a]) <= Len(word[pending'[i]])
                                   /\ Len(word[pending'[i]]) <= Len(word[a]) + 1
    BY <1>11, <1>14, <1>15, <2>1
  <2>4. \A i, j \in DOMAIN pending' : i < j => Len(word[pending'[i]]) <= Len(word[pending'[j]])
    BY <1>11, <1>14, <1>15, <2>1, <2>2
  <2>5. \A s \in States : Len(word[s]) < Len(word[a]) => s \in done
    BY <1>1, <1>3 DEF BreadthFirst
  <2>6. \A s \in done : Len(word[s]) <= Len(word[a])
    BY <1>1, <1>3 DEF BreadthFirst
  <2> QED BY <1>3, <1>5, <2>3, <2>4, <2>5, <2>6 DEF BreadthFirst
<1>22. Completed(done)'
  <2>1. ASSUME NEW t \in States, Met(done, t)', t # 0
        PROVE  failure_link'[t] \in States /\ LongestProper(failure_link'[t], word[t])
    <3>1. CASE t = child
      BY <1>1, <1>13, <1>17, <3>1
    <3>2. CASE t # child
      BY <1>1, <1>16, <1>17, <2>1, <3>2 DEF Completed
    <3> QED BY <3>1, <3>2
  <2>2. ASSUME NEW s \in States, NEW c \in Bytes
        PROVE  IF Processed(done, s, c)'
               THEN next[s][c] \in States /\ Longest(next[s][c], Append(word[s], c))
               ELSE Unlinked(s, c)
    <3>1. CASE s = a /\ c = b
      <4>1. Longest(child, word[child])
        <5>1. \A t \in States : Suffix(word[t], word[child]) => Len(word[t]) <= Len(word[child])
          BY DEF Suffix
        <5> QED BY <1>11, <5>1, SuffixReflexive DEF Longest
      <4> QED BY <1>7, <1>9, <1>10, <3>1, <4>1
    <3>2. CASE ~ (s = a /\ c = b)
      BY <1>1, <1>7, <3>2 DEF Completed
    <3> QED BY <3>1, <3>2
  <2>3. ASSUME NEW t \in States
        PROVE  output'[t] = IF Met(done, t)' THEN SuffixSignatures(word[t])
                            ELSE {i \in DOMAIN signatures : signatures[i] # <<>> /\ signatures[i] = word[t]}
    <3>1. CASE t = child
      <4>1. output[child] = {i \in DOMAIN signatures : signatures[i] # <<>> /\ signatures[i] = word[child]}
        BY <1>1, <1>10, <1>12 DEF Completed
      <4>2. output[below] = SuffixSignatures(word[below])
        BY <1>1 DEF Completed
      <4>3. output'[child] = SuffixSignatures(word[child])
        BY <1>1, <1>10, <1>13, <1>18, <4>1, <4>2, OutputsInherited
      <4> QED BY <1>16, <3>1, <4>3
    <3>2. CASE t # child
      BY <1>1, <1>16, <1>18, <3>2 DEF Completed
    <3> QED BY <3>1, <3>2
  <2>4. \A s \in States : \A c \in Bytes : Unlinked(s, c)' <=> Unlinked(s, c)
    BY UnlinkedStays
  <2>5. \A s \in States : \A x :
          /\ Longest(s, x)' <=> Longest(s, x)
          /\ LongestProper(s, x)' <=> LongestProper(s, x)
          /\ SuffixSignatures(x)' = SuffixSignatures(x)
    BY <1>5 DEF Longest, LongestProper, SuffixSignatures
  <2> QED BY <1>5, <2>1, <2>2, <2>3, <2>4, <2>5 DEF Completed
<1>23. LinkInv'
  BY <1>5, <1>20, <1>21, <1>22 DEF LinkInv
<1> QED BY <1>1, <1>5, <1>19, <1>23 DEF AutomatonInv

(* The root: all its links lead back to it.                                *)
LEMMA LinkRootStep == AutomatonInv /\ LinkRootByte => AutomatonInv'
<1> SUFFICES ASSUME AutomatonInv, LinkRootByte PROVE AutomatonInv'
  OBVIOUS
<1>1. /\ phase = "links" /\ byte <= LastByte /\ at = 0 /\ byte' = byte + 1
      /\ UNCHANGED <<signatures, index, taken, at, output, phase, word>>
  BY DEF LinkRootByte, Linking
<1>2. Numbered /\ AutomatonTypeOK /\ NodeInv /\ SignaturesAdded /\ LinkInv
  BY <1>1 DEF AutomatonInv
<1>3. PICK done \in SUBSET States : MetOnce(done) /\ BreadthFirst(done) /\ Completed(done)
  BY <1>2 DEF LinkInv
<1>4. byte \in Bytes
  BY <1>1, <1>2, BytesAre DEF AutomatonTypeOK, Bytes
<1>5. 0 \in States /\ word[0] = <<>> /\ <<>> \in Strings /\ Met(done, 0)
  BY <1>1, <1>2 DEF NodeInv, Met
<1>6. LongestProper(0, Append(word[at], byte))
  <2>1. PICK x \in Strings : x = Append(word[at], byte)
    BY <1>1, <1>4, <1>5, AppendIs
  <2>2. Len(x) = 1
    BY <1>1, <1>4, <1>5, <2>1, AppendIs
  <2>3. Suffix(word[0], x) /\ Len(word[0]) < Len(x)
    BY <1>5, <2>1, <2>2, SuffixReflexive
  <2>4. ASSUME NEW t \in States, Len(word[t]) < Len(x) PROVE Len(word[t]) <= Len(word[0])
    <3>1. Len(word[t]) \in Nat
      BY <1>2 DEF NodeInv, Strings
    <3> QED BY <1>5, <2>2, <2>4, <3>1
  <2>5. LongestProper(0, x)
    BY <2>3, <2>4 DEF LongestProper
  <2> QED BY <2>1, <2>5
<1>7. LinkingTo(0, done)
  BY <1>1, <1>2, <1>3, <1>4, <1>5, <1>6 DEF LinkingTo
<1>8. CASE next[at][byte] = Missing
  <2>1. next' = [next EXCEPT ![at][byte] = 0] /\ UNCHANGED <<failure_link, pending>>
    BY <1>1, <1>8 DEF LinkRootByte
  <2> QED BY <1>1, <1>7, <1>8, <2>1, MissingStep
<1>9. CASE next[at][byte] # Missing
  <2>1. PICK child : child = next[at][byte]
    OBVIOUS
  <2>2. /\ failure_link' = [failure_link EXCEPT ![child] = 0]
        /\ pending' = Append(pending, child) /\ UNCHANGED next
    BY <1>1, <1>9, <2>1 DEF LinkRootByte
  <2>3. output[0] = {}
    <3>1. output[0] = SuffixSignatures(<<>>)
      BY <1>3, <1>5 DEF Completed
    <3>2. \A i \in DOMAIN signatures : signatures[i] \in Strings
      BY <1>2, SignaturesAre
    <3>3. ASSUME NEW x \in Strings, Suffix(x, <<>>) PROVE x = <<>>
      BY <3>3 DEF Suffix, Strings
    <3> QED BY <3>1, <3>2, <3>3 DEF SuffixSignatures
  <2>4. output' = [output EXCEPT ![child] = @ \cup output[0]]
    BY <1>1, <1>2, <2>3 DEF AutomatonTypeOK
  <2>5. child # Missing
    BY <1>9, <2>1
  <2> QED BY <1>1, <1>7, <2>1, <2>2, <2>4, <2>5, ChildStep
<1> QED BY <1>8, <1>9

(* A state other than the root: where its link leads, the search is done.  *)
LEMMA LinkStep == AutomatonInv /\ LinkByte => AutomatonInv'
<1> SUFFICES ASSUME AutomatonInv, LinkByte PROVE AutomatonInv'
  OBVIOUS
<1>1. /\ phase = "links" /\ byte <= LastByte /\ at # 0 /\ byte' = byte + 1
      /\ UNCHANGED <<signatures, index, taken, at, phase, word>>
  BY DEF LinkByte, Linking
<1>2. Numbered /\ AutomatonTypeOK /\ NodeInv /\ SignaturesAdded /\ LinkInv
  BY <1>1 DEF AutomatonInv
<1>3. PICK done \in SUBSET States : MetOnce(done) /\ BreadthFirst(done) /\ Completed(done)
  BY <1>2 DEF LinkInv
<1>4. byte \in Bytes /\ at \in States
  BY <1>1, <1>2, BytesAre DEF AutomatonTypeOK, Bytes
<1>5. PICK b \in Bytes : b = byte
  BY <1>4
<1>6. PICK f \in States : f = failure_link[at]
  BY <1>2, <1>4 DEF AutomatonTypeOK
<1>7. LongestProper(f, word[at])
  BY <1>1, <1>3, <1>4, <1>6 DEF Completed, Met
<1>8. f \in done /\ Len(word[f]) < Len(word[at])
  BY <1>3, <1>7 DEF BreadthFirst, LongestProper
<1>9. PICK below : below = next[f][b]
  OBVIOUS
<1>10. below \in States /\ Longest(below, Append(word[f], b))
  BY <1>3, <1>8, <1>9 DEF Completed, Processed
<1>11. LongestProper(below, Append(word[at], b))
  BY <1>2, <1>4, <1>7, <1>10, LinkExtends
<1>12. Met(done, below)
  <2>1. CASE below = 0
    BY <1>3, <1>10, <2>1 DEF MetOnce
  <2>2. CASE below # 0
    <3>1. word[below] \in Strings /\ word[f] \in Strings /\ word[below] # <<>>
      BY <1>2, <1>10, <2>2 DEF NodeInv
    <3>2. Suffix(word[below], Append(word[f], b))
      BY <1>10 DEF Longest
    <3>3. PICK y \in Strings : word[below] = Append(y, b) /\ Suffix(y, word[f])
      BY <3>1, <3>2, LastOfSuffix
    <3>4. PICK v \in States : word[v] = y
      BY <1>2, <1>10, <3>3, ParentIs
    <3>5. Len(word[v]) < Len(word[at])
      <4>1. Len(y) <= Len(word[f]) /\ Len(y) \in Nat /\ Len(word[f]) \in Nat /\ Len(word[at]) \in Nat
        BY <1>2, <1>4, <3>1, <3>3 DEF Suffix, NodeInv, Strings
      <4> QED BY <1>8, <3>4, <4>1
    <3>6. v \in done
      BY <1>3, <3>5 DEF BreadthFirst
    <3>7. Processed(done, v, b) /\ word[below] = Append(word[v], b)
      BY <3>3, <3>4, <3>6 DEF Processed
    <3> QED BY <1>3, <1>10, <3>7 DEF MetOnce
  <2> QED BY <2>1, <2>2
<1>13. LinkingTo(below, done)
  BY <1>1, <1>2, <1>3, <1>4, <1>5, <1>10, <1>11, <1>12 DEF LinkingTo
<1>14. below = next[failure_link[at]][byte]
  BY <1>5, <1>6, <1>9
<1>15. CASE next[at][byte] = Missing
  <2>1. next' = [next EXCEPT ![at][byte] = below] /\ UNCHANGED <<failure_link, output, pending>>
    BY <1>1, <1>14, <1>15 DEF LinkByte
  <2> QED BY <1>1, <1>13, <1>15, <2>1, MissingStep
<1>16. CASE next[at][byte] # Missing
  <2>1. PICK child : child = next[at][byte]
    OBVIOUS
  <2>2. /\ failure_link' = [failure_link EXCEPT ![child] = below]
        /\ output' = [output EXCEPT ![child] = @ \cup output[below]]
        /\ pending' = Append(pending, child) /\ UNCHANGED next
    BY <1>1, <1>14, <1>16, <2>1 DEF LinkByte
  <2>3. child # Missing
    BY <1>16, <2>1
  <2> QED BY <1>1, <1>13, <2>1, <2>2, <2>3, ChildStep
<1> QED BY <1>15, <1>16
-----------------------------------------------------------------------------
LEMMA NotEmptyIs ==
  ASSUME NEW S, NEW x \in Seq(S), x # <<>>
  PROVE  \E n \in Nat : Len(x) = n + 1
<1>1. Len(x) \in Nat /\ Len(x) # 0
  OBVIOUS
<1>2. Len(x) - 1 \in Nat /\ Len(x) = (Len(x) - 1) + 1
  BY <1>1
<1> QED BY <1>2

LEMMA ParentOf ==
  ASSUME NodeInv, NEW t \in States, word[t] # <<>>
  PROVE  \E s \in States, b \in Bytes :
           word[t] = Append(word[s], b) /\ Len(word[t]) = Len(word[s]) + 1
<1>1. PICK x \in Strings : x = word[t]
  BY DEF NodeInv
<1>2. PICK n \in Nat : Len(x) = n + 1 /\ n < Len(x)
  <2>1. x \in Seq(Bytes) /\ x # <<>>
    BY <1>1 DEF Strings
  <2>2. PICK n \in Nat : Len(x) = n + 1
    BY <2>1, NotEmptyIs
  <2> QED BY <2>2
<1>3. SubSeq(x, 1, n + 1) = x
  BY <1>2 DEF Strings
<1>4. PICK b \in Bytes : b = x[n + 1]
  BY <1>2, NextByte
<1>5. PICK y \in Strings : y = SubSeq(x, 1, n)
  <2>1. SubSeq(x, 1, n) \in Strings
    BY <1>2, NextByte
  <2> QED BY <2>1
<1>6. word[t] = Append(y, b)
  <2>1. Append(SubSeq(x, 1, n), x[n + 1]) = SubSeq(x, 1, n + 1)
    BY <1>2, NextByte
  <2> QED BY <1>1, <1>3, <1>4, <1>5, <2>1
<1>7. Len(y) = n
  BY <1>2, <1>5 DEF Strings
<1>8. PICK s \in States : word[s] = y
  BY <1>6, ParentIs
<1> QED BY <1>1, <1>2, <1>6, <1>7, <1>8

(* Every state that is not longer than the one under way was met.          *)
LEMMA ShortIsMet ==
  ASSUME NodeInv, NEW done \in SUBSET States, MetOnce(done), BreadthFirst(done),
         at \in States, NEW s \in States, Len(word[s]) <= Len(word[at])
  PROVE  Met(done, s)
<1>1. CASE word[s] = <<>>
  BY <1>1 DEF NodeInv, MetOnce
<1>2. CASE word[s] # <<>>
  <2>1. PICK p \in States, b \in Bytes :
          word[s] = Append(word[p], b) /\ Len(word[s]) = Len(word[p]) + 1
    BY <1>2, ParentOf
  <2>2. Len(word[p]) \in Nat /\ Len(word[at]) \in Nat
    BY DEF NodeInv, Strings
  <2>3. p \in done
    BY <2>1, <2>2 DEF BreadthFirst
  <2> QED BY <2>1, <2>3 DEF MetOnce, Processed
<1> QED BY <1>1, <1>2

(* The state under way is done, and the next is the first that was met.    *)
LEMMA NextStateStep == AutomatonInv /\ NextState => AutomatonInv'
<1> SUFFICES ASSUME AutomatonInv, NextState PROVE AutomatonInv'
  OBVIOUS
<1>1. /\ phase = "links" /\ byte > LastByte /\ pending # <<>>
      /\ at' = Head(pending) /\ pending' = Tail(pending) /\ byte' = 0
      /\ UNCHANGED <<signatures, index, taken, next, failure_link, output, phase, word>>
  BY DEF NextState
<1>2. Numbered /\ AutomatonTypeOK /\ NodeInv /\ SignaturesAdded /\ LinkInv
  BY <1>1 DEF AutomatonInv
<1>3. PICK done \in SUBSET States : MetOnce(done) /\ BreadthFirst(done) /\ Completed(done)
  BY <1>2 DEF LinkInv
<1>4. PICK a \in States : a = at
  BY <1>2 DEF AutomatonTypeOK
<1>5. PICK n \in Nat : Len(pending) = n + 1
  <2>1. pending \in Seq(States)
    BY <1>2 DEF AutomatonTypeOK
  <2> QED BY <1>1, <2>1, NotEmptyIs
<1>6. PICK h \in States : h = pending[1] /\ h = at'
  BY <1>1, <1>2, <1>5 DEF AutomatonTypeOK
<1>7. /\ pending' \in Seq(States) /\ DOMAIN pending = 1 .. n + 1 /\ DOMAIN pending' = 1 .. n
      /\ \A i \in 1 .. n : pending'[i] = pending[i + 1]
      /\ \A i \in 1 .. n + 1 : pending[i] \in States
  BY <1>1, <1>2, <1>5 DEF AutomatonTypeOK
<1>8. States' = States /\ NodeInv'
  BY <1>1, <1>2, NodesStay
<1>9. AutomatonTypeOK' /\ Numbered' /\ SignaturesAdded'
  <2>1. at' \in States /\ byte' \in 0 .. LastByte + 1
    BY <1>1, <1>6, BytesAre
  <2>2. Numbered' /\ SignaturesAdded'
    BY <1>1, <1>2, <1>8 DEF Numbered, SignaturesAdded
  <2> QED BY <1>1, <1>2, <1>7, <1>8, <2>1, <2>2 DEF AutomatonTypeOK
<1> DEFINE now == done \cup {a}
<1>10. now \in SUBSET States
  BY <1>3, <1>4
<1>11. \A s : \A c \in Bytes : (Processed(done, s, c) <=> s \in now) /\ (Processed(now, s, c)' <=> s \in now)
  <2>1. byte = LastByte + 1
    BY <1>1, <1>2, BytesAre DEF AutomatonTypeOK
  <2>2. \A c \in Bytes : c < byte /\ ~ (c < 0)
    BY <2>1, BytesAre DEF Bytes
  <2> QED BY <1>1, <1>4, <2>2 DEF Processed
<1>12. \A s : Met(done, s) <=> s \in now \/ \E i \in 1 .. n + 1 : pending[i] = s
  BY <1>4, <1>7 DEF Met
<1>13. \A s : Met(now, s)' <=> s \in now \/ \E i \in 1 .. n + 1 : pending[i] = s
  <2>1. \A s : (\E i \in 1 .. n + 1 : pending[i] = s) <=> s = h \/ \E i \in 1 .. n : pending'[i] = s
    <3>1. \A i \in 1 .. n + 1 : i = 1 \/ i - 1 \in 1 .. n
      OBVIOUS
    <3>2. \A i \in 1 .. n : i + 1 \in 1 .. n + 1
      OBVIOUS
    <3>3. ASSUME NEW s, NEW i \in 1 .. n + 1, pending[i] = s
          PROVE  s = h \/ \E j \in 1 .. n : pending'[j] = s
      <4>1. CASE i = 1
        BY <1>6, <3>3, <4>1
      <4>2. CASE i # 1
        <5>1. PICK j \in 1 .. n : i = j + 1
          BY <3>1, <4>2
        <5> QED BY <1>7, <3>3, <5>1
      <4> QED BY <4>1, <4>2
    <3>4. ASSUME NEW s, NEW i \in 1 .. n, pending'[i] = s PROVE \E j \in 1 .. n + 1 : pending[j] = s
      BY <1>7, <3>2, <3>4
    <3>5. 1 \in 1 .. n + 1
      OBVIOUS
    <3> QED BY <1>6, <3>3, <3>4, <3>5
  <2>2. \A s : Met(now, s)' <=> s \in now \/ s = h \/ \E i \in 1 .. n : pending'[i] = s
    BY <1>6, <1>7 DEF Met
  <2> QED BY <2>1, <2>2
<1> HIDE DEF now
<1>14. \A i \in 1 .. n + 1 : pending[i] \notin now
  BY <1>3, <1>4, <1>7 DEF MetOnce, now
<1>15. \A i, j \in 1 .. n + 1 : i # j => pending[i] # pending[j]
  BY <1>3, <1>7 DEF MetOnce
<1>16. MetOnce(now)'
  <2>1. h \notin now
    <3>1. 1 \in 1 .. n + 1
      OBVIOUS
    <3> QED BY <1>6, <1>14, <3>1
  <2>2. \A i \in 1 .. n : pending'[i] \notin now /\ pending'[i] # h
    <3> TAKE i \in 1 .. n
    <3>1. i + 1 \in 1 .. n + 1 /\ 1 \in 1 .. n + 1 /\ i + 1 # 1
      OBVIOUS
    <3> QED BY <1>6, <1>7, <1>14, <1>15, <3>1
  <2>3. \A i, j \in 1 .. n : i # j => pending'[i] # pending'[j]
    <3> TAKE i, j \in 1 .. n
    <3>1. i + 1 \in 1 .. n + 1 /\ j + 1 \in 1 .. n + 1 /\ (i # j => i + 1 # j + 1)
      OBVIOUS
    <3> QED BY <1>7, <1>15, <3>1
  <2>4. ASSUME NEW t \in States
        PROVE  Met(now, t)' <=>
                 (t = 0 \/ \E s \in States, b \in Bytes : Processed(now, s, b)' /\ word[t] = Append(word[s], b))
    <3>1. Met(done, t) <=>
            (t = 0 \/ \E s \in States, b \in Bytes : Processed(done, s, b) /\ word[t] = Append(word[s], b))
      BY <1>3 DEF MetOnce
    <3> QED BY <1>11, <1>12, <1>13, <3>1
  <2> QED BY <1>1, <1>6, <1>7, <1>8, <2>1, <2>2, <2>3, <2>4 DEF MetOnce
<1>17. BreadthFirst(now)'
  <2>1. \A s \in States : Len(word[s]) \in Nat
    BY <1>2 DEF NodeInv, Strings
  <2>2. /\ \A i, j \in 1 .. n + 1 : i < j => Len(word[pending[i]]) <= Len(word[pending[j]])
        /\ \A i \in 1 .. n + 1 : Len(word[a]) <= Len(word[pending[i]])
                                 /\ Len(word[pending[i]]) <= Len(word[a]) + 1
    BY <1>3, <1>4, <1>7 DEF BreadthFirst
  <2>3. \A i \in 1 .. n + 1 : Len(word[h]) <= Len(word[pending[i]])
    <3> TAKE i \in 1 .. n + 1
    <3>1. 1 \in 1 .. n + 1 /\ (i = 1 \/ 1 < i)
      OBVIOUS
    <3>2. CASE i = 1
      <4>1. pending[i] = h
        BY <1>6, <3>2
      <4>2. Len(word[h]) \in Nat
        BY <2>1
      <4> QED BY <4>1, <4>2
    <3>3. CASE 1 < i
      BY <1>6, <2>2, <3>1, <3>3
    <3> QED BY <3>1, <3>2, <3>3
  <2>4. Len(word[a]) <= Len(word[h]) /\ Len(word[h]) <= Len(word[a]) + 1
    <3>1. 1 \in 1 .. n + 1
      OBVIOUS
    <3> QED BY <1>6, <2>2, <3>1
  <2>5. \A i \in 1 .. n : Len(word[h]) <= Len(word[pending'[i]])
                          /\ Len(word[pending'[i]]) <= Len(word[h]) + 1
    <3> TAKE i \in 1 .. n
    <3>1. i + 1 \in 1 .. n + 1 /\ pending'[i] = pending[i + 1] /\ pending[i + 1] \in States
      BY <1>7
    <3> QED BY <2>1, <2>2, <2>3, <2>4, <3>1
  <2>6. \A i, j \in 1 .. n : i < j => Len(word[pending'[i]]) <= Len(word[pending'[j]])
    <3> TAKE i, j \in 1 .. n
    <3>1. i + 1 \in 1 .. n + 1 /\ j + 1 \in 1 .. n + 1 /\ (i < j => i + 1 < j + 1)
      OBVIOUS
    <3> QED BY <1>7, <2>2, <3>1
  <2>7. ASSUME NEW s \in States, Len(word[s]) < Len(word[h]) PROVE s \in now
    <3>1. Len(word[s]) <= Len(word[a])
      BY <2>1, <2>4, <2>7
    <3>2. Met(done, s)
      BY <1>2, <1>3, <1>4, <3>1, ShortIsMet
    <3>3. \A i \in 1 .. n + 1 : pending[i] # s
      BY <2>1, <2>3, <2>7
    <3> QED BY <1>12, <3>2, <3>3
  <2>8. ASSUME NEW s \in now PROVE Len(word[s]) <= Len(word[h])
    <3>1. s \in States /\ Len(word[s]) <= Len(word[a])
      BY <1>3, <1>4, <1>10, <2>1, <2>8 DEF BreadthFirst, now
    <3> QED BY <2>1, <2>4, <3>1
  <2> QED BY <1>1, <1>6, <1>7, <1>8, <2>5, <2>6, <2>7, <2>8 DEF BreadthFirst
<1>18. Completed(now)'
  <2>1. \A s \in States : Met(now, s)' <=> Met(done, s)
    BY <1>12, <1>13
  <2>2. \A s \in States, c \in Bytes : Processed(now, s, c)' <=> Processed(done, s, c)
    BY <1>11
  <2>3. \A s \in States : \A c \in Bytes : Unlinked(s, c)' <=> Unlinked(s, c)
    BY <1>1, UnlinkedStays
  <2>4. \A s \in States : \A x :
          /\ Longest(s, x)' <=> Longest(s, x)
          /\ LongestProper(s, x)' <=> LongestProper(s, x)
          /\ SuffixSignatures(x)' = SuffixSignatures(x)
    BY <1>1, <1>8 DEF Longest, LongestProper, SuffixSignatures
  <2> QED BY <1>1, <1>3, <1>8, <2>1, <2>2, <2>3, <2>4 DEF Completed
<1>19. LinkInv'
  BY <1>8, <1>10, <1>16, <1>17, <1>18 DEF LinkInv
<1> QED BY <1>1, <1>8, <1>9, <1>19 DEF AutomatonInv

(* No state is left to look at: every one was met, since the shortest that *)
(* was not would have a parent that was.                                   *)
LEMMA BuiltStep == AutomatonInv /\ LinksAreBuilt => AutomatonInv'
<1> SUFFICES ASSUME AutomatonInv, LinksAreBuilt PROVE AutomatonInv'
  OBVIOUS
<1>1. /\ phase = "links" /\ byte > LastByte /\ pending = <<>> /\ phase' = "built"
      /\ UNCHANGED <<signatures, index, taken, at, byte, next, failure_link, output, pending, word>>
  BY DEF LinksAreBuilt, loop
<1>2. Numbered /\ AutomatonTypeOK /\ NodeInv /\ SignaturesAdded /\ LinkInv
  BY <1>1 DEF AutomatonInv
<1>3. PICK done \in SUBSET States : MetOnce(done) /\ BreadthFirst(done) /\ Completed(done)
  BY <1>2 DEF LinkInv
<1>4. at \in States
  BY <1>2 DEF AutomatonTypeOK
<1>5. \A s : Met(done, s) <=> s \in done \/ s = at
  BY <1>1 DEF Met
<1>6. \A s : \A c \in Bytes : Processed(done, s, c) <=> s \in done \/ s = at
  <2>1. byte = LastByte + 1
    BY <1>1, <1>2, BytesAre DEF AutomatonTypeOK
  <2>2. \A c \in Bytes : c < byte
    BY <2>1, BytesAre DEF Bytes
  <2> QED BY <2>2 DEF Processed
<1>7. \A s \in States : Len(word[s]) \in Nat
  BY <1>2 DEF NodeInv, Strings
<1>8. ASSUME NEW s \in States PROVE Met(done, s)
  <2>1. CASE Len(word[s]) <= Len(word[at])
    BY <1>2, <1>3, <1>4, <2>1, ShortIsMet
  <2>2. CASE ~ (Len(word[s]) <= Len(word[at]))
    <3>1. PICK n \in Nat : n = Len(word[at])
      BY <1>4, <1>7
    <3>2. n + 1 \in 0 .. Len(word[s])
      BY <1>7, <2>2, <3>1
    <3>3. PICK u \in States : word[u] = SubSeq(word[s], 1, n + 1)
      BY <1>2, <3>2 DEF NodeInv
    <3>4. Len(word[u]) = n + 1
      BY <1>2, <3>2, <3>3 DEF NodeInv, Strings
    <3>5. word[u] # <<>>
      <4>1. Len(<<>>) = 0
        OBVIOUS
      <4> QED BY <3>4, <4>1
    <3>6. PICK p \in States, b \in Bytes :
            word[u] = Append(word[p], b) /\ Len(word[u]) = Len(word[p]) + 1
      BY <1>2, <3>5, ParentOf
    <3>7. Len(word[p]) <= Len(word[at])
      BY <1>7, <3>1, <3>4, <3>6
    <3>8. Met(done, p)
      BY <1>2, <1>3, <1>4, <3>7, ShortIsMet
    <3>9. Met(done, u)
      BY <1>3, <1>5, <1>6, <3>6, <3>8 DEF MetOnce
    <3>10. Len(word[u]) <= Len(word[at])
      BY <1>3, <1>4, <1>5, <1>7, <3>9 DEF BreadthFirst
    <3> QED BY <3>1, <3>4, <3>10
  <2> QED BY <2>1, <2>2
<1>9. States' = States /\ NodeInv'
  BY <1>1, <1>2, NodesStay
<1>10. AutomatonTypeOK' /\ Numbered' /\ SignaturesAdded'
  BY <1>1, <1>2, <1>9 DEF AutomatonTypeOK, Numbered, SignaturesAdded
<1>11. BuiltInv
  BY <1>3, <1>5, <1>6, <1>8 DEF Completed, BuiltInv
<1>12. BuiltInv'
  BY <1>1, <1>9, <1>11 DEF BuiltInv, Longest, SuffixSignatures
<1> QED BY <1>1, <1>9, <1>10, <1>12 DEF AutomatonInv

LEMMA BuildKeepsInv == AutomatonInv /\ Build => AutomatonInv'
BY SkipStep, FollowStep, AddStep, EndStep, StartStep, LinkRootStep, LinkStep, NextStateStep,
   BuiltStep
   DEF Build
-----------------------------------------------------------------------------
(* The signatures that a text ends with are those of its longest suffix in *)
(* the trie.                                                               *)
LEMMA EndingIs ==
  ASSUME AutomatonTypeOK, NEW x \in Strings
  PROVE  EndingIn(x) = SuffixSignatures(x)
<1>1. \A i \in DOMAIN signatures : signatures[i] \in Strings
  BY SignaturesAre
<1> QED BY <1>1, SuffixIs DEF EndingIn, SuffixSignatures

LEMMA LongestHasAll ==
  ASSUME NodeInv, AutomatonTypeOK, SignaturesAdded, NEW x \in Strings, NEW t \in States,
         Longest(t, x)
  PROVE  SuffixSignatures(word[t]) = SuffixSignatures(x)
<1>1. word[t] \in Strings /\ Suffix(word[t], x)
  BY DEF NodeInv, Longest
<1>2. ASSUME NEW i \in DOMAIN signatures, signatures[i] # <<>>
      PROVE  Suffix(signatures[i], word[t]) <=> Suffix(signatures[i], x)
  <2>1. PICK u \in States : word[u] = signatures[i]
    BY <1>2 DEF SignaturesAdded
  <2>2. word[u] \in Strings
    BY DEF NodeInv
  <2>3. Suffix(word[u], word[t]) => Suffix(word[u], x)
    BY <1>1, <2>2, SuffixTransitive
  <2>4. Suffix(word[u], x) => Suffix(word[u], word[t])
    BY <1>1, <2>2, SuffixOfBoth DEF Longest
  <2> QED BY <2>1, <2>3, <2>4
<1> QED BY <1>2 DEF SuffixSignatures

LEMMA OccurringEmpty == AutomatonTypeOK => Occurring(<<>>) = {}
<1> SUFFICES ASSUME AutomatonTypeOK PROVE Occurring(<<>>) = {}
  OBVIOUS
<1>1. \A n \in 0 .. Len(<<>>) : SubSeq(<<>>, 1, n) = <<>>
  OBVIOUS
<1>2. <<>> \in Strings
  BY DEF Strings
<1>3. \A i \in DOMAIN signatures : signatures[i] \in Strings
  BY SignaturesAre
<1>4. ASSUME NEW z \in Strings, Suffix(z, <<>>) PROVE z = <<>>
  BY <1>4 DEF Suffix, Strings
<1>5. \A i \in DOMAIN signatures : signatures[i] # <<>> => i \notin EndingIn(<<>>)
  BY <1>2, <1>3, <1>4, EndingIs DEF SuffixSignatures
<1> QED BY <1>1, <1>5 DEF Occurring

(* With one more byte, what ends there is found as well.                   *)
LEMMA OccurringWith ==
  ASSUME AutomatonTypeOK, NEW x \in Strings, NEW m \in Nat, m < Len(x)
  PROVE  Occurring(SubSeq(x, 1, m + 1)) =
           Occurring(SubSeq(x, 1, m)) \cup SuffixSignatures(SubSeq(x, 1, m + 1))
<1>1. PICK y \in Strings : y = SubSeq(x, 1, m)
  BY NextByte
<1>2. PICK z \in Strings : z = SubSeq(x, 1, m + 1)
  <2>1. SubSeq(x, 1, m + 1) \in Strings
    BY DEF Strings
  <2> QED BY <2>1
<1>3. Len(y) = m /\ Len(z) = m + 1 /\ SubSeq(z, 1, m + 1) = z
  BY <1>1, <1>2 DEF Strings
<1>4. ASSUME NEW n \in 0 .. m PROVE SubSeq(z, 1, n) = SubSeq(y, 1, n)
  <2>1. PICK u \in Strings : u = SubSeq(z, 1, n) /\ Len(u) = n /\ \A j \in 1 .. n : u[j] = x[j]
    <3>1. /\ SubSeq(z, 1, n) \in Strings /\ Len(SubSeq(z, 1, n)) = n
          /\ \A j \in 1 .. n : SubSeq(z, 1, n)[j] = x[j]
      BY <1>2, <1>3 DEF Strings
    <3> QED BY <3>1
  <2>2. PICK v \in Strings : v = SubSeq(y, 1, n) /\ Len(v) = n /\ \A j \in 1 .. n : v[j] = x[j]
    <3>1. /\ SubSeq(y, 1, n) \in Strings /\ Len(SubSeq(y, 1, n)) = n
          /\ \A j \in 1 .. n : SubSeq(y, 1, n)[j] = x[j]
      BY <1>1, <1>3 DEF Strings
    <3> QED BY <3>1
  <2>3. u = v
    BY <2>1, <2>2 DEF Strings
  <2> QED BY <2>1, <2>2, <2>3
<1>5. ASSUME NEW i
      PROVE  (\E n \in 0 .. m + 1 : i \in EndingIn(SubSeq(z, 1, n))) <=>
               (\E n \in 0 .. m : i \in EndingIn(SubSeq(y, 1, n))) \/ i \in EndingIn(z)
  <2>1. \A n : n \in 0 .. m + 1 <=> n \in 0 .. m \/ n = m + 1
    OBVIOUS
  <2> QED BY <1>3, <1>4, <2>1
<1>6. EndingIn(z) = SuffixSignatures(z)
  BY EndingIs
<1>7. Occurring(z) = Occurring(y) \cup SuffixSignatures(z)
  BY <1>3, <1>5, <1>6 DEF Occurring, SuffixSignatures
<1> QED BY <1>1, <1>2, <1>7
-----------------------------------------------------------------------------
(* The automaton stands for the longest suffix of what was scanned, and    *)
(* what was matched occurs there.                                          *)
ScanInv ==
  /\ phase # "built" => result = "none"
  /\ result = "none" => state = 0 /\ scanned = 0 /\ bytes_read = 0 /\ matched_indices = {}
  /\ result # "none" => Longest(state, SubSeq(content, 1, scanned))
  /\ matched_indices = Occurring(SubSeq(content, 1, scanned))

Inv == AutomatonInv /\ TypeOK /\ ScanInv

LEMMA TypeOKDef ==
  TypeOK <=> /\ AutomatonTypeOK
             /\ content \in Contents \cup {<<>>} /\ stream_good \in BOOLEAN
             /\ bytes_read \in 0 .. Len(content) /\ scanned \in 0 .. bytes_read
             /\ state \in States /\ matched_indices \subseteq DOMAIN signatures
             /\ result \in {"none", "reading", "error", "clean", "malicious"}
BY DEF TypeOK

LEMMA ContentIs == content \in Contents \cup {<<>>} => content \in Strings /\ Len(content) \in Nat
<1>1. \A x \in Contents : x \in Strings
  BY ProcessorAssumption DEF Strings
<1>2. <<>> \in Strings /\ \A x \in Strings : Len(x) \in Nat
  BY DEF Strings
<1> QED BY <1>1, <1>2

LEMMA NothingYet == \A x \in Strings : SubSeq(x, 1, 0) = <<>> /\ Len(x) \in Nat
BY DEF Strings

LEMMA InitialScan == Init => Inv
<1> SUFFICES ASSUME Init PROVE Inv
  OBVIOUS
<1>1. AutomatonInv /\ phase = "trie"
  BY InitialAutomaton DEF Init, AutomatonInit
<1>2. /\ content = <<>> /\ stream_good = TRUE /\ bytes_read = 0 /\ scanned = 0 /\ state = 0
      /\ matched_indices = {} /\ result = "none"
  BY DEF Init
<1>3. AutomatonTypeOK /\ 0 \in States
  BY <1>1 DEF AutomatonInv, NodeInv
<1>4. SubSeq(content, 1, scanned) = <<>>
  BY <1>2
<1>5. Occurring(<<>>) = {}
  BY <1>3, OccurringEmpty
<1>6. ScanInv
  BY <1>2, <1>4, <1>5 DEF ScanInv
<1>7. TypeOK
  BY <1>2, <1>3 DEF TypeOK
<1> QED BY <1>1, <1>6, <1>7 DEF Inv

LEMMA BuildingScan == Inv /\ BuildStep => Inv'
<1> SUFFICES ASSUME Inv, BuildStep PROVE Inv'
  OBVIOUS
<1>1. AutomatonInv' /\ AutomatonInv
  BY BuildKeepsInv DEF Inv, BuildStep
<1>2. phase # "built"
  BY DEF BuildStep, Build, SkipSignature, FollowByte, AddByte, EndSignature, StartLinks,
         LinkRootByte, LinkByte, NextState, LinksAreBuilt, Adding, Linking
<1>3. UNCHANGED <<content, stream_good, bytes_read, scanned, state, matched_indices, result>>
  BY DEF BuildStep, processor_vars
<1>4. signatures' = signatures
  BY DEF BuildStep, Build, SkipSignature, FollowByte, AddByte, EndSignature, StartLinks,
         LinkRootByte, LinkByte, NextState, LinksAreBuilt
<1>5. TypeOK /\ ScanInv
  BY DEF Inv
<1>6. result = "none" /\ state = 0
  BY <1>2, <1>5 DEF ScanInv
<1>7. 0 \in States' /\ AutomatonTypeOK'
  BY <1>1 DEF AutomatonInv, NodeInv
<1>8. TypeOK'
  BY <1>3, <1>4, <1>5, <1>6, <1>7 DEF TypeOK
<1>9. Occurring(SubSeq(content, 1, scanned))' = Occurring(SubSeq(content, 1, scanned))
  BY <1>3, <1>4 DEF Occurring, EndingIn
<1>10. ScanInv'
  BY <1>3, <1>5, <1>6, <1>9 DEF ScanInv
<1> QED BY <1>1, <1>8, <1>10 DEF Inv

(* What the steps that leave the automaton alone leave of its properties.  *)
LEMMA AutomatonStays ==
  ASSUME automaton_vars' = automaton_vars
  PROVE  /\ AutomatonInv => AutomatonInv'
         /\ States' = States /\ word' = word /\ signatures' = signatures /\ phase' = phase
         /\ \A s, x : Longest(s, x)' <=> Longest(s, x)
         /\ \A x : Occurring(x)' = Occurring(x)
<1>1. UNCHANGED <<signatures, index, taken, at, byte, next, failure_link, output, pending, phase,
                  word>>
  BY DEF automaton_vars, loop
<1>2. States' = States
  BY <1>1 DEF States
<1>3. AutomatonTypeOK <=> AutomatonTypeOK'
  BY <1>1, <1>2 DEF AutomatonTypeOK
<1>4. \A s, x : Longest(s, x)' <=> Longest(s, x)
  BY <1>1, <1>2 DEF Longest
<1>5. \A x : Occurring(x)' = Occurring(x)
  BY <1>1 DEF Occurring, EndingIn
<1>6. ASSUME AutomatonInv PROVE AutomatonInv'
  <2>1. AutomatonTypeOK' /\ Numbered' /\ NodeInv'
    BY <1>1, <1>2, <1>3, <1>6 DEF AutomatonInv, Numbered, NodeInv
  <2>2. \A s : \A b : Unlinked(s, b)' <=> Unlinked(s, b)
    BY <1>1, <1>2 DEF Unlinked
  <2>3. phase = "trie" => TrieInv'
    BY <1>1, <1>2, <1>6, <2>2 DEF AutomatonInv, TrieInv
  <2>4. phase # "trie" => SignaturesAdded'
    BY <1>1, <1>2, <1>6 DEF AutomatonInv, SignaturesAdded
  <2>5. \A s, x : (LongestProper(s, x)' <=> LongestProper(s, x))
                  /\ SuffixSignatures(x)' = SuffixSignatures(x)
    BY <1>1, <1>2 DEF LongestProper, SuffixSignatures
  <2>6. \A done : (MetOnce(done) => MetOnce(done)') /\ (BreadthFirst(done) => BreadthFirst(done)')
    BY <1>1, <1>2 DEF MetOnce, BreadthFirst, Met, Processed
  <2>7. ASSUME NEW done, Completed(done) PROVE Completed(done)'
    <3>1. \A s : \A b : (Met(done, s)' <=> Met(done, s)) /\ (Processed(done, s, b)' <=> Processed(done, s, b))
      BY <1>1 DEF Met, Processed
    <3> QED BY <1>1, <1>2, <1>4, <2>2, <2>5, <2>7, <3>1 DEF Completed
  <2>8. phase = "links" => LinkInv'
    BY <1>2, <1>6, <2>6, <2>7 DEF AutomatonInv, LinkInv
  <2>9. phase = "built" => BuiltInv'
    BY <1>1, <1>2, <1>4, <1>6, <2>5 DEF AutomatonInv, BuiltInv
  <2> QED BY <1>1, <2>1, <2>3, <2>4, <2>8, <2>9 DEF AutomatonInv
<1> QED BY <1>1, <1>2, <1>4, <1>5, <1>6

LEMMA OpenedScan == Inv /\ Open => Inv'
<1> SUFFICES ASSUME Inv, Open PROVE Inv'
  OBVIOUS
<1>1. /\ phase = "built" /\ result = "none" /\ content' \in Contents
      /\ result' \in {"reading", "error"} /\ automaton_vars' = automaton_vars
      /\ UNCHANGED <<stream_good, bytes_read, scanned, state, matched_indices>>
  BY DEF Open
<1>2. AutomatonInv /\ TypeOK /\ ScanInv /\ AutomatonTypeOK
  BY DEF Inv, AutomatonInv
<1>3. AutomatonInv' /\ AutomatonTypeOK' /\ States' = States /\ signatures' = signatures
      /\ phase' = phase
  BY <1>1, <1>2, AutomatonStays DEF AutomatonInv
<1>4. state = 0 /\ scanned = 0 /\ bytes_read = 0 /\ matched_indices = {}
  BY <1>1, <1>2 DEF ScanInv
<1>5. content' \in Strings /\ Len(content') \in Nat /\ SubSeq(content', 1, scanned') = <<>>
  <2>1. content' \in Strings
    BY <1>1, ProcessorAssumption DEF Strings
  <2> QED BY <1>1, <1>4, <2>1, NothingYet
<1>6. TypeOK'
  BY <1>1, <1>2, <1>3, <1>4, <1>5 DEF TypeOK
<1>7. Longest(0, <<>>)
  <2>1. 0 \in States /\ word[0] = <<>> /\ word \in [States -> Strings]
    BY <1>2 DEF AutomatonInv, NodeInv
  <2>2. <<>> \in Strings
    BY DEF Strings
  <2>3. Suffix(<<>>, <<>>)
    BY <2>2, SuffixReflexive
  <2>4. \A t \in States : Suffix(word[t], <<>>) => Len(word[t]) <= Len(<<>>)
    BY DEF Suffix
  <2> QED BY <2>1, <2>3, <2>4 DEF Longest
<1>8. Occurring(<<>>) = {}
  BY <1>2, OccurringEmpty
<1>9. Longest(0, <<>>)' /\ Occurring(<<>>)' = {}
  BY <1>1, <1>7, <1>8, AutomatonStays
<1>10. ScanInv'
  BY <1>1, <1>3, <1>4, <1>5, <1>9 DEF ScanInv
<1> QED BY <1>3, <1>6, <1>10 DEF Inv

LEMMA ReadScan == Inv /\ ReadChunk => Inv'
<1> SUFFICES ASSUME Inv, ReadChunk PROVE Inv'
  OBVIOUS
<1>1. /\ result = "reading" /\ automaton_vars' = automaton_vars
      /\ UNCHANGED <<content, scanned, state, matched_indices, result>>
  BY DEF ReadChunk
<1>2. AutomatonInv /\ TypeOK /\ ScanInv
  BY DEF Inv
<1>3. /\ AutomatonInv' /\ AutomatonTypeOK' /\ States' = States /\ signatures' = signatures
      /\ phase' = phase
  BY <1>1, <1>2, AutomatonStays DEF AutomatonInv
<1>4. PICK n \in IF ReadsMayFail THEN 0 .. ChunkLength ELSE {ChunkLength} :
        bytes_read' = bytes_read + n /\ stream_good' = (n = ChunkSize)
  BY DEF ReadChunk
<1>5. Len(content) \in Nat /\ bytes_read \in 0 .. Len(content) /\ scanned \in 0 .. bytes_read
  BY <1>2, ContentIs DEF TypeOK
<1>6. ChunkLength \in 0 .. Len(content) - bytes_read
  BY <1>5, ProcessorAssumption DEF ChunkLength
<1>7. n \in 0 .. Len(content) - bytes_read
  BY <1>4, <1>5, <1>6
<1>8. bytes_read' \in 0 .. Len(content) /\ scanned \in 0 .. bytes_read'
  BY <1>4, <1>5, <1>7
<1>9. TypeOK'
  BY <1>1, <1>2, <1>3, <1>4, <1>8 DEF TypeOK
<1>10. ScanInv'
  BY <1>1, <1>2, <1>3, AutomatonStays DEF ScanInv
<1> QED BY <1>3, <1>9, <1>10 DEF Inv

LEMMA EndedScan == Inv /\ EndOfFile => Inv'
<1> SUFFICES ASSUME Inv, EndOfFile PROVE Inv'
  OBVIOUS
<1>1. /\ result = "reading" /\ automaton_vars' = automaton_vars
      /\ result' = Verdict(matched_indices)
      /\ UNCHANGED <<content, stream_good, bytes_read, scanned, state, matched_indices>>
  BY DEF EndOfFile
<1>2. AutomatonInv /\ TypeOK /\ ScanInv
  BY DEF Inv
<1>3. /\ AutomatonInv' /\ AutomatonTypeOK' /\ States' = States /\ signatures' = signatures
      /\ phase' = phase
  BY <1>1, <1>2, AutomatonStays DEF AutomatonInv
<1>4. result' \in {"clean", "malicious"}
  BY <1>1 DEF Verdict
<1>5. TypeOK'
  BY <1>1, <1>2, <1>3, <1>4 DEF TypeOK
<1>6. ScanInv'
  BY <1>1, <1>2, <1>3, <1>4, AutomatonStays DEF ScanInv
<1> QED BY <1>3, <1>5, <1>6 DEF Inv

(* A byte: the transition leads to the longest suffix of the longer text,  *)
(* whose outputs are what ends there.                                      *)
LEMMA ByteScan == Inv /\ ScanByte => Inv'
<1> SUFFICES ASSUME Inv, ScanByte PROVE Inv'
  OBVIOUS
<1>1. /\ result = "reading" /\ scanned < bytes_read
      /\ state' = next[state][content[scanned + 1]]
      /\ matched_indices' = matched_indices \cup output[state']
      /\ scanned' = scanned + 1 /\ automaton_vars' = automaton_vars
      /\ UNCHANGED <<content, stream_good, bytes_read, result>>
  BY DEF ScanByte
<1>2. AutomatonInv /\ TypeOK /\ ScanInv
  BY DEF Inv
<1>3. /\ AutomatonInv' /\ AutomatonTypeOK' /\ States' = States /\ signatures' = signatures
      /\ phase' = phase
  BY <1>1, <1>2, AutomatonStays DEF AutomatonInv
<1>4. phase = "built" /\ Longest(state, SubSeq(content, 1, scanned))
      /\ matched_indices = Occurring(SubSeq(content, 1, scanned))
  BY <1>1, <1>2 DEF ScanInv
<1>5. NodeInv /\ SignaturesAdded /\ BuiltInv /\ AutomatonTypeOK
  BY <1>2, <1>4 DEF AutomatonInv
<1>6. PICK x \in Strings : x = content
  BY <1>2, ContentIs DEF TypeOK
<1>7. PICK m \in Nat : m = scanned /\ m < Len(x)
  BY <1>1, <1>2, <1>6, ContentIs DEF TypeOK
<1>8. PICK b \in Bytes : b = x[m + 1]
  BY <1>7, NextByte
<1>9. PICK s \in States : s = state
  BY <1>2 DEF TypeOK
<1>10. PICK t : t = next[s][b]
  OBVIOUS
<1>11. t \in States /\ Longest(t, Append(word[s], b)) /\ output[t] = SuffixSignatures(word[t])
  BY <1>5, <1>10 DEF BuiltInv
<1>12. PICK y \in Strings : y = SubSeq(x, 1, m)
  <2>1. SubSeq(x, 1, m) \in Strings
    BY <1>7, NextByte
  <2> QED BY <2>1
<1>13. PICK z \in Strings : z = SubSeq(x, 1, m + 1)
  <2>1. SubSeq(x, 1, m + 1) \in Strings
    BY <1>7 DEF Strings
  <2> QED BY <2>1
<1>14. z = Append(y, b)
  <2>1. Append(SubSeq(x, 1, m), x[m + 1]) = SubSeq(x, 1, m + 1)
    BY <1>7, NextByte
  <2> QED BY <1>8, <1>12, <1>13, <2>1
<1>15. Longest(t, z)
  <2>1. Longest(s, y)
    BY <1>4, <1>6, <1>7, <1>9, <1>12
  <2>2. Longest(t, Append(y, b))
    BY <1>5, <1>11, <2>1, LongestExtends
  <2> QED BY <1>14, <2>2
<1>16. output[t] = SuffixSignatures(z)
  BY <1>5, <1>11, <1>15, LongestHasAll
<1>17. state' = t /\ matched_indices' = Occurring(z)
  <2>1. state' = t
    BY <1>1, <1>6, <1>7, <1>8, <1>9, <1>10
  <2>2. Occurring(z) = Occurring(y) \cup SuffixSignatures(z)
    BY <1>5, <1>7, <1>12, <1>13, OccurringWith
  <2> QED BY <1>1, <1>4, <1>6, <1>7, <1>12, <1>16, <2>1, <2>2
<1>18. SubSeq(content, 1, scanned)' = z
  BY <1>1, <1>6, <1>7, <1>13
<1>19. ScanInv'
  <2>1. Longest(t, z)' /\ Occurring(z)' = Occurring(z)
    BY <1>1, <1>15, AutomatonStays
  <2> QED BY <1>1, <1>3, <1>4, <1>17, <1>18, <2>1 DEF ScanInv
<1>20. TypeOK'
  <2>1. Occurring(z) \subseteq DOMAIN signatures
    BY DEF Occurring
  <2>2. scanned' \in 0 .. bytes_read'
    BY <1>1, <1>2, ContentIs DEF TypeOK
  <2> QED BY <1>1, <1>2, <1>3, <1>11, <1>17, <2>1, <2>2 DEF TypeOK
<1> QED BY <1>3, <1>19, <1>20 DEF Inv

LEMMA IdleScan == Inv /\ UNCHANGED vars => Inv'
<1> SUFFICES ASSUME Inv, UNCHANGED vars PROVE Inv'
  OBVIOUS
<1>1. /\ automaton_vars' = automaton_vars
      /\ UNCHANGED <<content, stream_good, bytes_read, scanned, state, matched_indices, result>>
  BY DEF vars, processor_vars
<1>2. AutomatonInv /\ TypeOK /\ ScanInv
  BY DEF Inv
<1>3. /\ AutomatonInv' /\ AutomatonTypeOK' /\ States' = States /\ signatures' = signatures
      /\ phase' = phase
  BY <1>1, <1>2, AutomatonStays DEF AutomatonInv
<1>4. TypeOK'
  BY <1>1, <1>2, <1>3 DEF TypeOK
<1>5. ScanInv'
  BY <1>1, <1>2, <1>3, AutomatonStays DEF ScanInv
<1> QED BY <1>3, <1>4, <1>5 DEF Inv

LEMMA ScanInvariant == Spec => []Inv
<1>1. Inv /\ [Next]_vars => Inv'
  BY BuildingScan, OpenedScan, ReadScan, ByteScan, EndedScan, IdleScan DEF Next
<1> QED BY InitialScan, <1>1, PTL DEF Spec
-----------------------------------------------------------------------------
(* Type correctness: in particular a transition of a built automaton never *)
(* leads out of it (Automaton.h:33-44 does not check).                     *)
THEOREM ScanTypeCorrect == Spec => []TypeOK
<1>1. Inv => TypeOK
  BY DEF Inv
<1> QED BY ScanInvariant, <1>1, PTL

(* For every alphabet and every list of signatures, the automaton that     *)
(* AutomatonBuilder::build leaves goes, on every byte, to the state for    *)
(* the longest suffix of the text read that any signature begins with.     *)
THEOREM AutomatonIsComplete == Spec => []TransitionsComplete
<1>1. Inv => TransitionsComplete
  <2> SUFFICES ASSUME Inv, phase = "built", NEW s \in States, NEW b \in Bytes
               PROVE  next[s][b] = LongestSuffix(Append(word[s], b))
    BY DEF TransitionsComplete
  <2>1. BuiltInv /\ NodeInv
    BY DEF Inv, AutomatonInv
  <2>2. PICK x \in Strings : x = Append(word[s], b)
    <3>1. word[s] \in Strings
      BY <2>1 DEF NodeInv
    <3> QED BY <3>1, AppendIs
  <2>3. PICK t : t = next[s][b]
    OBVIOUS
  <2>4. t \in States /\ Longest(t, x)
    BY <2>1, <2>2, <2>3 DEF BuiltInv
  <2>5. \A u \in States : word[u] \in Strings /\ (Ends(u, x) <=> Suffix(word[u], x))
    BY <2>1, SuffixIs DEF NodeInv, Ends
  <2> DEFINE IsLongest(u) ==
        Ends(u, x) /\ \A v \in States : Ends(v, x) => Len(word[v]) <= Len(word[u])
  <2>6. IsLongest(t)
    BY <2>4, <2>5 DEF Longest
  <2>7. ASSUME NEW u \in States, IsLongest(u) PROVE u = t
    <3>1. Suffix(word[u], x) /\ Suffix(word[t], x)
      BY <2>4, <2>5, <2>7 DEF Longest
    <3>2. Len(word[u]) <= Len(word[t]) /\ Len(word[t]) <= Len(word[u])
      BY <2>4, <2>5, <2>6, <2>7
    <3>3. Len(word[u]) \in Nat /\ Len(word[t]) \in Nat
      BY <2>4, <2>5 DEF Strings
    <3>4. Len(word[u]) = Len(word[t])
      BY <3>2, <3>3
    <3>5. Suffix(word[u], word[t])
      BY <2>4, <2>5, <3>1, <3>2, SuffixOfBoth
    <3>6. word[u] = word[t]
      BY <2>4, <2>5, <3>4, <3>5, SuffixEqual
    <3> QED BY <2>1, <2>4, <3>6 DEF NodeInv
  <2>8. (CHOOSE u \in States : IsLongest(u)) = t
    <3> HIDE DEF IsLongest
    <3>1. (CHOOSE u \in States : IsLongest(u)) \in States
          /\ IsLongest(CHOOSE u \in States : IsLongest(u))
      BY <2>4, <2>6, Zenon
    <3> QED BY <2>7, <3>1
  <2>9. LongestSuffix(x) = t
    BY <2>8 DEF LongestSuffix
  <2> QED BY <2>2, <2>3, <2>9
<1> QED BY ScanInvariant, <1>1, PTL

(* The outputs that the states inherit along their links are all the       *)
(* signatures their strings end with, and no others.                       *)
THEOREM OutputsAreComplete == Spec => []OutputsComplete
<1>1. Inv => OutputsComplete
  <2> SUFFICES ASSUME Inv, phase = "built", NEW s \in States
               PROVE  output[s] = EndingIn(word[s])
    BY DEF OutputsComplete
  <2>1. BuiltInv /\ NodeInv /\ AutomatonTypeOK
    BY DEF Inv, AutomatonInv
  <2>2. word[s] \in Strings
    BY <2>1 DEF NodeInv
  <2> QED BY <2>1, <2>2, EndingIs DEF BuiltInv
<1> QED BY ScanInvariant, <1>1, PTL

(* Whatever a file holds and however long the chunks are that it is read   *)
(* in, FileProcessor::process has matched exactly the signatures that      *)
(* occur in what it scanned: none is missed at the end of a chunk.         *)
THEOREM ScanningIsExact == Spec => []MatchesAreExact
<1>1. Inv => MatchesAreExact
  BY DEF Inv, ScanInv, MatchesAreExact
<1> QED BY ScanInvariant, <1>1, PTL
=============================================================================
