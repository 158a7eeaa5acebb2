----------------------------- MODULE Automaton -----------------------------
(***************************************************************************)
(* Building the Aho-Corasick automaton: AutomatonBuilder::build inserts    *)
(* the signatures byte by byte into a trie, and then completes the states  *)
(* in breadth-first order, again byte by byte.  The properties say what    *)
(* the transitions and the outputs must be, in terms of the strings that   *)
(* lead to the states.                                                     *)
(***************************************************************************)
EXTENDS Integers, SequencesExt

CONSTANTS
  LastByte,         \* 255 in the code
  SignatureLists    \* the signature lists to build from

Bytes == 0 .. LastByte

ASSUME AutomatonAssumption ==
  /\ LastByte \in Nat
  /\ \A list \in SignatureLists : list \in Seq(Seq(Bytes))

VARIABLES
  signatures,       \* the argument of build()
  index,            \* the signature being added
  taken,            \* how many of its bytes are in the trie
  at,               \* the local `state` of addSignature() and of the search
  byte,             \* the loop variable of the search
  next,             \* next[state][byte]
  failure_link,
  output,           \* for each state, the signature indexes
  pending,          \* the queue of the breadth-first search
  phase,            \* "trie", "links" or "built"
  word              \* history: for each state, the string it stands for

loop == <<index, taken, at, byte>>
automaton_vars ==
  <<signatures, loop, next, failure_link, output, pending, phase, word>>

Missing == -1
States == DOMAIN next

AutomatonTypeOK ==
  /\ signatures \in SignatureLists
  /\ index \in 1 .. Len(signatures) + 1
  /\ taken \in Nat
  /\ at \in States
  /\ byte \in 0 .. LastByte + 1
  /\ States = 0 .. Cardinality(States) - 1
  /\ next \in [States -> [Bytes -> States \cup {Missing}]]
  /\ failure_link \in [States -> States]
  /\ output \in [States -> SUBSET DOMAIN signatures]
  /\ pending \in Seq(States)
  /\ phase \in {"trie", "links", "built"}
  /\ word \in [States -> Seq(Bytes)]

NoChildren == [b \in Bytes |-> Missing]

AutomatonInit ==
  /\ signatures \in SignatureLists
  /\ index = 1
  /\ taken = 0
  /\ at = 0
  /\ byte = 0
  /\ next = [s \in {0} |-> NoChildren]
  /\ failure_link = [s \in {0} |-> 0]
  /\ output = [s \in {0} |-> {}]
  /\ pending = <<>>
  /\ phase = "trie"
  /\ word = [s \in {0} |-> <<>>]
-----------------------------------------------------------------------------
(* build(): the signatures one by one, empty ones left out.                *)
Adding == phase = "trie" /\ index <= Len(signatures)

SkipSignature ==
  /\ Adding
  /\ signatures[index] = <<>>
  /\ index' = index + 1
  /\ UNCHANGED <<signatures, taken, at, byte, next, failure_link, output, pending, phase, word>>

(* addSignature(): a byte that has a child, and one that gets it now.      *)
FollowByte ==
  /\ Adding
  /\ taken < Len(signatures[index])
  /\ LET child == next[at][signatures[index][taken + 1]]
     IN  child # Missing /\ at' = child
  /\ taken' = taken + 1
  /\ UNCHANGED <<signatures, index, byte, next, failure_link, output, pending, phase, word>>

WithNode(f, new, value) == [s \in States \cup {new} |-> IF s = new THEN value ELSE f[s]]

AddByte ==
  /\ Adding
  /\ taken < Len(signatures[index])
  /\ LET b == signatures[index][taken + 1]
         new == Cardinality(States)
     IN  /\ next[at][b] = Missing
         /\ next' = WithNode([next EXCEPT ![at][b] = new], new, NoChildren)
         /\ failure_link' = WithNode(failure_link, new, 0)
         /\ output' = WithNode(output, new, {})
         /\ word' = WithNode(word, new, Append(word[at], b))
         /\ at' = new
  /\ taken' = taken + 1
  /\ UNCHANGED <<signatures, index, byte, pending, phase>>

(* Mutant: the next index is stored.                                       *)
EndSignatureShifted ==
  /\ Adding
  /\ taken > 0 /\ taken = Len(signatures[index])
  /\ output' = [output EXCEPT ![at] = @ \cup {index + 1}]
  /\ index' = index + 1
  /\ taken' = 0
  /\ at' = 0
  /\ UNCHANGED <<signatures, byte, next, failure_link, pending, phase, word>>

EndSignature ==
  /\ Adding
  /\ taken > 0 /\ taken = Len(signatures[index])
  /\ output' = [output EXCEPT ![at] = @ \cup {index}]
  /\ index' = index + 1
  /\ taken' = 0
  /\ at' = 0
  /\ UNCHANGED <<signatures, byte, next, failure_link, pending, phase, word>>

(* buildFailureLinks(): the root first ...                                 *)
StartLinks ==
  /\ phase = "trie"
  /\ index > Len(signatures)
  /\ phase' = "links"
  /\ UNCHANGED <<signatures, loop, next, failure_link, output, pending, word>>

Linking == phase = "links" /\ byte <= LastByte

LinkRootByte ==
  /\ Linking
  /\ at = 0
  /\ LET child == next[0][byte]
     IN  IF child = Missing
         THEN /\ next' = [next EXCEPT ![0][byte] = 0]
              /\ UNCHANGED <<failure_link, pending>>
         ELSE /\ failure_link' = [failure_link EXCEPT ![child] = 0]
              /\ pending' = Append(pending, child)
              /\ UNCHANGED next
  /\ byte' = byte + 1
  /\ UNCHANGED <<signatures, index, taken, at, output, phase, word>>

(* Mutants: missing transitions lead to the root; outputs are not          *)
(* inherited.                                                              *)
LinkByteToRoot ==
  /\ Linking
  /\ at # 0
  /\ LET child == next[at][byte]
         below == next[failure_link[at]][byte]
     IN  IF child = Missing
         THEN /\ next' = [next EXCEPT ![at][byte] = 0]
              /\ UNCHANGED <<failure_link, output, pending>>
         ELSE /\ failure_link' = [failure_link EXCEPT ![child] = below]
              /\ output' = [output EXCEPT ![child] = @ \cup output[below]]
              /\ pending' = Append(pending, child)
              /\ UNCHANGED next
  /\ byte' = byte + 1
  /\ UNCHANGED <<signatures, index, taken, at, phase, word>>

LinkByteOwnOutputs ==
  /\ Linking
  /\ at # 0
  /\ LET child == next[at][byte]
         below == next[failure_link[at]][byte]
     IN  IF child = Missing
         THEN /\ next' = [next EXCEPT ![at][byte] = below]
              /\ UNCHANGED <<failure_link, pending>>
         ELSE /\ failure_link' = [failure_link EXCEPT ![child] = below]
              /\ pending' = Append(pending, child)
              /\ UNCHANGED next
  /\ byte' = byte + 1
  /\ UNCHANGED <<signatures, index, taken, at, output, phase, word>>

(* ... and then the states in the order in which they were met: a missing  *)
(* transition leads where that of the failure link does, and a child's     *)
(* link is that state, whose outputs it inherits.                          *)
LinkByte ==
  /\ Linking
  /\ at # 0
  /\ LET child == next[at][byte]
         below == next[failure_link[at]][byte]
     IN  IF child = Missing
         THEN /\ next' = [next EXCEPT ![at][byte] = below]
              /\ UNCHANGED <<failure_link, output, pending>>
         ELSE /\ failure_link' = [failure_link EXCEPT ![child] = below]
              /\ output' = [output EXCEPT ![child] = @ \cup output[below]]
              /\ pending' = Append(pending, child)
              /\ UNCHANGED next
  /\ byte' = byte + 1
  /\ UNCHANGED <<signatures, index, taken, at, phase, word>>

NextState ==
  /\ phase = "links"
  /\ byte > LastByte
  /\ pending # <<>>
  /\ at' = Head(pending)
  /\ pending' = Tail(pending)
  /\ byte' = 0
  /\ UNCHANGED <<signatures, index, taken, next, failure_link, output, phase, word>>

LinksAreBuilt ==
  /\ phase = "links"
  /\ byte > LastByte
  /\ pending = <<>>
  /\ phase' = "built"
  /\ UNCHANGED <<signatures, loop, next, failure_link, output, pending, word>>

Build ==
  \/ SkipSignature \/ FollowByte \/ AddByte \/ EndSignature
  \/ StartLinks \/ LinkRootByte \/ LinkByte \/ NextState \/ LinksAreBuilt
-----------------------------------------------------------------------------
(* The state for a string: the longest of its suffixes that is in the trie.*)
Ends(s, text) == IsSuffix(word[s], text)

LongestSuffix(text) ==
  CHOOSE s \in States :
    Ends(s, text) /\ \A t \in States : Ends(t, text) => Len(word[t]) <= Len(word[s])

(* A transition leads to all that the text read so far may become part of, *)
(* whatever is missing in the trie.                                        *)
TransitionsComplete ==
  phase = "built" => \A s \in States, b \in Bytes :
    next[s][b] = LongestSuffix(Append(word[s], b))

(* The outputs of a state are the signatures its string ends with, its own *)
(* and those inherited along the links.                                    *)
EndingIn(text) ==
  {i \in DOMAIN signatures : signatures[i] # <<>> /\ IsSuffix(signatures[i], text)}

OutputsComplete == phase = "built" => \A s \in States : output[s] = EndingIn(word[s])
=============================================================================
