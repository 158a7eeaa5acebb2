--------------------------- MODULE FileProcessor ---------------------------
(***************************************************************************)
(* FileProcessor::process on one file: the file is read in chunks, and the *)
(* automaton's state is carried from one to the next.  The automaton and   *)
(* the processor are only read from, and the buffer belongs to the thread, *)
(* so what one worker does with one file is all there is to it.            *)
(***************************************************************************)
EXTENDS Automaton

CONSTANTS
  Contents,         \* what a file may hold
  ChunkSize,        \* kChunkSize
  ReadsMayFail      \* whether the device can fail once the file is open

ASSUME ProcessorAssumption ==
  /\ \A text \in Contents : text \in Seq(Bytes)
  /\ ChunkSize \in Nat \ {0}
  /\ ReadsMayFail \in BOOLEAN

VARIABLES
  content,          \* what the file holds
  stream_good,      \* the stream's state: a short read ends it
  bytes_read,       \* how much of the file was delivered
  scanned,          \* how much of that went through the automaton
  state,            \* the automaton's state
  matched_indices,
  result            \* "none" yet, "reading", "error", "clean" or "malicious"

processor_vars ==
  <<content, stream_good, bytes_read, scanned, state, matched_indices, result>>
vars == <<automaton_vars, processor_vars>>

TypeOK ==
  /\ AutomatonTypeOK
  /\ content \in Contents \cup {<<>>}
  /\ stream_good \in BOOLEAN
  /\ bytes_read \in 0 .. Len(content)
  /\ scanned \in 0 .. bytes_read
  /\ state \in States
  /\ matched_indices \subseteq DOMAIN signatures
  /\ result \in {"none", "reading", "error", "clean", "malicious"}

Init ==
  /\ AutomatonInit
  /\ content = <<>>
  /\ stream_good = TRUE
  /\ bytes_read = 0
  /\ scanned = 0
  /\ state = 0
  /\ matched_indices = {}
  /\ result = "none"

Open ==
  /\ phase = "built"
  /\ result = "none"
  /\ content' \in Contents
  /\ result' \in {"reading", "error"}
  /\ UNCHANGED <<automaton_vars, stream_good, bytes_read, scanned, state, matched_indices>>

ChunkLength ==
  IF Len(content) - bytes_read < ChunkSize THEN Len(content) - bytes_read ELSE ChunkSize

(* Mutant: every chunk starts in the root.                                 *)
ReadChunkAfresh ==
  /\ result = "reading"
  /\ scanned = bytes_read
  /\ stream_good
  /\ \E n \in IF ReadsMayFail THEN 0 .. ChunkLength ELSE {ChunkLength} :
       /\ bytes_read' = bytes_read + n
       /\ stream_good' = (n = ChunkSize)
  /\ state' = 0
  /\ UNCHANGED <<automaton_vars, content, scanned, matched_indices, result>>

(* A read that delivers less than it was asked for, at the end of the file *)
(* or since the device failed, is the last one to deliver anything.        *)
ReadChunk ==
  /\ result = "reading"
  /\ scanned = bytes_read
  /\ stream_good
  /\ \E n \in IF ReadsMayFail THEN 0 .. ChunkLength ELSE {ChunkLength} :
       /\ bytes_read' = bytes_read + n
       /\ stream_good' = (n = ChunkSize)
  /\ UNCHANGED <<automaton_vars, content, scanned, state, matched_indices, result>>

(* AutomatonScanner::scanChunk()                                           *)
ScanByte ==
  /\ result = "reading"
  /\ scanned < bytes_read
  /\ state' = next[state][content[scanned + 1]]
  /\ matched_indices' = matched_indices \cup output[state']
  /\ scanned' = scanned + 1
  /\ UNCHANGED <<automaton_vars, content, stream_good, bytes_read, result>>

Verdict(matched) == IF matched = {} THEN "clean" ELSE "malicious"

EndOfFile ==
  /\ result = "reading"
  /\ scanned = bytes_read
  /\ ~stream_good
  /\ result' = Verdict(matched_indices)
  /\ UNCHANGED <<automaton_vars, content, stream_good, bytes_read, scanned, state,
                 matched_indices>>

BuildStep == Build /\ UNCHANGED processor_vars

Next == BuildStep \/ Open \/ ReadChunk \/ ScanByte \/ EndOfFile

Spec == Init /\ [][Next]_vars
-----------------------------------------------------------------------------
(* What was matched is exactly what occurs in the part of the file that    *)
(* was scanned, wherever the chunks ended.                                 *)
Occurring(text) ==
  {i \in DOMAIN signatures :
     /\ signatures[i] # <<>>
     /\ \E n \in 0 .. Len(text) : i \in EndingIn(SubSeq(text, 1, n))}

MatchesAreExact == matched_indices = Occurring(SubSeq(content, 1, scanned))

(* An unreadable file is not considered clean (README.md:249): a file is   *)
(* found clean only when all of it was read.                               *)
UnreadableIsNotClean == result = "clean" => bytes_read = Len(content)
=============================================================================
