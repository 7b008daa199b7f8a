----------------------------- MODULE HttpSource -----------------------------
(***************************************************************************)
(* What http_source (src/src/http/http_source.cc) reads and makes of it:   *)
(* the messages of a server as they are sent, and the buffer operations    *)
(* of the receiving coroutine.  A body is a sequence of units, numbered to *)
(* tell them apart; of the text around them only the chunk sizes and the   *)
(* line ends that the decoder has to skip are there.                       *)
(***************************************************************************)
EXTENDS Naturals, Sequences

CONSTANT MaxSize   \* bound: units of a message body

ASSUME SizeAssumption == MaxSize \in Nat

Data(i) == [is |-> "data", n |-> i]
Size(k) == [is |-> "size", n |-> k]
Crlf == [is |-> "crlf", n |-> 0]

Unit == [is : {"data", "size", "crlf"}, n : Nat]

Body(n) == [i \in 1..n |-> Data(i)]

\* What resize fills a string up with.
Zeros(n) == [i \in 1..n |-> Data(0)]

First(s, n) == SubSeq(s, 1, n)
Rest(s, n) == SubSeq(s, n + 1, Len(s))

-----------------------------------------------------------------------------
\* k units of a body, those after the first i.
Units(i, k) == [x \in 1..k |-> Data(i + x)]

\* Where the chunk ends that begins after i units, when chunks end with the
\* units of ends.
ChunkEnd(ends, i) == CHOOSE j \in ends : j > i /\ \A k \in (i + 1)..(j - 1) : k \notin ends

\* A body of n units in such chunks: what comes after the first i units, for all
\* i where a chunk may begin.
ChunksFrom(n, ends) ==
  LET from[i \in 0..n] ==
        IF i = n THEN <<Size(0), Crlf, Crlf>>
        ELSE LET j == ChunkEnd(ends, i)
             IN  <<Size(j - i), Crlf>> \o Units(i, j - i) \o <<Crlf>> \o from[j]
  IN  from

Chunked(n, ends) == ChunksFrom(n, ends)[0]

\* With a content-length, which may be followed by more than it says or be one
\* that read_content_length rejects; in chunks; up to the end of the file.
Message(framing, n, wire) == [framing |-> framing, size |-> n, wire |-> wire]

Messages ==
  UNION {{Message("length", n, Body(n)), Message("length", n, Body(n + 1)),
          Message("illegal", n, Body(n)), Message("stream", n, Body(n))}
           \cup {Message("chunked", n, Chunked(n, (ends \cup {n}) \ {0})) :
                   ends \in SUBSET (1..n)} : n \in 0..MaxSize}

-----------------------------------------------------------------------------
\* chunk_size_rx_ matches somewhere in the buffer b.
SizeLine(b) == \E i \in 1..(Len(b) - 1) : b[i].is = "size" /\ b[i + 1] = Crlf

\* response_stream_ >> std::hex skips white space before the number.
SkipSpace(b) ==
  LET skipped == CHOOSE k \in 0..Len(b) :
                   /\ \A i \in 1..k : b[i] = Crlf
                   /\ k < Len(b) => b[k + 1] # Crlf
  IN  Rest(b, skipped)

\* Mutant of ChunkIn: buf_.consume(2) is missing.
ChunkInUnconsumed(b) ==
  LET line == SkipSpace(b)
  IN  [size |-> Head(line).n, buf |-> Tail(line)]

\* The chunk whose size line b begins with: its size, and what follows the line.
ChunkIn(b) ==
  LET line == SkipSpace(b)
  IN  [size |-> Head(line).n, buf |-> Rest(line, 2)]

\* async_read into the string s, from its unit at on, of the units u.
Filled(s, at, u) ==
  [i \in 1..Len(s) |-> IF i \in at..(at + Len(u) - 1) THEN u[i - at + 1] ELSE s[i]]

\* response_.resize(n).
Resized(s, n) == IF n <= Len(s) THEN First(s, n) ELSE s \o Zeros(n - Len(s))

=============================================================================
