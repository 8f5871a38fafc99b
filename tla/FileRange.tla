------------------------------ MODULE FileRange ------------------------------
(***************************************************************************)
(* The arithmetic of packages/nzb/src/geometry.ts and range.ts: where the  *)
(* articles of a file are, predicted from the first; which of them a range *)
(* needs; what slice() makes of its arguments.  Offsets are 0-based and    *)
(* ranges half-open, as in the code.  Arguments are integers: the          *)
(* truncation of fractions is left out.                                    *)
(*                                                                         *)
(* Operators named Bug... are the definition after them with one mistake.  *)
(***************************************************************************)
EXTENDS Integers

CONSTANTS
  Omitted,     \* an argument left out
  NotANumber,  \* NaN
  NoPart       \* an article without a =ypart line

ASSUME ArgumentsAssumption ==
  Omitted \notin Int /\ NotANumber \notin Int /\ Omitted # NotANumber

AtMost(a, b)  == IF a < b THEN a ELSE b
AtLeast(a, b) == IF a > b THEN a ELSE b

ByteRange(start, end) == [start |-> start, end |-> end]
Length(r)  == r.end - r.start
BytesOf(r) == r.start .. r.end - 1

(***************************************************************************)
(* An article declares the size of the file, and where it sits (part, a    *)
(* range, or NoPart); length is how many bytes it decodes to.              *)
(***************************************************************************)
CanPredict(article, count) ==
  count = 1 \/ (article.part # NoPart /\ article.part.start = 0)

Predict(article, count) ==
  LET size == IF count = 1 THEN article.size ELSE Length(article.part)
      tail == article.size - (count - 1) * size
  IN [segmentSize     |-> size,
      lastSegmentSize |-> tail,
      totalSize       |-> article.size,
      segmentCount    |-> count,
      uniform         |-> count = 1 \/ (size > 0 /\ tail > 0 /\ tail <= size)]

(* The predicted place of segment n, counted from 1. *)
SizeOf(g, n) == IF n = g.segmentCount THEN g.lastSegmentSize ELSE g.segmentSize
Place(g, n) == LET at == (n - 1) * g.segmentSize IN ByteRange(at, at + SizeOf(g, n))

(* The declared range is not compared, only how much there is. *)
BugVerifyPlacement(article, n, g) ==
  /\ article.size = g.totalSize
  /\ article.length >= SizeOf(g, n)

(* verifyPlacement does not throw. *)
VerifyPlacement(article, n, g) ==
  /\ article.size = g.totalSize
  /\ IF article.part = NoPart THEN g.segmentCount = 1 ELSE article.part = Place(g, n)
  /\ article.length >= SizeOf(g, n)

-----------------------------------------------------------------------------

Clamp(value, size) == AtMost(AtLeast(value, 0), size)

Resolve(value, default, size) ==
  CASE value = Omitted    -> default
    [] value = NotANumber -> 0
    [] OTHER              -> IF value < 0 THEN size + value ELSE value

(* An end of 0 is taken for one left out. *)
BugNormalizeSlice(size, start, end) ==
  LET from == Clamp(Resolve(start, 0, size), size)
      to   == IF end = 0 THEN size ELSE Clamp(Resolve(end, size, size), size)
  IN ByteRange(from, AtLeast(from, to))

NormalizeSlice(size, start, end) ==
  LET from == Clamp(Resolve(start, 0, size), size)
      to   == Clamp(Resolve(end, size, size), size)
  IN ByteRange(from, AtLeast(from, to))

ClampToFile(g, r) ==
  LET start == Clamp(r.start, g.totalSize)
  IN ByteRange(start, AtLeast(start, Clamp(r.end, g.totalSize)))

(* resolveRange throws. *)
Unresolvable(g, r) == Length(ClampToFile(g, r)) > 0 /\ ~g.uniform

(* What of segment n a range inside the file takes. *)
SegmentSlice(g, r, n) ==
  LET from == AtLeast(r.start, Place(g, n).start)
      to   == AtMost(r.end, Place(g, n).end)
  IN [number |-> n, offsetInSegment |-> from - Place(g, n).start, byteLength |-> to - from]

(* resolveRange's segments; numbers tell their order. *)
Segments(g, range) ==
  LET r == ClampToFile(g, range)
      first == r.start \div g.segmentSize + 1
      last  == (r.end - 1) \div g.segmentSize + 1
  IN IF Length(r) <= 0 THEN {}
     ELSE {s \in {SegmentSlice(g, r, n) : n \in first .. AtMost(last, g.segmentCount)} :
             s.byteLength > 0}
=============================================================================
