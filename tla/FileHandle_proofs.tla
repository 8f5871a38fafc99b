------------------------- MODULE FileHandle_proofs -------------------------
(***************************************************************************)
(* Proofs about FileRange and FileHandle, for every post, every argument   *)
(* of slice() and every list of --range options.                           *)
(***************************************************************************)
EXTENDS FileHandle, FiniteSetTheorems, SequenceTheorems, WellFoundedInduction, TLAPS

-----------------------------------------------------------------------------
(* Multiplication and division of offsets. *)

LEMMA Successive ==
  ASSUME NEW n \in Int, NEW m \in Int, NEW S \in Nat, n < m
  PROVE  (n - 1) * S \in Int /\ (m - 1) * S \in Int /\ (n - 1) * S + S <= (m - 1) * S
OBVIOUS

LEMMA Multiples ==
  ASSUME NEW n \in Int, NEW S \in Nat, n >= 0
  PROVE  n * S \in Nat /\ n + 1 - 1 = n
OBVIOUS

LEMMA Division ==
  ASSUME NEW b \in Nat, NEW S \in Nat \ {0}
  PROVE  /\ b \div S \in Nat
         /\ (b \div S) * S <= b
         /\ b < (b \div S) * S + S
         /\ \A c \in Nat : b <= c => b \div S <= c \div S
         /\ \A C \in Nat : b < C * S => b \div S < C
OBVIOUS

-----------------------------------------------------------------------------
(* What slice() makes of its arguments is inside the window it is given. *)

Arguments == Int \cup {Omitted, NotANumber}

InFile(g, r) ==
  r \in [start : Nat, end : Nat] /\ r.start <= r.end /\ r.end <= g.totalSize

LEMMA SliceIsInside ==
  ASSUME NEW size \in Nat, NEW start \in Arguments, NEW end \in Arguments
  PROVE  LET s == NormalizeSlice(size, start, end) IN
         s \in [start : Nat, end : Nat] /\ s.start <= s.end /\ s.end <= size
<1> DEFINE from == Clamp(Resolve(start, 0, size), size)
           to   == Clamp(Resolve(end, size, size), size)
<1>1. Resolve(start, 0, size) \in Int /\ Resolve(end, size, size) \in Int
  BY ArgumentsAssumption DEF Arguments, Resolve
<1>2. from \in 0 .. size /\ to \in 0 .. size
  BY <1>1 DEF Clamp, AtMost, AtLeast
<1>3. NormalizeSlice(size, start, end) = ByteRange(from, AtLeast(from, to))
  BY DEF NormalizeSlice
<1> HIDE DEF from, to
<1> QED BY <1>2, <1>3 DEF ByteRange, AtLeast

(* The bytes Blob.slice() would take. *)
LEMMA SliceTakes ==
  ASSUME NEW size \in Nat, NEW start \in Arguments, NEW end \in Arguments, NEW i \in 0 .. size - 1
  PROVE  i \in BytesOf(NormalizeSlice(size, start, end)) <=>
           /\ start \in {Omitted, NotANumber} \/ i >= (IF start < 0 THEN size + start ELSE start)
           /\ end = Omitted \/ (end # NotANumber /\ i < (IF end < 0 THEN size + end ELSE end))
<1> DEFINE a == Resolve(start, 0, size)
           z == Resolve(end, size, size)
           from == Clamp(a, size)
           to   == Clamp(z, size)
<1>1. a \in Int /\ z \in Int
  BY ArgumentsAssumption DEF Arguments, Resolve
<1>2. NormalizeSlice(size, start, end) = ByteRange(from, AtLeast(from, to))
  BY DEF NormalizeSlice
<1>3. i \in BytesOf(ByteRange(from, AtLeast(from, to))) <=> a <= i /\ i < z
  <2> HIDE DEF a, z
  <2> QED BY <1>1 DEF BytesOf, ByteRange, AtLeast, AtMost, Clamp
<1>4. a <= i <=> start \in {Omitted, NotANumber} \/ i >= (IF start < 0 THEN size + start ELSE start)
  BY ArgumentsAssumption DEF Arguments, Resolve
<1>5. i < z <=> end = Omitted \/ (end # NotANumber /\ i < (IF end < 0 THEN size + end ELSE end))
  BY ArgumentsAssumption DEF Arguments, Resolve
<1> QED BY <1>2, <1>3, <1>4, <1>5

-----------------------------------------------------------------------------
(* The layout predicted from the first article, and the segments of a range. *)

GeometryOK(g) ==
  /\ g.totalSize \in Nat /\ g.segmentCount \in Nat \ {0}
  /\ g.segmentSize \in Int
  /\ g.lastSegmentSize = g.totalSize - (g.segmentCount - 1) * g.segmentSize
  /\ g.uniform /\ g.totalSize > 0 =>
       g.segmentSize > 0 /\ 0 < g.lastSegmentSize /\ g.lastSegmentSize <= g.segmentSize

LEMMA PredictedIsOK ==
  ASSUME NEW article \in Articles, NEW count \in Nat \ {0}, CanPredict(article, count)
  PROVE  GeometryOK(Predict(article, count)) /\ Predict(article, count).totalSize = article.size
<1> DEFINE g == Predict(article, count)
           size == IF count = 1 THEN article.size ELSE Length(article.part)
<1>1. /\ g.segmentSize = size /\ g.totalSize = article.size /\ g.segmentCount = count
      /\ g.lastSegmentSize = article.size - (count - 1) * size
      /\ g.uniform <=> count = 1 \/ (size > 0 /\ g.lastSegmentSize > 0 /\ g.lastSegmentSize <= size)
  BY DEF Predict
<1>2. article.size \in Nat /\ size \in Int
  <2>1. article.size \in Nat /\ article.part \in [start : Nat, end : Nat] \cup {NoPart}
    BY DEF Articles
  <2>2. CASE count = 1
    BY <2>1, <2>2
  <2>3. CASE count # 1
    <3>1. article.part \in [start : Nat, end : Nat]
      BY <2>1, <2>3 DEF CanPredict
    <3> QED BY <2>1, <2>3, <3>1 DEF Length
  <2> QED BY <2>2, <2>3
<1>3. count = 1 => size = article.size /\ (count - 1) * size = 0
  BY <1>2
<1> HIDE DEF g, size
<1> QED BY <1>1, <1>2, <1>3 DEF GeometryOK, g

(* The layout as the segments see it. *)
Laid(g) == GeometryOK(g) /\ g.uniform /\ g.totalSize > 0

LEMMA Places ==
  ASSUME NEW g, Laid(g), NEW n \in 1 .. g.segmentCount
  PROVE  /\ Place(g, n).start \in Nat /\ Place(g, n).end \in Nat
         /\ Place(g, n).start = (n - 1) * g.segmentSize
         /\ Place(g, n).start < Place(g, n).end
         /\ Place(g, n).end <= Place(g, n).start + g.segmentSize
         /\ n < g.segmentCount => Place(g, n).end = Place(g, n).start + g.segmentSize
         /\ n = g.segmentCount => Place(g, n).end = g.totalSize
         /\ \A m \in 1 .. g.segmentCount : n < m => Place(g, n).end <= Place(g, m).start
<1> DEFINE S == g.segmentSize
           C == g.segmentCount
           at(k) == (k - 1) * S
<1>1. /\ S \in Nat \ {0} /\ C \in Nat \ {0} /\ g.totalSize \in Nat
      /\ g.lastSegmentSize = g.totalSize - at(C)
      /\ 0 < g.lastSegmentSize /\ g.lastSegmentSize <= S
  BY DEF Laid, GeometryOK
<1>2. \A k \in 1 .. C : at(k) \in Nat
  BY <1>1, Multiples
<1>3. \A k \in 1 .. C : Place(g, k).start = at(k) /\ Place(g, k).end = at(k) + SizeOf(g, k)
  BY DEF Place, ByteRange
<1>4. \A k, m \in 1 .. C : k < m => at(k) + S <= at(m)
  BY <1>1, Successive
<1>5. SizeOf(g, n) = IF n = C THEN g.lastSegmentSize ELSE S
  BY DEF SizeOf
<1>6. C \in 1 .. C
  BY <1>1
<1> HIDE DEF S, C, at
<1>7. at(n) \in Nat /\ (n < C \/ n = C) /\ at(C) \in Nat /\ n \in Nat
  BY <1>1, <1>2, <1>6 DEF C
<1>8. CASE n < C
  <2>1. SizeOf(g, n) = S
    BY <1>1, <1>5, <1>7, <1>8
  <2> QED BY <1>1, <1>3, <1>4, <1>7, <1>8, <2>1 DEF S, C, at
<1>9. CASE n = C
  <2>1. SizeOf(g, n) = g.lastSegmentSize /\ Place(g, n).end = g.totalSize
    BY <1>1, <1>3, <1>5, <1>6, <1>7, <1>9
  <2> QED BY <1>1, <1>3, <1>4, <1>7, <1>9, <2>1 DEF S, C, at
<1> QED BY <1>7, <1>8, <1>9

-----------------------------------------------------------------------------
(* The segments of a range inside the file: they lie in the file one after *)
(* the other and between them they have every byte of the range.           *)

LEMMA ClampKeeps ==
  ASSUME NEW g, g.totalSize \in Nat, NEW r, InFile(g, r)
  PROVE  ClampToFile(g, r) = r
BY DEF InFile, ClampToFile, Clamp, AtMost, AtLeast, ByteRange

(* Where a segment of a read begins in the file, and the bytes it is for. *)
From(g, s)   == (s.number - 1) * g.segmentSize + s.offsetInSegment
Covers(g, s) == From(g, s) .. From(g, s) + s.byteLength - 1

LEMMA SegmentFacts ==
  ASSUME NEW g, Laid(g), NEW r, InFile(g, r), NEW s \in Segments(g, r)
  PROVE  /\ s.number \in 1 .. g.segmentCount
         /\ s = SegmentSlice(g, r, s.number)
         /\ s.offsetInSegment \in Nat /\ s.byteLength \in Nat \ {0} /\ From(g, s) \in Nat
         /\ From(g, s) = AtLeast(r.start, Place(g, s.number).start)
         /\ From(g, s) + s.byteLength = AtMost(r.end, Place(g, s.number).end)
<1> DEFINE S == g.segmentSize
           first == r.start \div S + 1
           last == (r.end - 1) \div S + 1
<1>1. /\ S \in Nat \ {0} /\ g.segmentCount \in Nat \ {0} /\ g.totalSize \in Nat
      /\ r.start \in Nat /\ r.end \in Nat
  BY DEF Laid, GeometryOK, InFile
<1>2. Length(r) > 0
  BY <1>1, ClampKeeps DEF Segments, Length
<1>3. r.end - 1 \in Nat
  BY <1>1, <1>2 DEF Length
<1>4. r.start \div S \in Nat /\ (r.end - 1) \div S \in Nat
  BY <1>1, <1>3, Division
<1>5. /\ s \in {SegmentSlice(g, r, n) : n \in first .. AtMost(last, g.segmentCount)}
      /\ s.byteLength > 0
  BY <1>1, <1>2, ClampKeeps DEF Segments
<1>6. PICK n \in first .. AtMost(last, g.segmentCount) : s = SegmentSlice(g, r, n)
  BY <1>5
<1>7. n \in 1 .. g.segmentCount
  <2> HIDE DEF S
  <2> QED BY <1>1, <1>4, <1>6 DEF AtMost
<1>8. s.number = n
  BY <1>6 DEF SegmentSlice
<1> DEFINE a == Place(g, n).start
           z == Place(g, n).end
<1>9. a \in Nat /\ z \in Nat /\ a = (n - 1) * g.segmentSize
  BY <1>7, Places
<1>10. /\ s.offsetInSegment = AtLeast(r.start, a) - a
       /\ s.byteLength = AtMost(r.end, z) - AtLeast(r.start, a)
       /\ From(g, s) = a + s.offsetInSegment
  BY <1>6, <1>8, <1>9 DEF SegmentSlice, From
<1>11. a \in Nat /\ z \in Nat
  BY <1>9
<1> HIDE DEF a, z
<1>12. /\ s.offsetInSegment \in Nat /\ s.byteLength \in Nat \ {0} /\ From(g, s) \in Nat
       /\ From(g, s) = AtLeast(r.start, a)
       /\ From(g, s) + s.byteLength = AtMost(r.end, z)
  BY <1>1, <1>5, <1>10, <1>11 DEF AtLeast, AtMost
<1> QED BY <1>6, <1>7, <1>8, <1>12 DEF a, z

LEMMA SegmentsCover ==
  ASSUME NEW g, Laid(g), NEW r, InFile(g, r), NEW b \in BytesOf(r)
  PROVE  \E s \in Segments(g, r) : b \in Covers(g, s)
<1> DEFINE S == g.segmentSize
           C == g.segmentCount
           first == r.start \div S + 1
           last == (r.end - 1) \div S + 1
           n == b \div S + 1
<1>1. /\ S \in Nat \ {0} /\ C \in Nat \ {0} /\ g.totalSize \in Nat
      /\ r.start \in Nat /\ r.end \in Nat /\ r.end <= g.totalSize
      /\ b \in Nat /\ r.start <= b /\ b < r.end
  BY DEF Laid, GeometryOK, InFile, BytesOf
<1>2. b < C * S
  <2>1. g.totalSize = (C - 1) * S + g.lastSegmentSize /\ g.lastSegmentSize \in Int
        /\ g.lastSegmentSize <= S
    BY DEF Laid, GeometryOK
  <2>2. (C - 1) * S \in Int /\ (C - 1) * S + S = C * S
    BY <1>1
  <2> QED BY <1>1, <2>1, <2>2
<1>3. /\ b \div S \in Nat /\ (b \div S) * S <= b /\ b < (b \div S) * S + S
      /\ b \div S < C
      /\ r.start \div S \in Nat /\ r.start \div S <= b \div S
      /\ (r.end - 1) \div S \in Nat /\ b \div S <= (r.end - 1) \div S
  <2>1. r.end - 1 \in Nat /\ b <= r.end - 1
    BY <1>1
  <2> QED BY <1>1, <1>2, <2>1, Division
<1>4. n \in 1 .. C /\ n \in first .. AtMost(last, C) /\ n - 1 = b \div S
  <2> HIDE DEF S, C
  <2> QED BY <1>1, <1>3 DEF AtMost
<1> DEFINE s == SegmentSlice(g, r, n)
           a == Place(g, n).start
           z == Place(g, n).end
<1>5. a \in Nat /\ z \in Nat /\ a <= b /\ b < z /\ a = (n - 1) * S
  <2>1. /\ a \in Nat /\ z \in Nat /\ a = (n - 1) * S
        /\ n < C => z = a + S
        /\ n = C => z = g.totalSize
    BY <1>4, Places
  <2>2. a = (b \div S) * S
    BY <1>4, <2>1
  <2> HIDE DEF a, z, n, S, C
  <2>3. n < C \/ n = C
    BY <1>1, <1>4
  <2> QED BY <1>1, <1>3, <2>1, <2>2, <2>3
<1>6. /\ s.number = n /\ s.offsetInSegment = AtLeast(r.start, a) - a
      /\ s.byteLength = AtMost(r.end, z) - AtLeast(r.start, a)
  BY DEF SegmentSlice
<1>7. From(g, s) = a + s.offsetInSegment
  BY <1>5, <1>6 DEF From
<1>8. s.byteLength > 0 /\ b \in Covers(g, s)
  <2> HIDE DEF a, z, n, s
  <2> QED BY <1>1, <1>5, <1>6, <1>7 DEF AtLeast, AtMost, Covers
<1>9. s \in Segments(g, r)
  <2>1. Length(r) > 0
    BY <1>1 DEF Length
  <2>2. s \in {SegmentSlice(g, r, m) : m \in first .. AtMost(last, g.segmentCount)}
    BY <1>4
  <2>3. Segments(g, r) = {x \in {SegmentSlice(g, r, m) : m \in first .. AtMost(last, g.segmentCount)} :
                            x.byteLength > 0}
    <3>1. ClampToFile(g, r) = r /\ ~(Length(r) <= 0)
      BY <1>1, <2>1, ClampKeeps DEF Length
    <3> QED BY <3>1 DEF Segments
  <2> QED BY <1>8, <2>2, <2>3
<1> QED BY <1>8, <1>9

LEMMA SegmentsApart ==
  ASSUME NEW g, Laid(g), NEW r, InFile(g, r),
         NEW s \in Segments(g, r), NEW t \in Segments(g, r), s.number <= t.number
  PROVE  s = t \/ From(g, s) + s.byteLength <= From(g, t)
<1>1. CASE s.number = t.number
  BY <1>1, SegmentFacts
<1>2. CASE s.number # t.number
  <2>1. /\ s.number \in 1 .. g.segmentCount /\ t.number \in 1 .. g.segmentCount
        /\ From(g, t) = AtLeast(r.start, Place(g, t.number).start)
        /\ From(g, s) + s.byteLength = AtMost(r.end, Place(g, s.number).end)
    BY SegmentFacts
  <2>2. s.number < t.number
    BY <1>2, <2>1
  <2>3. /\ Place(g, s.number).end \in Nat /\ Place(g, t.number).start \in Nat
        /\ Place(g, s.number).end <= Place(g, t.number).start
    BY <2>1, <2>2, Places
  <2>4. r.start \in Nat /\ r.end \in Nat
    BY DEF InFile
  <2> QED BY <2>1, <2>3, <2>4 DEF AtLeast, AtMost
<1> QED BY <1>1, <1>2


-----------------------------------------------------------------------------
(* The ranges of get. *)

LEMMA MinIsLeast ==
  ASSUME NEW S, S \subseteq Nat, S # {}
  PROVE  Min(S) \in S /\ (\A x \in S : Min(S) <= x)
<1>1. PICK x \in S : \A y \in S : ~(<<y, x>> \in OpToRel(<, Nat))
  BY NatLessThanWellFounded, WFMin
<1>2. ASSUME NEW y \in S PROVE x <= y
  <2>1. ~(y < x)
    BY <1>1 DEF OpToRel
  <2> QED BY <2>1
<1> QED BY <1>2 DEF Min

(* What a --range asks for is what its window takes. *)
LEMMA RangeBytes ==
  ASSUME GeometryOK(geometry), NEW r \in RangeOptions, r.start < 0 => r.end = Omitted
  PROVE  /\ InFile(geometry, Apply(r)) /\ OffsetOf(r) \in Int
         /\ BytesOf(Apply(r)) = Asked(r)
<1> DEFINE size == geometry.totalSize
           w == Apply(r)
<1>1. /\ size \in Nat /\ r.start \in Int /\ r.end \in Nat \cup {Omitted}
      /\ r.start \in Arguments /\ r.end \in Arguments
  BY DEF GeometryOK, RangeOptions, Arguments
<1>2. w = NormalizeSlice(size, r.start, r.end)
  BY DEF Apply
<1>3. w \in [start : Nat, end : Nat] /\ w.start <= w.end /\ w.end <= size
  BY <1>1, <1>2, SliceIsInside
<1>4. OffsetOf(r) \in Int
  BY <1>1 DEF OffsetOf, AtLeast, AtMost
<1>5. BytesOf(w) \subseteq 0 .. size - 1
  BY <1>1, <1>3 DEF BytesOf
<1>6. ASSUME NEW i \in 0 .. size - 1 PROVE i \in BytesOf(w) <=> i \in Asked(r)
  <2>1. i \in BytesOf(w) <=>
          /\ r.start \in {Omitted, NotANumber} \/ i >= (IF r.start < 0 THEN size + r.start ELSE r.start)
          /\ r.end = Omitted \/ (r.end # NotANumber /\ i < (IF r.end < 0 THEN size + r.end ELSE r.end))
    BY <1>1, <1>2, SliceTakes
  <2>2. i \in Asked(r) <=>
          IF r.start < 0 THEN i >= size + r.start
          ELSE i >= r.start /\ (r.end = Omitted \/ i < r.end)
    BY DEF Asked
  <2>3. r.start \notin {Omitted, NotANumber} /\ r.end # NotANumber
    BY <1>1, ArgumentsAssumption
  <2> HIDE DEF w, size
  <2>4. CASE r.end = Omitted
    BY <1>1, <2>1, <2>2, <2>3, <2>4
  <2>5. CASE r.end \in Nat
    BY <1>1, <2>1, <2>2, <2>3, <2>5, ArgumentsAssumption
  <2> QED BY <1>1, <2>4, <2>5
<1>7. Asked(r) \subseteq 0 .. size - 1
  BY DEF Asked
<1> HIDE DEF w
<1>8. BytesOf(w) = Asked(r)
  BY <1>5, <1>6, <1>7
<1> QED BY <1>3, <1>4, <1>8 DEF InFile, w

-----------------------------------------------------------------------------
(* The invariant. *)

Stages == {"closed", "refused", "open", "skipped", "getting", "reading", "done", "failed"}

HandleTypeOK ==
  /\ post \in Posts
  /\ use \in {"bytes", "writeTo", "get"}
  /\ use = "get" => options \in Gets
  /\ stage \in Stages
  /\ use # "get" => stage \notin {"getting", "skipped"}
  /\ GeometryOK(geometry)
  /\ InFile(geometry, window)
  /\ shift \in Int /\ (use # "get" => shift = 0)
  /\ todo \subseteq DOMAIN Ranges

(* The window of a handle is the last slice() of a window that was in the *)
(* file itself; get never slices.                                         *)
CutOK ==
  /\ use = "get" \/ stage = "closed" => cut.depth = 0
  /\ cut.depth # 0 =>
       LET n == NormalizeSlice(Length(cut.of), cut.start, cut.end) IN
       /\ cut.depth \in Nat
       /\ InFile(geometry, cut.of)
       /\ cut.start \in Arguments /\ cut.end \in Arguments
       /\ window = ByteRange(cut.of.start + n.start, cut.of.start + n.end)

(* What was handed over is in its place. *)
OutOK ==
  /\ stage \in {"closed", "refused", "open", "skipped"} => out = {}
  /\ \A w \in out : w[1] + Base = w[2] /\ w[2] \in Wanted

Got == {w[2] : w \in out}

(* The segments left are of this window, and have all of it not handed over. *)
ReadingOK ==
  stage = "reading" =>
    /\ left \subseteq Segments(geometry, window)
    /\ Length(window) > 0 => geometry.uniform
    /\ BytesOf(window) \subseteq Wanted
    /\ \A b \in BytesOf(window) : b \in Got \/ \E s \in left : b \in Covers(geometry, s)

(* bytes() has filled its array up to where the first segment left begins. *)
Prefix(start, count) == {<<i, start + i>> : i \in 0 .. count - 1}

PrefixOK ==
  stage = "reading" /\ use = "bytes" =>
    \E count \in 0 .. Length(window) :
      /\ out = Prefix(window.start, count)
      /\ \A s \in left : window.start + count <= From(geometry, s)

(* get: every byte asked for was written, is being read, or is still to do. *)
AccountedOK ==
  /\ stage = "done" => Wanted \subseteq Got
  /\ use = "get" /\ stage \in {"getting", "reading"} =>
       \A b \in Wanted :
         \/ b \in Got
         \/ stage = "reading" /\ b \in BytesOf(window)
         \/ \E i \in todo : b \in BytesOf(Apply(Ranges[i]))

HandleInv == HandleTypeOK /\ CutOK /\ OutOK /\ ReadingOK /\ PrefixOK /\ AccountedOK

-----------------------------------------------------------------------------
(* What the steps of a read rely on. *)

LEMMA RangesFacts ==
  ASSUME HandleTypeOK, use = "get"
  PROVE  /\ DOMAIN Ranges \subseteq Nat
         /\ \A i \in DOMAIN Ranges :
              /\ InFile(geometry, Apply(Ranges[i])) /\ OffsetOf(Ranges[i]) \in Int
              /\ BytesOf(Apply(Ranges[i])) = Asked(Ranges[i])
<1>1. options \in Gets /\ GeometryOK(geometry)
  BY DEF HandleTypeOK
<1>2. /\ Ranges \in Seq(RangeOptions)
      /\ \A i \in DOMAIN Ranges : Ranges[i].start < 0 => Ranges[i].end = Omitted
  <2>1. CASE options.ranges = <<>>
    <3>1. Ranges = <<Whole>> /\ Whole \in RangeOptions /\ Whole.start = 0
      BY <2>1 DEF Ranges, Whole, RangeOptions
    <3> HIDE DEF Whole
    <3> QED BY <3>1
  <2>2. CASE options.ranges # <<>>
    BY <1>1, <2>2, GetsAssumption DEF Ranges
  <2> QED BY <2>1, <2>2
<1>3. \A i \in DOMAIN Ranges : Ranges[i] \in RangeOptions
  BY <1>2, ElementOfSeq, LenProperties
<1>4. DOMAIN Ranges = 1 .. Len(Ranges) /\ Len(Ranges) \in Nat
  BY <1>2, LenProperties
<1> QED BY <1>1, <1>2, <1>3, <1>4, RangeBytes

LEMMA WantedByGet ==
  ASSUME HandleTypeOK, use = "get"
  PROVE  /\ \A i \in DOMAIN Ranges : BytesOf(Apply(Ranges[i])) \subseteq Wanted
         /\ \A b \in Wanted : \E i \in DOMAIN Ranges : b \in BytesOf(Apply(Ranges[i]))
BY RangesFacts DEF Wanted

(* A read begins with all of its window to be handed over. *)
LEMMA ReadBegins ==
  ASSUME GeometryOK(geometry), NEW w, InFile(geometry, w), BeginRead(w), stage' = "reading"
  PROVE  /\ window' = w /\ left' = Segments(geometry, w)
         /\ Length(w) > 0 => geometry.uniform
         /\ \A b \in BytesOf(w) : \E s \in left' : b \in Covers(geometry, s)
<1>1. /\ window' = w /\ left' = Segments(geometry, w) /\ ~Unresolvable(geometry, w)
  BY DEF BeginRead
<1>2. geometry.totalSize \in Nat /\ w.start \in Nat /\ w.end \in Nat /\ w.end <= geometry.totalSize
  BY DEF GeometryOK, InFile
<1>3. Length(w) > 0 => geometry.uniform
  BY <1>1, <1>2, ClampKeeps DEF Unresolvable
<1>4. ASSUME NEW b \in BytesOf(w) PROVE \E s \in left' : b \in Covers(geometry, s)
  <2>1. Length(w) > 0 /\ geometry.totalSize > 0
    BY <1>2, <1>4 DEF BytesOf, Length
  <2>2. Laid(geometry)
    BY <1>3, <2>1 DEF Laid
  <2> QED BY <1>1, <1>4, <2>2, SegmentsCover
<1> QED BY <1>1, <1>3, <1>4

(* Only a predictable layout has segments to read. *)
LEMMA LeftIsLaid ==
  ASSUME HandleTypeOK, ReadingOK, stage = "reading", NEW s \in left
  PROVE  Laid(geometry) /\ InFile(geometry, window) /\ s \in Segments(geometry, window)
<1>1. /\ GeometryOK(geometry) /\ InFile(geometry, window) /\ s \in Segments(geometry, window)
      /\ Length(window) > 0 => geometry.uniform
  BY DEF HandleTypeOK, ReadingOK
<1>2. geometry.totalSize \in Nat /\ window.start \in Nat /\ window.end \in Nat
      /\ window.end <= geometry.totalSize
  BY <1>1 DEF GeometryOK, InFile
<1>3. Length(window) > 0
  BY <1>1, <1>2, ClampKeeps DEF Segments, Length
<1>4. geometry.totalSize > 0
  BY <1>2, <1>3 DEF Length
<1> QED BY <1>1, <1>3, <1>4 DEF Laid

(* An article that is where the layout says holds, at each offset of the    *)
(* segment, the byte the segment is for; those lie in the window.           *)
LEMMA SegmentHolds ==
  ASSUME HandleTypeOK, ReadingOK, stage = "reading", NEW s \in left,
         VerifyPlacement(post[s.number], s.number, geometry), NEW i \in 0 .. s.byteLength - 1
  PROVE  /\ ByteAt(post[s.number], s.offsetInSegment + i) = From(geometry, s) + i
         /\ From(geometry, s) + i \in BytesOf(window)
<1> DEFINE n == s.number
           a == Place(geometry, n).start
           z == Place(geometry, n).end
           article == post[n]
<1>1. /\ Laid(geometry) /\ InFile(geometry, window) /\ s \in Segments(geometry, window)
      /\ n \in 1 .. geometry.segmentCount
      /\ s.offsetInSegment \in Nat /\ s.byteLength \in Nat \ {0} /\ From(geometry, s) \in Nat
      /\ From(geometry, s) = AtLeast(window.start, a)
      /\ From(geometry, s) + s.byteLength = AtMost(window.end, z)
  BY LeftIsLaid, SegmentFacts
<1>2. a \in Nat /\ z \in Nat /\ a = (n - 1) * geometry.segmentSize
  BY <1>1, Places
<1>3. From(geometry, s) = a + s.offsetInSegment
  BY <1>2 DEF From
<1>4. (IF article.part = NoPart THEN 0 ELSE article.part.start) = a
  <2>1. CASE article.part = NoPart
    <3>1. geometry.segmentCount = 1
      BY <2>1 DEF VerifyPlacement
    <3>2. n = 1 /\ geometry.segmentSize \in Int
      BY <1>1, <3>1 DEF Laid, GeometryOK
    <3> QED BY <1>2, <2>1, <3>2
  <2>2. CASE article.part # NoPart
    BY <2>2 DEF VerifyPlacement
  <2> QED BY <2>1, <2>2
<1>5. window.start \in Nat /\ window.end \in Nat
  BY <1>1 DEF InFile
<1>6. a \in Nat /\ z \in Nat
  BY <1>2
<1>7. ByteAt(article, s.offsetInSegment + i) = s.offsetInSegment + i + a
  BY <1>4 DEF ByteAt
<1> HIDE DEF n, a, z, article
<1>8. ByteAt(article, s.offsetInSegment + i) = From(geometry, s) + i
  BY <1>1, <1>3, <1>6, <1>7
<1>9. From(geometry, s) + i \in BytesOf(window)
  BY <1>1, <1>5, <1>6 DEF BytesOf, AtLeast, AtMost
<1> QED BY <1>8, <1>9 DEF article, n

(* bytes() goes in order: the first segment left begins where the filled  *)
(* part of the array ends.                                                *)
LEMMA NextIsAdjacent ==
  ASSUME HandleTypeOK, ReadingOK, stage = "reading", NEW s \in left,
         \A t \in left : s.number <= t.number,
         NEW count \in 0 .. Length(window), out = Prefix(window.start, count),
         \A t \in left : window.start + count <= From(geometry, t)
  PROVE  From(geometry, s) = window.start + count
<1> DEFINE b == window.start + count
<1>1. /\ Laid(geometry) /\ InFile(geometry, window) /\ s \in Segments(geometry, window)
      /\ s.byteLength \in Nat \ {0} /\ From(geometry, s) \in Nat
      /\ From(geometry, s) + s.byteLength = AtMost(window.end, Place(geometry, s.number).end)
      /\ Place(geometry, s.number).end \in Nat
  BY LeftIsLaid, SegmentFacts, Places
<1>2. window.start \in Nat /\ window.end \in Nat
  BY <1>1 DEF InFile
<1>3. count \in Nat
  BY <1>2 DEF Length
<1>4. b <= From(geometry, s) /\ From(geometry, s) < window.end
  BY <1>1, <1>2, <1>3 DEF AtMost
<1>5. b \in BytesOf(window)
  BY <1>1, <1>2, <1>3, <1>4 DEF BytesOf
<1>6. b \notin Got
  BY <1>2, <1>3 DEF Got, Prefix
<1>7. PICK t \in left : b \in Covers(geometry, t)
  BY <1>5, <1>6 DEF ReadingOK
<1>8. t \in Segments(geometry, window) /\ From(geometry, t) \in Nat /\ t.byteLength \in Nat \ {0}
  BY LeftIsLaid, SegmentFacts
<1>9. From(geometry, t) <= b
  BY <1>2, <1>3, <1>7, <1>8 DEF Covers
<1>10. s = t \/ From(geometry, s) + s.byteLength <= From(geometry, t)
  BY <1>1, <1>8, SegmentsApart
<1> QED BY <1>1, <1>2, <1>3, <1>4, <1>8, <1>9, <1>10

LEMMA PrefixSize ==
  ASSUME NEW start \in Nat, NEW count \in Nat
  PROVE  Cardinality(Prefix(start, count)) = count
<1> DEFINE S == 0 .. count - 1
           T == Prefix(start, count)
           f == [i \in S |-> <<i, start + i>>]
<1>1. IsFiniteSet(S) /\ Cardinality(S) = count
  BY FS_Interval
<1>2. f \in [S -> T] /\ (\A i, j \in S : f[i] = f[j] => i = j) /\ (\A t \in T : \E i \in S : f[i] = t)
  BY DEF Prefix
<1>3. f \in Bijection(S, T)
  <2> HIDE DEF S, T, f
  <2> QED BY <1>2 DEF Bijection, Injection, Surjection, IsInjective
<1>4. ExistsBijection(S, T)
  BY <1>3 DEF ExistsBijection
<1> HIDE DEF S, T
<1> QED BY <1>1, <1>4, FS_Bijection DEF T

(* The file and what is asked of it stay the same. *)
LEMMA SameFile ==
  ASSUME UNCHANGED <<use, options, geometry>>
  PROVE  /\ Ranges' = Ranges
         /\ \A r : Apply(r)' = Apply(r) /\ Asked(r)' = Asked(r)
         /\ window' = window \/ use = "get" => Wanted' = Wanted
BY DEF Ranges, Apply, Asked, Wanted

-----------------------------------------------------------------------------
(* Each step keeps the invariant. *)

LEMMA InitEstablishes ==
  ASSUME Init PROVE HandleInv
<1> DEFINE none == [size |-> 0, part |-> NoPart, length |-> 0]
<1>1. none \in Articles /\ CanPredict(none, 1) /\ 1 \in Nat \ {0} /\ none.size = 0
  BY DEF Articles, CanPredict
<1>2. GeometryOK(geometry) /\ geometry.totalSize = 0
  <2> HIDE DEF none
  <2>1. geometry = Predict(none, 1)
    BY DEF Init, NoGeometry, none
  <2> QED BY <1>1, <2>1, PredictedIsOK
<1>3. InFile(geometry, window)
  BY <1>2 DEF Init, ByteRange, InFile
<1>4. HandleTypeOK
  BY <1>2, <1>3 DEF Init, HandleTypeOK, Stages
<1>5. CutOK
  BY DEF Init, CutOK
<1>6. OutOK /\ ReadingOK /\ PrefixOK /\ AccountedOK
  BY DEF Init, OutOK, ReadingOK, PrefixOK, AccountedOK
<1> QED BY <1>4, <1>5, <1>6 DEF HandleInv

LEMMA OpenKeeps ==
  ASSUME HandleInv, OpenNzbFile PROVE HandleInv'
<1>1. /\ HandleTypeOK /\ CutOK /\ OutOK
      /\ stage = "closed" /\ stage' \in {"open", "refused"}
      /\ UNCHANGED <<post, use, options, cut, todo, shift, left, out, planned, fetched>>
  BY DEF HandleInv, OpenNzbFile
<1>2. post[1] \in Articles /\ Len(post) \in Nat \ {0}
  <2>1. post \in Seq(Articles) /\ post # <<>>
    BY <1>1, PostsAssumption DEF HandleTypeOK
  <2>2. Len(post) \in Nat \ {0} /\ 1 \in 1 .. Len(post)
    BY <2>1, EmptySeq, LenProperties
  <2> QED BY <2>1, <2>2, ElementOfSeq
<1>3. GeometryOK(geometry') /\ InFile(geometry', window')
  <2>1. CASE stage' = "open"
    <3>1. /\ CanPredict(post[1], Len(post)) /\ geometry' = Predict(post[1], Len(post))
          /\ window' = ByteRange(0, post[1].size)
      BY <2>1 DEF OpenNzbFile
    <3>2. GeometryOK(geometry') /\ geometry'.totalSize = post[1].size
      BY <1>2, <3>1, PredictedIsOK
    <3>3. post[1].size \in Nat
      BY <1>2 DEF Articles
    <3> QED BY <3>1, <3>2, <3>3 DEF InFile, ByteRange
  <2>2. CASE stage' = "refused"
    BY <1>1, <2>2 DEF OpenNzbFile, HandleTypeOK
  <2> QED BY <1>1, <2>1, <2>2
<1>4. Ranges' = Ranges
  BY <1>1 DEF Ranges
<1>5. HandleTypeOK'
  BY <1>1, <1>3, <1>4 DEF HandleTypeOK, Stages
<1>6. CutOK'
  BY <1>1 DEF CutOK
<1>7. OutOK' /\ ReadingOK' /\ PrefixOK' /\ AccountedOK'
  BY <1>1 DEF OutOK, ReadingOK, PrefixOK, AccountedOK
<1> QED BY <1>5, <1>6, <1>7 DEF HandleInv

LEMMA SliceKeeps ==
  ASSUME HandleInv, NEW start \in Bounds, NEW end \in Bounds, Slice(start, end) PROVE HandleInv'
<1> DEFINE n == NormalizeSlice(Length(window), start, end)
<1>1. /\ HandleTypeOK /\ CutOK /\ OutOK
      /\ stage = "open" /\ use # "get"
      /\ window' = ByteRange(window.start + n.start, window.start + n.end)
      /\ cut' = [depth |-> cut.depth + 1, of |-> window, start |-> start, end |-> end]
      /\ UNCHANGED <<post, use, options, stage, geometry, todo, shift, left, out, planned, fetched>>
  BY DEF HandleInv, Slice
<1>2. start \in Arguments /\ end \in Arguments
  BY BoundsAssumption DEF Arguments
<1>3. /\ window.start \in Nat /\ window.end \in Nat /\ window.start <= window.end
      /\ window.end <= geometry.totalSize /\ InFile(geometry, window)
  BY <1>1 DEF HandleTypeOK, InFile
<1>4. Length(window) \in Nat /\ Length(window) = window.end - window.start
  BY <1>3 DEF Length
<1>5. n.start \in Nat /\ n.end \in Nat /\ n.start <= n.end /\ n.end <= Length(window)
  BY <1>2, <1>4, SliceIsInside
<1>6. InFile(geometry, window')
  <2>1. geometry.totalSize \in Nat
    BY <1>1 DEF HandleTypeOK, GeometryOK
  <2> HIDE DEF n
  <2> QED BY <1>1, <1>3, <1>4, <1>5, <2>1 DEF InFile, ByteRange
<1>7. Ranges' = Ranges
  BY <1>1 DEF Ranges
<1>8. HandleTypeOK'
  BY <1>1, <1>6, <1>7 DEF HandleTypeOK
<1>9. CutOK'
  <2>1. cut.depth + 1 \in Nat
    BY <1>1 DEF CutOK
  <2> QED BY <1>1, <1>2, <1>3, <2>1 DEF CutOK
<1>10. OutOK' /\ ReadingOK' /\ PrefixOK' /\ AccountedOK'
  BY <1>1 DEF OutOK, ReadingOK, PrefixOK, AccountedOK
<1> QED BY <1>8, <1>9, <1>10 DEF HandleInv

LEMMA ReadKeeps ==
  ASSUME HandleInv, Read PROVE HandleInv'
<1>1. /\ HandleTypeOK /\ OutOK
      /\ stage = "open" /\ use # "get" /\ BeginRead(window) /\ window' = window
      /\ cut'.depth = 0 /\ stage' \in {"failed", "reading"}
      /\ UNCHANGED <<post, use, options, geometry, todo, shift, out, planned, fetched>>
  <2>1. HandleTypeOK /\ CutOK /\ OutOK /\ Read
    BY DEF HandleInv
  <2>2. cut'.depth = 0
    <3>1. cut.depth = 0 \/ cut.depth # 0
      OBVIOUS
    <3>2. cut' = [cut EXCEPT !.depth = 0, !.of = ByteRange(0, 0), !.start = Omitted, !.end = Omitted]
      BY <2>1 DEF Read
    <3> QED BY <3>2
  <2> QED BY <2>1, <2>2 DEF Read, BeginRead
<1>2. Ranges' = Ranges /\ Wanted' = Wanted /\ Wanted = BytesOf(window)
  BY <1>1, SameFile DEF Wanted
<1>3. HandleTypeOK'
  BY <1>1, <1>2 DEF HandleTypeOK, Stages
<1>4. CutOK'
  BY <1>1 DEF CutOK
<1>5. OutOK' /\ AccountedOK'
  BY <1>1 DEF OutOK, AccountedOK
<1>6. ASSUME stage' = "reading" PROVE ReadingOK' /\ PrefixOK'
  <2>1. GeometryOK(geometry) /\ InFile(geometry, window)
    BY <1>1 DEF HandleTypeOK
  <2>2. /\ left' = Segments(geometry, window)
        /\ Length(window) > 0 => geometry.uniform
        /\ \A b \in BytesOf(window) : \E s \in left' : b \in Covers(geometry, s)
    BY <1>1, <1>6, <2>1, ReadBegins
  <2>3. ReadingOK'
    BY <1>1, <1>2, <2>2 DEF ReadingOK
  <2>4. \A s \in left' : window.start + 0 <= From(geometry, s)
    <3> SUFFICES ASSUME NEW s \in left' PROVE window.start + 0 <= From(geometry, s)
      OBVIOUS
    <3>1. geometry.totalSize \in Nat /\ window.start \in Nat /\ window.end \in Nat
          /\ window.end <= geometry.totalSize
      BY <2>1 DEF GeometryOK, InFile
    <3>2. Length(window) > 0
      BY <2>1, <2>2, <3>1, ClampKeeps DEF Segments, Length
    <3>3. Laid(geometry)
      BY <2>1, <2>2, <3>1, <3>2 DEF Laid, Length
    <3>4. s.number \in 1 .. geometry.segmentCount
          /\ From(geometry, s) = AtLeast(window.start, Place(geometry, s.number).start)
      BY <2>1, <2>2, <3>3, SegmentFacts
    <3>5. Place(geometry, s.number).start \in Nat
      BY <3>3, <3>4, Places
    <3> QED BY <3>1, <3>4, <3>5 DEF AtLeast
  <2>5. out = Prefix(window.start, 0)
    BY <1>1 DEF OutOK, Prefix
  <2>6. 0 \in 0 .. Length(window)
    BY <2>1 DEF InFile, Length
  <2>7. PrefixOK'
    BY <1>1, <2>4, <2>5, <2>6 DEF PrefixOK
  <2> QED BY <2>3, <2>7
<1>7. ReadingOK' /\ PrefixOK'
  BY <1>6 DEF ReadingOK, PrefixOK
<1> QED BY <1>3, <1>4, <1>5, <1>7 DEF HandleInv

(* The hand-over of a segment whose article is where it should be. *)
LEMMA HandOverKeeps ==
  ASSUME HandleInv, NEW s \in left, HandOver(s) PROVE HandleInv'
<1> DEFINE from == From(geometry, s)
           len  == s.byteLength
<1>1. /\ HandleTypeOK /\ CutOK /\ OutOK /\ ReadingOK /\ PrefixOK /\ AccountedOK
      /\ stage = "reading" /\ stage' \in {"reading", "failed"}
      /\ use = "bytes" => \A t \in left : s.number <= t.number
      /\ UNCHANGED <<post, use, options, geometry, window, cut, todo, shift, planned>>
  BY DEF HandleInv, HandOver
<1>2. Ranges' = Ranges /\ (\A r : Apply(r)' = Apply(r)) /\ Wanted' = Wanted /\ Base' = Base
  BY <1>1, SameFile DEF Base
<1>3. HandleTypeOK' /\ CutOK'
  BY <1>1, <1>2 DEF HandleTypeOK, CutOK, Stages
<1>4. CASE stage' = "failed"
  <2>1. out' = out
    BY <1>1, <1>4 DEF HandOver
  <2>2. OutOK'
    BY <1>1, <1>2, <1>4, <2>1 DEF OutOK
  <2>3. ReadingOK' /\ PrefixOK' /\ AccountedOK'
    BY <1>4 DEF ReadingOK, PrefixOK, AccountedOK
  <2> QED BY <1>3, <2>2, <2>3 DEF HandleInv
<1>5. CASE stage' = "reading"
  <2>1. /\ VerifyPlacement(post[s.number], s.number, geometry)
        /\ left' = left \ {s}
        /\ out' = out \cup
             {<<Offset(s) + i, ByteAt(post[s.number], s.offsetInSegment + i)>> : i \in 0 .. len - 1}
    BY <1>1, <1>5 DEF HandOver
  <2>2. \A i \in 0 .. len - 1 :
          /\ ByteAt(post[s.number], s.offsetInSegment + i) = from + i
          /\ from + i \in BytesOf(window)
    BY <1>1, <2>1, SegmentHolds
  <2>3. out' = out \cup {<<Offset(s) + i, from + i>> : i \in 0 .. len - 1}
    BY <2>1, <2>2
  <2>4. /\ Laid(geometry) /\ InFile(geometry, window) /\ s \in Segments(geometry, window)
        /\ from \in Nat /\ len \in Nat \ {0}
        /\ window.start \in Nat /\ window.end \in Nat /\ window.start <= window.end
    BY <1>1, LeftIsLaid, SegmentFacts DEF InFile
  <2>5. PICK count \in 0 .. Length(window) :
          use = "bytes" => /\ out = Prefix(window.start, count)
                           /\ \A t \in left : window.start + count <= From(geometry, t)
    <3>1. 0 \in 0 .. Length(window)
      BY <2>4 DEF Length
    <3> QED BY <1>1, <3>1 DEF PrefixOK
  <2>6. count \in Nat
    BY <2>4 DEF Length
  <2>7. use = "bytes" => Offset(s) = count /\ from = window.start + count
    <3> SUFFICES ASSUME use = "bytes" PROVE Offset(s) = count /\ from = window.start + count
      OBVIOUS
    <3>1. out = Prefix(window.start, count)
      BY <2>5
    <3>2. from = window.start + count
      BY <1>1, <2>5, NextIsAdjacent
    <3>3. Cardinality(out) = count
      BY <2>4, <2>6, <3>1, PrefixSize
    <3> QED BY <3>2, <3>3 DEF Offset
  <2>8. Offset(s) \in Int /\ Offset(s) + Base = from
    <3>1. CASE use = "bytes"
      BY <2>4, <2>6, <2>7, <3>1 DEF Base
    <3>2. CASE use # "bytes"
      <4>1. Base = shift /\ shift \in Int
        BY <1>1, <3>2 DEF Base, HandleTypeOK
      <4>2. Offset(s) = from - shift
        <5> DEFINE at == (s.number - 1) * geometry.segmentSize
        <5>1. Offset(s) = at + (s.offsetInSegment - shift) /\ from = at + s.offsetInSegment
          BY <3>2 DEF Offset, From
        <5>2. at \in Int /\ s.offsetInSegment \in Nat
          BY <1>1, <2>4, SegmentFacts DEF HandleTypeOK, GeometryOK
        <5> HIDE DEF at, from
        <5> QED BY <4>1, <5>1, <5>2
      <4> HIDE DEF from
      <4> QED BY <2>4, <4>1, <4>2
    <3> QED BY <3>1, <3>2
  <2>9. OutOK'
    <3>1. Base \in Int
      BY <1>1, <2>4 DEF Base, HandleTypeOK
    <3>2. ASSUME NEW i \in 0 .. len - 1
          PROVE  Offset(s) + i + Base = from + i /\ from + i \in Wanted
      <4>1. BytesOf(window) \subseteq Wanted
        BY <1>1 DEF ReadingOK
      <4>2. i \in Int
        BY <2>4
      <4>3. Offset(s) + i + Base = from + i
        <5> HIDE DEF from, len
        <5> QED BY <2>4, <2>8, <3>1, <4>2
      <4> QED BY <2>2, <4>1, <4>3
    <3>3. \A w \in out : w[1] + Base = w[2] /\ w[2] \in Wanted
      BY <1>1 DEF OutOK
    <3>4. \A w \in out' : w[1] + Base = w[2] /\ w[2] \in Wanted
      <4> HIDE DEF from, len
      <4> QED BY <2>3, <3>2, <3>3
    <3> QED BY <1>2, <1>5, <3>4 DEF OutOK
  <2>10. Got' = Got \cup Covers(geometry, s)
    <3>1. Got' = Got \cup {from + i : i \in 0 .. len - 1}
      <4> DEFINE new == {<<Offset(s) + i, from + i>> : i \in 0 .. len - 1}
      <4>1. {w[2] : w \in new} = {from + i : i \in 0 .. len - 1}
        <5> HIDE DEF from, len
        <5>1. \A i \in 0 .. len - 1 : <<Offset(s) + i, from + i>>[2] = from + i
          OBVIOUS
        <5>2. \A b \in {w[2] : w \in new} : b \in {from + i : i \in 0 .. len - 1}
          BY <5>1
        <5>3. \A i \in 0 .. len - 1 : from + i \in {w[2] : w \in new}
          BY <5>1
        <5> QED BY <5>2, <5>3
      <4> HIDE DEF from, len, new
      <4>2. out' = out \cup new
        BY <2>3 DEF new
      <4> QED BY <4>1, <4>2 DEF Got
    <3>2. {from + i : i \in 0 .. len - 1} = from .. from + len - 1
      <4>1. \A b \in from .. from + len - 1 : b - from \in 0 .. len - 1 /\ b = from + (b - from)
        <5> HIDE DEF from, len
        <5> QED BY <2>4
      <4>2. \A i \in 0 .. len - 1 : from + i \in from .. from + len - 1
        <5> HIDE DEF from, len
        <5> QED BY <2>4
      <4> HIDE DEF from, len
      <4> QED BY <4>1, <4>2
    <3> QED BY <3>1, <3>2 DEF Covers
  <2>11. ReadingOK'
    <3>1. ASSUME NEW b \in BytesOf(window)
          PROVE  b \in Got' \/ \E t \in left' : b \in Covers(geometry, t)
      <4>1. b \in Got \/ \E t \in left : b \in Covers(geometry, t)
        BY <1>1 DEF ReadingOK
      <4> QED BY <2>1, <2>10, <4>1
    <3> QED BY <1>1, <1>2, <2>1, <3>1 DEF ReadingOK
  <2>12. ASSUME use = "bytes" PROVE PrefixOK'
    <3> DEFINE more == count + len
    <3>1. from = window.start + count /\ Offset(s) = count /\ out = Prefix(window.start, count)
      BY <2>5, <2>7, <2>12
    <3>2. more \in 0 .. Length(window)
      <4>1. len - 1 \in 0 .. len - 1
        BY <2>4
      <4>2. from + (len - 1) < window.end
        BY <2>2, <2>4, <4>1 DEF BytesOf
      <4> HIDE DEF from, len
      <4> QED BY <2>4, <2>6, <3>1, <4>2 DEF Length
    <3>3. out' = Prefix(window.start, more)
      <4>1. \A j \in 0 .. more - 1 : j \in 0 .. count - 1 \/ (j - count \in 0 .. len - 1 /\ j = count + (j - count)
                                                               /\ window.start + j = from + (j - count))
        <5> HIDE DEF from, len
        <5> QED BY <2>4, <2>6, <3>1
      <4>2. \A j \in 0 .. count - 1 : j \in 0 .. more - 1
        <5> HIDE DEF from, len
        <5> QED BY <2>4, <2>6
      <4>3. \A i \in 0 .. len - 1 : count + i \in 0 .. more - 1 /\ from + i = window.start + (count + i)
        <5> HIDE DEF from, len
        <5> QED BY <2>4, <2>6, <3>1
      <4>4. out' = Prefix(window.start, count) \cup {<<count + i, from + i>> : i \in 0 .. len - 1}
        BY <2>3, <3>1
      <4> HIDE DEF from, len, more
      <4> QED BY <4>1, <4>2, <4>3, <4>4 DEF Prefix
    <3>4. \A t \in left' : window.start + more <= From(geometry, t)
      <4> SUFFICES ASSUME NEW t \in left' PROVE window.start + more <= From(geometry, t)
        OBVIOUS
      <4>1. t \in left /\ t # s /\ s.number <= t.number
        BY <1>1, <2>1, <2>12
      <4>2. t \in Segments(geometry, window)
        BY <1>1, <4>1, LeftIsLaid
      <4>3. from + len <= From(geometry, t)
        BY <2>4, <4>1, <4>2, SegmentsApart
      <4> HIDE DEF from, len
      <4> QED BY <2>4, <2>6, <3>1, <4>3
    <3> HIDE DEF more
    <3> QED BY <1>1, <3>2, <3>3, <3>4 DEF PrefixOK
  <2>13. PrefixOK'
    BY <1>1, <2>12 DEF PrefixOK
  <2>14. AccountedOK'
    BY <1>1, <1>2, <1>5, <2>10 DEF AccountedOK
  <2> QED BY <1>3, <2>9, <2>11, <2>13, <2>14 DEF HandleInv
<1> QED BY <1>1, <1>4, <1>5

LEMMA EndReadKeeps ==
  ASSUME HandleInv, EndRead PROVE HandleInv'
<1>1. /\ HandleTypeOK /\ CutOK /\ OutOK /\ ReadingOK /\ AccountedOK
      /\ stage = "reading" /\ left = {}
      /\ stage' = IF use = "get" THEN "getting" ELSE "done"
      /\ UNCHANGED <<post, use, options, geometry, window, cut, todo, shift, left, out>>
  BY DEF HandleInv, EndRead
<1>2. /\ Ranges' = Ranges /\ (\A r : Apply(r)' = Apply(r)) /\ Wanted' = Wanted
      /\ Base' = Base /\ Got' = Got
  BY <1>1, SameFile DEF Base, Got
<1>3. HandleTypeOK'
  BY <1>1, <1>2 DEF HandleTypeOK, Stages
<1>4. CutOK' /\ OutOK' /\ ReadingOK' /\ PrefixOK'
  BY <1>1, <1>2 DEF CutOK, OutOK, ReadingOK, PrefixOK
<1>5. BytesOf(window) \subseteq Got
  BY <1>1 DEF ReadingOK
<1>6. AccountedOK'
  <2>1. CASE use = "get"
    <3>1. stage' = "getting"
      BY <1>1, <2>1
    <3>2. \A b \in Wanted : b \in Got \/ \E i \in todo : b \in BytesOf(Apply(Ranges[i]))
      BY <1>1, <1>5, <2>1 DEF AccountedOK
    <3> QED BY <1>1, <1>2, <3>1, <3>2 DEF AccountedOK
  <2>2. CASE use # "get"
    <3>1. Wanted \subseteq Got
      BY <1>5, <2>2 DEF Wanted
    <3> QED BY <1>1, <1>2, <2>2, <3>1 DEF AccountedOK
  <2> QED BY <2>1, <2>2
<1> QED BY <1>3, <1>4, <1>6 DEF HandleInv

LEMMA SelectKeeps ==
  ASSUME HandleInv, Select PROVE HandleInv'
<1>1. /\ HandleTypeOK /\ CutOK /\ OutOK
      /\ stage = "open" /\ use = "get" /\ todo' = Windows /\ stage' \in {"skipped", "getting"}
      /\ UNCHANGED <<post, use, options, geometry, window, cut, left, out, fetched>>
  BY DEF HandleInv, Select
<1>2. Ranges' = Ranges /\ (\A r : Apply(r)' = Apply(r)) /\ Wanted' = Wanted
  BY <1>1, SameFile
<1>3. /\ Windows \subseteq DOMAIN Ranges /\ DOMAIN Ranges \subseteq Nat
      /\ \A i \in DOMAIN Ranges : InFile(geometry, Apply(Ranges[i])) /\ OffsetOf(Ranges[i]) \in Int
  BY <1>1, RangesFacts DEF Windows
<1>4. shift' \in Int
  <2>1. CASE Windows = {}
    BY <1>1, <2>1 DEF Select, HandleTypeOK
  <2>2. CASE Windows # {}
    <3>1. Min(Windows) \in Windows
      BY <1>3, <2>2, MinIsLeast
    <3>2. shift' = IF options.sparse THEN 0 ELSE OffsetOf(Ranges[Min(Windows)])
      BY <2>2 DEF Select
    <3> QED BY <1>3, <3>1, <3>2
  <2> QED BY <2>1, <2>2
<1>5. HandleTypeOK'
  BY <1>1, <1>2, <1>3, <1>4 DEF HandleTypeOK, Stages
<1>6. CutOK' /\ OutOK' /\ ReadingOK' /\ PrefixOK'
  BY <1>1 DEF CutOK, OutOK, ReadingOK, PrefixOK
<1>7. \A b \in Wanted : \E i \in Windows : b \in BytesOf(Apply(Ranges[i]))
  <2> SUFFICES ASSUME NEW b \in Wanted PROVE \E i \in Windows : b \in BytesOf(Apply(Ranges[i]))
    OBVIOUS
  <2>1. PICK i \in DOMAIN Ranges : b \in BytesOf(Apply(Ranges[i]))
    BY <1>1, WantedByGet
  <2>2. Length(Apply(Ranges[i])) > 0
    <3>1. InFile(geometry, Apply(Ranges[i]))
      BY <1>3
    <3> QED BY <2>1, <3>1 DEF InFile, Length, BytesOf
  <2> QED BY <2>1, <2>2 DEF Windows
<1>8. AccountedOK'
  BY <1>1, <1>2, <1>7 DEF AccountedOK
<1> QED BY <1>5, <1>6, <1>8 DEF HandleInv

LEMMA NextWindowKeeps ==
  ASSUME HandleInv, NextWindow PROVE HandleInv'
<1> DEFINE m == Min(todo)
           w == Apply(Ranges[m])
<1>1. /\ HandleTypeOK /\ CutOK /\ OutOK /\ AccountedOK
      /\ stage = "getting" /\ todo # {} /\ BeginRead(w)
      /\ window' = w /\ stage' \in {"reading", "failed"}
      /\ todo' = todo \ {m}
      /\ UNCHANGED <<post, use, options, geometry, cut, shift, out, planned, fetched>>
  BY DEF HandleInv, NextWindow, BeginRead
<1>2. use = "get"
  BY <1>1 DEF HandleTypeOK
<1>3. /\ Ranges' = Ranges /\ (\A r : Apply(r)' = Apply(r)) /\ Wanted' = Wanted
      /\ Base' = Base /\ Got' = Got
  BY <1>1, <1>2, SameFile DEF Base, Got
<1>4. m \in todo /\ m \in DOMAIN Ranges
  <2>1. todo \subseteq DOMAIN Ranges /\ todo \subseteq Nat
    BY <1>1, <1>2, RangesFacts DEF HandleTypeOK
  <2> QED BY <1>1, <2>1, MinIsLeast
<1>5. InFile(geometry, w) /\ BytesOf(w) \subseteq Wanted
  BY <1>1, <1>2, <1>4, RangesFacts, WantedByGet
<1> HIDE DEF m
<1>6. HandleTypeOK'
  BY <1>1, <1>2, <1>3, <1>5 DEF HandleTypeOK, Stages
<1>7. CutOK' /\ OutOK' /\ PrefixOK'
  BY <1>1, <1>2, <1>3 DEF CutOK, OutOK, PrefixOK
<1>8. ASSUME stage' = "reading" PROVE ReadingOK'
  <2>1. GeometryOK(geometry)
    BY <1>1 DEF HandleTypeOK
  <2>2. /\ left' = Segments(geometry, w)
        /\ Length(w) > 0 => geometry.uniform
        /\ \A b \in BytesOf(w) : \E s \in left' : b \in Covers(geometry, s)
    BY <1>1, <1>5, <1>8, <2>1, ReadBegins
  <2> HIDE DEF w
  <2> QED BY <1>1, <1>3, <1>5, <2>2 DEF ReadingOK
<1>9. AccountedOK'
  <2>1. ASSUME stage' = "reading", NEW b \in Wanted
        PROVE  b \in Got \/ b \in BytesOf(w) \/ \E i \in todo' : b \in BytesOf(Apply(Ranges[i]))
    <3>1. b \in Got \/ \E i \in todo : b \in BytesOf(Apply(Ranges[i]))
      BY <1>1, <1>2 DEF AccountedOK
    <3> QED BY <1>1, <3>1
  <2> HIDE DEF w
  <2> QED BY <1>1, <1>3, <2>1 DEF AccountedOK
<1>10. ReadingOK'
  BY <1>8 DEF ReadingOK
<1> QED BY <1>6, <1>7, <1>9, <1>10 DEF HandleInv

LEMMA EndGetKeeps ==
  ASSUME HandleInv, EndGet PROVE HandleInv'
<1>1. /\ HandleTypeOK /\ CutOK /\ OutOK /\ AccountedOK
      /\ stage = "getting" /\ todo = {} /\ stage' = "done"
      /\ UNCHANGED <<post, use, options, geometry, window, cut, todo, shift, left, out>>
  BY DEF HandleInv, EndGet
<1>2. Ranges' = Ranges /\ Wanted' = Wanted /\ Base' = Base /\ Got' = Got
  BY <1>1, SameFile DEF Base, Got
<1>3. HandleTypeOK' /\ CutOK' /\ OutOK' /\ ReadingOK' /\ PrefixOK'
  BY <1>1, <1>2 DEF HandleTypeOK, Stages, CutOK, OutOK, ReadingOK, PrefixOK
<1>4. Wanted \subseteq Got
  BY <1>1 DEF AccountedOK, HandleTypeOK
<1>5. AccountedOK'
  BY <1>1, <1>2, <1>4 DEF AccountedOK
<1> QED BY <1>3, <1>5 DEF HandleInv

LEMMA NothingKeeps ==
  ASSUME HandleInv, UNCHANGED vars PROVE HandleInv'
<1>1. UNCHANGED <<post, use, options, stage, geometry, window, cut, todo, shift, left, out>>
  BY DEF vars
<1>2. /\ Ranges' = Ranges /\ (\A r : Apply(r)' = Apply(r)) /\ Wanted' = Wanted
      /\ Base' = Base /\ Got' = Got
  BY <1>1, SameFile DEF Base, Got
<1>3. HandleTypeOK' /\ CutOK' /\ OutOK'
  BY <1>1, <1>2 DEF HandleInv, HandleTypeOK, CutOK, OutOK
<1>4. ReadingOK' /\ PrefixOK' /\ AccountedOK'
  BY <1>1, <1>2 DEF HandleInv, ReadingOK, PrefixOK, AccountedOK
<1> QED BY <1>3, <1>4 DEF HandleInv

-----------------------------------------------------------------------------
(* The theorems. *)

(* The layout, the window and what was handed over fit together throughout, *)
(* whatever was posted and however the file is sliced and read.             *)
THEOREM HandleInvariant == Spec => []HandleInv
<1>1. Init => HandleInv
  BY InitEstablishes
<1>2. HandleInv /\ [Next]_vars => HandleInv'
  BY OpenKeeps, SliceKeeps, ReadKeeps, HandOverKeeps, EndReadKeeps, SelectKeeps, NextWindowKeeps,
     EndGetKeeps, NothingKeeps DEF Next
<1> QED BY <1>1, <1>2, PTL DEF Spec

(* No byte is handed over in the wrong place and a read that ends has handed  *)
(* over all it was asked for, for every post, mixed up or truncated, every    *)
(* slice and every list of ranges (handle.ts #resolve and #articleFor,        *)
(* get.ts download).                                                          *)
THEOREM ReadsAreExact == Spec => []ReadIsExact
<1>1. ASSUME HandleInv PROVE ReadIsExact
  <2>1. \A w \in out : w[1] + Base = w[2] /\ w[2] \in Wanted
    BY <1>1 DEF HandleInv, OutOK
  <2>2. Got \subseteq Wanted
    BY <2>1 DEF Got
  <2>3. stage = "done" => Got = Wanted
    BY <1>1, <2>2 DEF HandleInv, AccountedOK
  <2> QED BY <2>1, <2>3 DEF ReadIsExact, Got
<1> QED BY <1>1, HandleInvariant, PTL

(* slice() takes of its own window what Blob.slice() would, for every size *)
(* and every pair of arguments, however slices nest (range.ts:11-26).      *)
THEOREM SlicesAreLocal == Spec => []SliceIsLocal
<1>1. ASSUME HandleInv PROVE SliceIsLocal
  <2> DEFINE size == Length(cut.of)
             n == NormalizeSlice(size, cut.start, cut.end)
             After(i, v)  == v \in {Omitted, NotANumber} \/ i >= (IF v < 0 THEN size + v ELSE v)
             Before(i, v) == v = Omitted \/ (v # NotANumber /\ i < (IF v < 0 THEN size + v ELSE v))
             taken == {j \in 0 .. size - 1 : After(j, cut.start) /\ Before(j, cut.end)}
  <2> SUFFICES ASSUME cut.depth > 0
               PROVE  BytesOf(window) = {cut.of.start + i : i \in taken}
    BY DEF SliceIsLocal
  <2>1. /\ InFile(geometry, cut.of) /\ cut.start \in Arguments /\ cut.end \in Arguments
        /\ window = ByteRange(cut.of.start + n.start, cut.of.start + n.end)
    <3>1. CutOK /\ cut.depth # 0
      BY <1>1 DEF HandleInv
    <3> QED BY <3>1 DEF CutOK
  <2>2. cut.of.start \in Nat /\ size \in Nat
    BY <2>1 DEF InFile, Length
  <2>3. n.start \in Nat /\ n.end \in Nat /\ n.end <= size
    BY <2>1, <2>2, SliceIsInside
  <2>4. BytesOf(n) = taken
    <3>1. BytesOf(n) \subseteq 0 .. size - 1
      BY <2>2, <2>3 DEF BytesOf
    <3>2. \A i \in 0 .. size - 1 : i \in BytesOf(n) <=> After(i, cut.start) /\ Before(i, cut.end)
      BY <2>1, <2>2, SliceTakes
    <3> HIDE DEF n, size, After, Before
    <3> QED BY <3>1, <3>2
  <2>5. BytesOf(window) = {cut.of.start + i : i \in BytesOf(n)}
    <3> DEFINE o == cut.of.start
    <3>1. BytesOf(window) = o + n.start .. (o + n.end) - 1
      BY <2>1 DEF BytesOf, ByteRange
    <3>2. BytesOf(n) = n.start .. n.end - 1
      BY DEF BytesOf
    <3> HIDE DEF n, o
    <3>3. \A b \in o + n.start .. (o + n.end) - 1 : b - o \in n.start .. n.end - 1 /\ b = o + (b - o)
      BY <2>2, <2>3 DEF o
    <3>4. \A i \in n.start .. n.end - 1 : o + i \in o + n.start .. (o + n.end) - 1
      BY <2>2, <2>3 DEF o
    <3> QED BY <3>1, <3>2, <3>3, <3>4 DEF o
  <2> QED BY <2>4, <2>5
<1> QED BY <1>1, HandleInvariant, PTL

-----------------------------------------------------------------------------
(* The sum get announces, as a number of pairs: so it can be taken apart     *)
(* window by window.                                                         *)

Announced(i) == CountArticles(OffsetOf(Ranges[i]), Length(Apply(Ranges[i])))
Tickets(T) == UNION {{i} \X (1 .. Announced(i)) : i \in T}

LEMMA OneRange ==
  ASSUME NEW i, Announced(i) \in Nat
  PROVE  /\ IsFiniteSet({i} \X (1 .. Announced(i)))
         /\ Cardinality({i} \X (1 .. Announced(i))) = Announced(i)
<1> DEFINE n == Announced(i)
           S == 1 .. n
           T == {i} \X S
           f == [k \in S |-> <<i, k>>]
<1>1. IsFiniteSet(S) /\ Cardinality(S) = n
  BY FS_Interval
<1>2. f \in [S -> T] /\ (\A j, k \in S : f[j] = f[k] => j = k) /\ (\A t \in T : \E k \in S : f[k] = t)
  OBVIOUS
<1>3. f \in Bijection(S, T)
  <2> HIDE DEF S, T, f
  <2> QED BY <1>2 DEF Bijection, Injection, Surjection, IsInjective
<1>4. ExistsBijection(S, T)
  BY <1>3 DEF ExistsBijection
<1> HIDE DEF S, T
<1> QED BY <1>1, <1>4, FS_Bijection DEF T, S

LEMMA TicketsSplit ==
  ASSUME NEW T, NEW i \in T, Announced(i) \in Nat, IsFiniteSet(Tickets(T \ {i}))
  PROVE  /\ IsFiniteSet(Tickets(T))
         /\ Cardinality(Tickets(T)) = Announced(i) + Cardinality(Tickets(T \ {i}))
<1> DEFINE new == {i} \X (1 .. Announced(i))
           old == Tickets(T \ {i})
<1>1. Tickets(T) = new \cup old /\ new \cap old = {}
  BY DEF Tickets
<1>2. IsFiniteSet(new) /\ Cardinality(new) = Announced(i)
  BY OneRange
<1> HIDE DEF new, old
<1>3. IsFiniteSet(new \cup old) /\ Cardinality(new \cup old) =
        Cardinality(new) + Cardinality(old) - Cardinality(new \cap old)
  BY <1>2, FS_Union DEF old
<1>4. Cardinality(old) \in Nat /\ Cardinality(new \cap old) = 0
  BY <1>1, FS_CardinalityType, FS_EmptySet DEF old
<1> QED BY <1>1, <1>2, <1>3, <1>4 DEF old

(* Induction on the size of a set of ranges: one of least size would be a  *)
(* set of one more than a smaller one.                                     *)
LEMMA TicketsFinite ==
  ASSUME NEW W, IsFiniteSet(W), \A i \in W : Announced(i) \in Nat
  PROVE  \A T \in SUBSET W : IsFiniteSet(Tickets(T))
<1> DEFINE Bad == {n \in Nat : \E T \in SUBSET W : Cardinality(T) = n /\ ~IsFiniteSet(Tickets(T))}
<1>1. \A T \in SUBSET W : IsFiniteSet(T) /\ Cardinality(T) \in Nat
  BY FS_Subset, FS_CardinalityType
<1>2. ASSUME Bad # {} PROVE FALSE
  <2>1. PICK n \in Bad : \A m \in Bad : ~(<<m, n>> \in OpToRel(<, Nat))
    BY <1>2, NatLessThanWellFounded, WFMin
  <2>2. PICK T \in SUBSET W : Cardinality(T) = n /\ ~IsFiniteSet(Tickets(T))
    OBVIOUS
  <2>3. PICK i : i \in T
    <3>1. T # {}
      BY <2>2, FS_EmptySet DEF Tickets
    <3> QED BY <3>1
  <2>4. Cardinality(T \ {i}) = n - 1 /\ T \ {i} \in SUBSET W
    BY <1>1, <2>2, <2>3, FS_RemoveElement
  <2>5. n \in Nat /\ n - 1 \in Nat /\ n - 1 < n
    BY <1>1, <2>2, <2>4
  <2>6. n - 1 \notin Bad
    <3> HIDE DEF Bad
    <3> QED BY <2>1, <2>5 DEF OpToRel
  <2>7. IsFiniteSet(Tickets(T \ {i}))
    BY <2>4, <2>5, <2>6
  <2> QED BY <2>2, <2>3, <2>7, TicketsSplit
<1> QED BY <1>1, <1>2

LEMMA SumIsTickets ==
  ASSUME NEW W, IsFiniteSet(W), \A i \in W : Announced(i) \in Nat
  PROVE  MapThenSumSet(LAMBDA i : CountArticles(OffsetOf(Ranges[i]), Length(Apply(Ranges[i]))), W)
           = Cardinality(Tickets(W))
<1> DEFINE one(s) == CHOOSE x \in s : TRUE
           Sums(f) == f = [s \in SUBSET W |-> IF s = {} THEN 0 ELSE Announced(one(s)) + f[s \ {one(s)}]]
           iter == CHOOSE f : Sums(f)
           size == [s \in SUBSET W |-> Cardinality(Tickets(s))]
<1>1. MapThenSumSet(LAMBDA i : CountArticles(OffsetOf(Ranges[i]), Length(Apply(Ranges[i]))), W) = iter[W]
  BY DEF MapThenSumSet, MapThenFoldSet, Announced
<1>2. \A s \in SUBSET W : s # {} =>
        /\ one(s) \in s /\ s \ {one(s)} \in SUBSET W
        /\ Cardinality(Tickets(s)) = Announced(one(s)) + Cardinality(Tickets(s \ {one(s)}))
  <2> SUFFICES ASSUME NEW s \in SUBSET W, s # {}
               PROVE  /\ one(s) \in s /\ s \ {one(s)} \in SUBSET W
                      /\ Cardinality(Tickets(s)) = Announced(one(s)) + Cardinality(Tickets(s \ {one(s)}))
    OBVIOUS
  <2>1. one(s) \in s
    OBVIOUS
  <2>2. s \ {one(s)} \in SUBSET W
    OBVIOUS
  <2> HIDE DEF one
  <2> QED BY <2>1, <2>2, TicketsFinite, TicketsSplit
<1>3. Cardinality(Tickets({})) = 0
  BY FS_EmptySet DEF Tickets
<1>4. Sums(size)
  <2>1. \A s \in SUBSET W :
          size[s] = IF s = {} THEN 0 ELSE Announced(one(s)) + size[s \ {one(s)}]
    <3> HIDE DEF one
    <3> QED BY <1>2, <1>3
  <2> HIDE DEF one
  <2> QED BY <2>1
<1>5. Sums(iter)
  <2> HIDE DEF Sums
  <2> QED BY <1>4
<1> HIDE DEF iter, one
<1>6. iter[{}] = 0 /\ \A s \in SUBSET W : s # {} => iter[s] = Announced(one(s)) + iter[s \ {one(s)}]
  BY <1>5
<1> DEFINE Bad == {n \in Nat : \E s \in SUBSET W : Cardinality(s) = n /\ iter[s] # Cardinality(Tickets(s))}
<1>7. \A s \in SUBSET W : IsFiniteSet(s) /\ Cardinality(s) \in Nat
  BY FS_Subset, FS_CardinalityType
<1>8. ASSUME Bad # {} PROVE FALSE
  <2>1. PICK n \in Bad : \A m \in Bad : ~(<<m, n>> \in OpToRel(<, Nat))
    BY <1>8, NatLessThanWellFounded, WFMin
  <2>2. PICK s \in SUBSET W : Cardinality(s) = n /\ iter[s] # Cardinality(Tickets(s))
    OBVIOUS
  <2>3. s # {}
    BY <1>3, <1>6, <2>2
  <2>4. one(s) \in s /\ s \ {one(s)} \in SUBSET W
    BY <1>2, <2>3
  <2>5. Cardinality(s \ {one(s)}) = n - 1
    BY <1>7, <2>2, <2>4, FS_RemoveElement
  <2>6. n \in Nat /\ n - 1 \in Nat /\ n - 1 < n
    BY <1>7, <2>2, <2>4, <2>5
  <2>7. n - 1 \notin Bad
    <3> HIDE DEF Bad
    <3> QED BY <2>1, <2>6 DEF OpToRel
  <2>8. iter[s \ {one(s)}] = Cardinality(Tickets(s \ {one(s)}))
    BY <2>4, <2>5, <2>6, <2>7
  <2> QED BY <1>2, <1>6, <2>2, <2>3, <2>8
<1>9. iter[W] = Cardinality(Tickets(W))
  BY <1>7, <1>8
<1> QED BY <1>1, <1>9

-----------------------------------------------------------------------------
(* One article for each segment of a window.                                 *)

LEMMA OneMore ==
  ASSUME NEW C \in Nat \ {0}, NEW S \in Nat
  PROVE  (C - 1) * S \in Int /\ (C - 1) * S + S = C * S
OBVIOUS

LEMMA SegmentsCounted ==
  ASSUME NEW g, Laid(g), NEW r, InFile(g, r), Length(r) > 0
  PROVE  LET S == g.segmentSize
             first == r.start \div S
             last == AtMost((r.end - 1) \div S, g.segmentCount - 1)
         IN /\ IsFiniteSet(Segments(g, r)) /\ last - first + 1 \in Nat
            /\ Cardinality(Segments(g, r)) = last - first + 1
<1> DEFINE S == g.segmentSize
           C == g.segmentCount
           first == r.start \div S
           final == (r.end - 1) \div S
           last == AtMost(final, C - 1)
           N == first + 1 .. last + 1
           f == [n \in N |-> SegmentSlice(g, r, n)]
<1>1. /\ S \in Nat \ {0} /\ C \in Nat \ {0} /\ g.totalSize \in Nat
      /\ r.start \in Nat /\ r.end \in Nat /\ r.end <= g.totalSize
      /\ r.end - 1 \in Nat /\ r.start <= r.end - 1
      /\ r.start < g.totalSize
  BY DEF Laid, GeometryOK, InFile, Length
<1>2. r.start < C * S
  <2>1. g.totalSize = (C - 1) * S + g.lastSegmentSize /\ g.lastSegmentSize \in Int
        /\ g.lastSegmentSize <= S
    BY DEF Laid, GeometryOK
  <2>2. (C - 1) * S \in Int /\ (C - 1) * S + S = C * S
    BY <1>1, OneMore
  <2> QED BY <1>1, <2>1, <2>2
<1>3. /\ first \in Nat /\ first * S <= r.start /\ r.start < first * S + S
      /\ first <= final /\ first < C
      /\ final \in Nat /\ final * S <= r.end - 1 /\ r.end - 1 < final * S + S
  BY <1>1, <1>2, Division
<1>4. last \in Nat /\ first <= last /\ last <= final /\ last <= C - 1
  <2> HIDE DEF first, final, S, C
  <2> QED BY <1>1, <1>3 DEF AtMost
<1>5. IsFiniteSet(N) /\ Cardinality(N) = last - first + 1 /\ last - first + 1 \in Nat
  <2> HIDE DEF first, last
  <2>1. first + 1 \in Int /\ last + 1 \in Int /\ first + 1 <= last + 1
    BY <1>3, <1>4
  <2> QED BY <1>3, <1>4, <2>1, FS_Interval
<1>6. N = first + 1 .. AtMost(final + 1, C)
  <2> HIDE DEF first, final, S, C
  <2> QED BY <1>1, <1>3 DEF AtMost
<1>7. ASSUME NEW n \in N
      PROVE  SegmentSlice(g, r, n).byteLength > 0 /\ SegmentSlice(g, r, n).number = n
  <2> DEFINE a == Place(g, n).start
             z == Place(g, n).end
  <2>1. n \in 1 .. C
    <3> HIDE DEF first, last, S, C
    <3> QED BY <1>1, <1>3, <1>4
  <2>2. /\ a \in Nat /\ z \in Nat /\ a = (n - 1) * S /\ a < z
        /\ n < C => z = a + S
        /\ n = C => z = g.totalSize
    BY <2>1, Places
  <2>3. a <= r.end - 1
    <3>1. n - 1 <= final /\ n - 1 \in Nat
      <4> HIDE DEF first, last, final, S, C
      <4> QED BY <1>3, <1>4, <2>1
    <3>2. (n - 1) * S <= final * S
      <4> HIDE DEF final, S
      <4> QED BY <1>1, <1>3, <3>1
    <3> HIDE DEF final, S, a
    <3>3. (n - 1) * S \in Int /\ final * S \in Int
      BY <1>1, <1>3, <3>1
    <3> QED BY <1>1, <1>3, <2>2, <3>2, <3>3
  <2>4. r.start < z
    <3>1. CASE n = C
      BY <1>1, <2>2, <3>1
    <3>2. CASE n < C
      <4>1. first <= n - 1 /\ n - 1 \in Nat
        <5> HIDE DEF first, last, S, C
        <5> QED BY <1>3, <1>4, <2>1
      <4>2. first * S <= (n - 1) * S
        <5> HIDE DEF first, S
        <5> QED BY <1>1, <1>3, <4>1
      <4> DEFINE p == (n - 1) * S
                 q == first * S
      <4> HIDE DEF first, S, a, z
      <4>3. p \in Int /\ q \in Int /\ S \in Nat
        BY <1>1, <1>3, <4>1
      <4>4. z = p + S /\ r.start < q + S /\ q <= p
        BY <1>3, <2>2, <3>2, <4>2
      <4> HIDE DEF p, q
      <4> QED BY <1>1, <2>2, <4>3, <4>4
    <3>3. n < C \/ n = C
      <4> HIDE DEF C
      <4> QED BY <1>1, <2>1
    <3> QED BY <3>1, <3>2, <3>3
  <2>5. /\ SegmentSlice(g, r, n).number = n
        /\ SegmentSlice(g, r, n).byteLength = AtMost(r.end, z) - AtLeast(r.start, a)
    BY DEF SegmentSlice
  <2> HIDE DEF a, z
  <2> QED BY <1>1, <2>2, <2>3, <2>4, <2>5 DEF AtMost, AtLeast
<1>8. Segments(g, r) = {SegmentSlice(g, r, n) : n \in N}
  <2>1. Segments(g, r) = {s \in {SegmentSlice(g, r, n) : n \in N} : s.byteLength > 0}
    <3>1. ClampToFile(g, r) = r /\ ~(Length(r) <= 0)
      BY <1>1, ClampKeeps DEF Length
    <3> QED BY <1>6, <3>1 DEF Segments
  <2> HIDE DEF N
  <2> QED BY <1>7, <2>1
<1>9. f \in Bijection(N, Segments(g, r))
  <2> HIDE DEF N
  <2>1. f \in [N -> Segments(g, r)]
    BY <1>8
  <2>2. \A n, m \in N : f[n] = f[m] => n = m
    BY <1>7
  <2>3. \A s \in Segments(g, r) : \E n \in N : f[n] = s
    BY <1>8
  <2> HIDE DEF f
  <2> QED BY <2>1, <2>2, <2>3 DEF Bijection, Injection, Surjection, IsInjective
<1>10. ExistsBijection(N, Segments(g, r))
  BY <1>9 DEF ExistsBijection
<1> HIDE DEF N, first, last
<1>11. IsFiniteSet(Segments(g, r)) /\ Cardinality(Segments(g, r)) = Cardinality(N)
  BY <1>5, <1>10, FS_Bijection
<1> QED BY <1>5, <1>11 DEF first, last, final

(* What get announces for a window with something in it. *)
LEMMA AnnouncedForWindow ==
  ASSUME HandleTypeOK, use = "get", NEW i \in Windows
  PROVE  /\ Announced(i) \in Nat
         /\ Length(Apply(Ranges[i])) > 0 /\ geometry.totalSize > 0
         /\ geometry.uniform => /\ Laid(geometry)
                                /\ IsFiniteSet(Segments(geometry, Apply(Ranges[i])))
                                /\ Cardinality(Segments(geometry, Apply(Ranges[i]))) = Announced(i)
<1> DEFINE r == Ranges[i]
           w == Apply(r)
           g == geometry
<1>1. i \in DOMAIN Ranges /\ Length(w) > 0
  BY DEF Windows
<1>2. GeometryOK(g) /\ InFile(g, w) /\ OffsetOf(r) = w.start
  <2>1. GeometryOK(g) /\ options \in Gets
    BY DEF HandleTypeOK
  <2>2. InFile(g, w)
    BY <1>1, RangesFacts
  <2>3. r \in RangeOptions
    <3>1. CASE options.ranges = <<>>
      <4>1. Ranges = <<Whole>> /\ Whole \in RangeOptions
        BY <3>1 DEF Ranges, Whole, RangeOptions
      <4> HIDE DEF Whole
      <4> QED BY <1>1, <4>1
    <3>2. CASE options.ranges # <<>>
      <4>1. Ranges \in Seq(RangeOptions)
        BY <2>1, <3>2, GetsAssumption DEF Ranges
      <4> QED BY <1>1, <4>1, ElementOfSeq, LenProperties
    <3> QED BY <3>1, <3>2
  <2>4. w.start = Clamp(Resolve(r.start, 0, g.totalSize), g.totalSize)
    BY DEF Apply, NormalizeSlice, ByteRange
  <2>5. r.start \in Int /\ r.start # Omitted /\ r.start # NotANumber /\ g.totalSize \in Nat
    BY <2>1, <2>3, ArgumentsAssumption DEF RangeOptions, GeometryOK
  <2>6. OffsetOf(r) = w.start
    <3> HIDE DEF r, w, g
    <3> QED BY <2>4, <2>5 DEF OffsetOf, Resolve, Clamp, AtMost, AtLeast, g
  <2> QED BY <2>1, <2>2, <2>6
<1>3. g.totalSize > 0 /\ w.start \in Nat /\ w.end \in Nat
      /\ Length(w) \in Nat /\ w.start + Length(w) - 1 = w.end - 1
  <2>1. g.totalSize \in Nat
    BY <1>2 DEF GeometryOK
  <2> HIDE DEF w, g
  <2> QED BY <1>1, <1>2, <2>1 DEF InFile, Length
<1>4. Announced(i) = IF ~g.uniform \/ g.segmentSize <= 0 \/ Length(w) = 0 THEN 0
                     ELSE AtMost((w.start + Length(w) - 1) \div g.segmentSize, g.segmentCount - 1)
                            - w.start \div g.segmentSize + 1
  BY <1>2 DEF Announced, CountArticles
<1>5. ~g.uniform => Announced(i) \in Nat
  BY <1>4
<1>6. ASSUME g.uniform
      PROVE  /\ Laid(g) /\ Announced(i) \in Nat /\ IsFiniteSet(Segments(g, w))
             /\ Cardinality(Segments(g, w)) = Announced(i)
  <2>1. Laid(g)
    BY <1>2, <1>3, <1>6 DEF Laid
  <2>2. g.segmentSize \in Int /\ g.segmentSize > 0
    BY <2>1 DEF Laid, GeometryOK
  <2> HIDE DEF w, g
  <2>3. Announced(i) = AtMost((w.end - 1) \div g.segmentSize, g.segmentCount - 1)
                         - w.start \div g.segmentSize + 1
    BY <1>1, <1>3, <1>4, <1>6, <2>2
  <2> QED BY <1>1, <1>2, <2>1, <2>3, SegmentsCounted
<1> QED BY <1>1, <1>3, <1>5, <1>6

-----------------------------------------------------------------------------
(* The count.  What was announced is what was fetched, and what the window   *)
(* being read and those to come still need: one article for each ticket.     *)
CountOK ==
  /\ planned \in Nat /\ fetched \in Nat
  /\ use = "get" =>
       /\ stage \in {"closed", "open"} => fetched = 0
       /\ stage \in {"getting", "reading"} => todo \subseteq Windows
       /\ stage = "getting" => planned = fetched + Cardinality(Tickets(todo))
       /\ stage = "reading" => /\ geometry.uniform /\ IsFiniteSet(left)
                               /\ planned = fetched + Cardinality(left) + Cardinality(Tickets(todo))
       /\ stage = "done" => planned = fetched

LEMMA SameTickets ==
  ASSUME UNCHANGED <<use, options, geometry>>
  PROVE  Windows' = Windows /\ \A T : Tickets(T)' = Tickets(T)
BY DEF Windows, Ranges, Apply, Tickets, Announced, CountArticles, OffsetOf

(* The windows are finitely many, and so are the tickets of any of them. *)
LEMMA TicketsOfWindows ==
  ASSUME HandleTypeOK, use = "get"
  PROVE  /\ IsFiniteSet(Windows) /\ (\A i \in Windows : Announced(i) \in Nat)
         /\ \A T \in SUBSET Windows : IsFiniteSet(Tickets(T)) /\ Cardinality(Tickets(T)) \in Nat
<1>1. IsFiniteSet(DOMAIN Ranges)
  <2>1. Ranges \in Seq(RangeOptions)
    <3>1. CASE options.ranges = <<>>
      <4>1. Ranges = <<Whole>> /\ Whole \in RangeOptions
        BY <3>1 DEF Ranges, Whole, RangeOptions
      <4> HIDE DEF Whole
      <4> QED BY <4>1
    <3>2. CASE options.ranges # <<>>
      BY <3>2, GetsAssumption DEF Ranges, HandleTypeOK
    <3> QED BY <3>1, <3>2
  <2>2. DOMAIN Ranges = 1 .. Len(Ranges) /\ Len(Ranges) \in Nat
    BY <2>1, LenProperties
  <2> QED BY <2>2, FS_Interval
<1>2. IsFiniteSet(Windows)
  BY <1>1, FS_Subset DEF Windows
<1>3. \A i \in Windows : Announced(i) \in Nat
  BY AnnouncedForWindow
<1> QED BY <1>2, <1>3, TicketsFinite, FS_CardinalityType

LEMMA InitCounts == ASSUME Init PROVE CountOK
BY DEF Init, CountOK

(* The announcement itself. *)
LEMMA SelectCounts ==
  ASSUME HandleInv, CountOK, Select PROVE CountOK'
<1>1. /\ HandleTypeOK /\ stage = "open" /\ use = "get" /\ fetched = 0 /\ planned \in Nat
      /\ stage' \in {"skipped", "getting"} /\ todo' = Windows
      /\ UNCHANGED <<use, options, geometry, fetched>>
  BY DEF HandleInv, CountOK, Select
<1>2. stage' = "skipped" => CountOK'
  <2>1. stage' = "skipped" => planned' = planned
    BY DEF Select
  <2> QED BY <1>1, <2>1 DEF CountOK
<1>3. CASE stage' = "getting"
  <2>1. planned' = MapThenSumSet(
          LAMBDA i : CountArticles(OffsetOf(Ranges[i]), Length(Apply(Ranges[i]))), Windows)
    BY <1>3 DEF Select
  <2>2. planned' = Cardinality(Tickets(Windows)) /\ planned' \in Nat
    BY <1>1, <2>1, TicketsOfWindows, SumIsTickets
  <2>3. Tickets(todo)' = Tickets(Windows) /\ Windows' = Windows
    BY <1>1, SameTickets
  <2> QED BY <1>1, <1>3, <2>2, <2>3 DEF CountOK
<1> QED BY <1>1, <1>2, <1>3

(* A window's tickets are torn off, one for each segment. *)
LEMMA NextWindowCounts ==
  ASSUME HandleInv, CountOK, NextWindow PROVE CountOK'
<1> DEFINE m == Min(todo)
           w == Apply(Ranges[m])
<1>1. /\ HandleTypeOK /\ stage = "getting" /\ todo # {} /\ BeginRead(w)
      /\ stage' \in {"reading", "failed"} /\ todo' = todo \ {m} /\ planned' = planned
      /\ UNCHANGED <<use, options, geometry, fetched, planned>>
  BY DEF HandleInv, NextWindow, BeginRead
<1>2. use = "get"
  BY <1>1 DEF HandleTypeOK
<1>3. /\ todo \subseteq Windows /\ planned = fetched + Cardinality(Tickets(todo))
      /\ planned \in Nat /\ fetched \in Nat
  BY <1>1, <1>2 DEF CountOK
<1>4. m \in todo /\ m \in Windows
  <2>1. todo \subseteq Nat
    BY <1>1, <1>2, RangesFacts DEF HandleTypeOK
  <2> QED BY <1>1, <1>3, <2>1, MinIsLeast
<1> HIDE DEF m
<1>5. CASE stage' = "failed"
  BY <1>1, <1>2, <1>3, <1>5 DEF CountOK
<1>6. CASE stage' = "reading"
  <2>1. ~Unresolvable(geometry, w) /\ left' = Segments(geometry, w)
    BY <1>1, <1>6 DEF BeginRead
  <2>2. geometry.uniform
    <3>1. InFile(geometry, w) /\ geometry.totalSize \in Nat /\ Length(w) > 0
      BY <1>1, <1>2, <1>4, RangesFacts, AnnouncedForWindow DEF Windows, HandleTypeOK, GeometryOK
    <3> QED BY <2>1, <3>1, ClampKeeps DEF Unresolvable
  <2>3. IsFiniteSet(left') /\ Cardinality(left') = Announced(m) /\ Announced(m) \in Nat
    BY <1>1, <1>2, <1>4, <2>1, <2>2, AnnouncedForWindow
  <2>4. todo' \subseteq Windows /\ IsFiniteSet(Tickets(todo')) /\ Cardinality(Tickets(todo')) \in Nat
    BY <1>1, <1>2, <1>3, TicketsOfWindows
  <2>5. Cardinality(Tickets(todo)) = Announced(m) + Cardinality(Tickets(todo'))
    BY <1>1, <1>4, <2>3, <2>4, TicketsSplit
  <2>6. Windows' = Windows /\ Tickets(todo)' = Tickets(todo')
    BY <1>1, SameTickets
  <2>7. planned' = fetched' + Cardinality(left') + Cardinality(Tickets(todo'))
    BY <1>1, <1>3, <2>3, <2>4, <2>5
  <2> QED BY <1>1, <1>3, <1>6, <2>2, <2>3, <2>4, <2>6, <2>7 DEF CountOK
<1> QED BY <1>1, <1>5, <1>6

LEMMA HandOverCounts ==
  ASSUME HandleInv, CountOK, NEW s \in left, HandOver(s) PROVE CountOK'
<1>1. /\ HandleTypeOK /\ stage = "reading" /\ stage' \in {"reading", "failed"}
      /\ UNCHANGED <<use, options, geometry, todo, planned>>
      /\ planned \in Nat /\ fetched \in Nat /\ fetched' \in Nat
  BY DEF HandleInv, HandOver, CountOK
<1>2. CASE stage' = "failed" \/ use # "get"
  BY <1>1, <1>2 DEF CountOK
<1>3. CASE stage' = "reading" /\ use = "get"
  <2>1. left' = left \ {s} /\ fetched' = fetched + 1
    BY <1>3 DEF HandOver
  <2>2. /\ todo \subseteq Windows /\ geometry.uniform /\ IsFiniteSet(left)
        /\ planned = fetched + Cardinality(left) + Cardinality(Tickets(todo))
    BY <1>1, <1>3 DEF CountOK
  <2>3. IsFiniteSet(left') /\ Cardinality(left') = Cardinality(left) - 1 /\ Cardinality(left) \in Nat
    BY <2>1, <2>2, FS_RemoveElement, FS_CardinalityType
  <2>4. Cardinality(Tickets(todo)) \in Nat
    BY <1>1, <1>3, <2>2, TicketsOfWindows
  <2>5. Windows' = Windows /\ Tickets(todo)' = Tickets(todo)
    BY <1>1, SameTickets
  <2>6. planned' = fetched' + Cardinality(left') + Cardinality(Tickets(todo))
    BY <1>1, <2>1, <2>2, <2>3, <2>4
  <2> QED BY <1>1, <1>3, <2>2, <2>3, <2>5, <2>6 DEF CountOK
<1> QED BY <1>1, <1>2, <1>3

LEMMA EndReadCounts ==
  ASSUME HandleInv, CountOK, EndRead PROVE CountOK'
<1>1. /\ HandleTypeOK /\ stage = "reading" /\ left = {}
      /\ stage' = IF use = "get" THEN "getting" ELSE "done"
      /\ UNCHANGED <<use, options, geometry, todo, planned, fetched>>
  BY DEF HandleInv, EndRead
<1>2. use = "get" =>
        /\ todo \subseteq Windows
        /\ planned = fetched + Cardinality(left) + Cardinality(Tickets(todo))
  BY <1>1 DEF CountOK
<1>3. use = "get" => Cardinality(Tickets(todo)) \in Nat /\ Cardinality(left) = 0
  BY <1>1, <1>2, TicketsOfWindows, FS_EmptySet
<1>4. planned \in Nat /\ fetched \in Nat
  BY DEF CountOK
<1>5. use = "get" => planned = fetched + Cardinality(Tickets(todo))
  BY <1>2, <1>3, <1>4
<1>6. Windows' = Windows /\ Tickets(todo)' = Tickets(todo)
  BY <1>1, SameTickets
<1> QED BY <1>1, <1>2, <1>4, <1>5, <1>6 DEF CountOK

LEMMA EndGetCounts ==
  ASSUME HandleInv, CountOK, EndGet PROVE CountOK'
<1>1. /\ HandleTypeOK /\ stage = "getting" /\ todo = {} /\ stage' = "done"
      /\ UNCHANGED <<use, options, geometry, todo, planned, fetched>>
  BY DEF HandleInv, EndGet
<1>2. use = "get"
  BY <1>1 DEF HandleTypeOK
<1>3. Cardinality(Tickets(todo)) = 0
  BY <1>1, FS_EmptySet DEF Tickets
<1> QED BY <1>1, <1>2, <1>3 DEF CountOK

(* The rest neither announces nor fetches. *)
LEMMA OthersCount ==
  ASSUME HandleInv, CountOK,
         OpenNzbFile \/ (\E start, end \in Bounds : Slice(start, end)) \/ Read \/ UNCHANGED vars
  PROVE  CountOK'
<1>1. CASE OpenNzbFile
  BY <1>1 DEF OpenNzbFile, CountOK
<1>2. CASE \E start, end \in Bounds : Slice(start, end)
  BY <1>2 DEF Slice, CountOK
<1>3. CASE Read
  <2>1. use # "get" /\ UNCHANGED <<use, planned, fetched>>
    BY <1>3 DEF Read
  <2> QED BY <2>1 DEF CountOK
<1>4. CASE UNCHANGED vars
  <2>1. UNCHANGED <<use, options, stage, geometry, todo, left, planned, fetched>>
    BY <1>4 DEF vars
  <2>2. Windows' = Windows /\ Tickets(todo)' = Tickets(todo)
    BY <2>1, SameTickets
  <2> QED BY <2>1, <2>2 DEF CountOK
<1> QED BY <1>1, <1>2, <1>3, <1>4

(* The number of articles get announces is the number the windows take, for *)
(* every layout, every list of ranges, overlapping or not, and every post   *)
(* that can be read to the end (get.ts countArticles against handle.ts      *)
(* #resolve).                                                               *)
THEOREM AnnouncedIsTrue == Spec => []AnnouncedIsFetched
<1>1. Init => CountOK
  BY InitCounts
<1>2. HandleInv /\ CountOK /\ [Next]_vars => CountOK'
  BY SelectCounts, NextWindowCounts, HandOverCounts, EndReadCounts, EndGetCounts, OthersCount DEF Next
<1>3. CountOK => AnnouncedIsFetched
  BY DEF CountOK, AnnouncedIsFetched
<1> QED BY <1>1, <1>2, <1>3, HandleInvariant, PTL DEF Spec
=============================================================================
