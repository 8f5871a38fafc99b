----------------------------- MODULE Formats_proofs -----------------------------
(***************************************************************************)
(* Of Par2: what a scan finds is what survived, and a verdict tells what   *)
(* the disk holds.  The scan is followed packet by packet: it stands past  *)
(* those it yielded and before the others, and the bytes between can pass  *)
(* for a header but not for a packet.  The verifier is followed byte by    *)
(* byte: what it has of the open slice, of the chunk and of the whole file *)
(* are pieces of what is on disk.                                          *)
(*                                                                         *)
(* Of NzbParser: a document that is accepted is read as it is written.     *)
(* The parser is followed item by item with the elements that are open:    *)
(* its stack holds their names, its file, segment and meta type are of the *)
(* last of their name to start or are null, its text is the character data *)
(* since the last tag, and what it has listed are the elements that are    *)
(* over.                                                                   *)
(*                                                                         *)
(* The lemmas on the numbers and on what a flattening is are those of      *)
(* Toolkit_proofs.                                                         *)
(***************************************************************************)
EXTENDS Par2, NzbParser, Toolkit_proofs, FiniteSetTheorems

-----------------------------------------------------------------------------
(* The scan of the volumes.                                                  *)

(* A set of numbers has a least one, and Min is it.                          *)
LEMMA LeastExists ==
  ASSUME NEW S, S \subseteq Nat, S # {}
  PROVE  Min(S) \in S /\ \A i \in S : Min(S) <= i
<1>1. PICK m \in S : \A i \in S : ~(<<i, m>> \in OpToRel(<, Nat))
  BY NatLessThanWellFounded, WFMin
<1>2. \A i \in S : m <= i
  <2> SUFFICES ASSUME NEW i \in S, ~(m <= i) PROVE FALSE
    OBVIOUS
  <2>1. i \in Nat /\ m \in Nat /\ i < m
    OBVIOUS
  <2>2. <<i, m>> \in OpToRel(<, Nat)
    BY <2>1 DEF OpToRel
  <2> QED BY <1>1, <2>2
<1>3. Min(S) = m
  <2>1. S \subseteq Int
    OBVIOUS
  <2> QED BY <1>2, <2>1, LeastIs
<1> QED BY <1>2, <1>3

(* What volumes yield, and what was gathered of the first of them.           *)
PacketsOf(r) == UNION {ToSet(v.survivors) : v \in ToSet(r.volumes)}
Lists(vs) == [j \in DOMAIN vs |-> vs[j].survivors]
Flat(h, vs) == Flattens(h, PacketsOf(release), Len(vs), Lists(vs))

(* The scan stands at cell i of volume j, past m of its packets. *)
ScannedTo(vs, j, i, m, ps) ==
  /\ j \in 1 .. Len(vs) /\ i \in Nat \ {0} /\ m \in 0 .. Len(vs[j].starts)
  /\ \A k \in 1 .. m : EndOf(vs[j], k) <= i
  /\ \A k \in m + 1 .. Len(vs[j].starts) : i <= vs[j].starts[k]
  /\ \A h : Flat(h, vs) => ps = h[j - 1] \o SubSeq(vs[j].survivors, 1, m)

AllScanned(vs, ps) == \A h : Flat(h, vs) => ps = h[Len(vs)]

ScanStands(vs, a, ps) ==
  \/ \E j \in 1 .. Len(vs), i \in Nat \ {0}, m \in Nat : a = <<j, i>> /\ ScannedTo(vs, j, i, m, ps)
  \/ a = <<Len(vs) + 1, 1>> /\ AllScanned(vs, ps)

FirstHeader(cells, from, found) ==
  \/ found = 0 /\ \A i \in from .. Len(cells) : ~IsHeader(cells[i])
  \/ /\ found \in from .. Len(cells) /\ IsHeader(cells[found])
     /\ \A i \in from .. found - 1 : ~IsHeader(cells[i])

LEMMA HeaderFound ==
  ASSUME NEW X, NEW cells \in Seq(X), NEW from \in Nat \ {0}
  PROVE  FirstHeader(cells, from, SelectInSubSeq(cells, from, Len(cells), IsHeader))
<1> DEFINE S == {i \in from .. Len(cells) : IsHeader(cells[i])}
<1>1. SelectInSubSeq(cells, from, Len(cells), IsHeader) = IF S # {} THEN Min(S) ELSE 0
  BY DEF SelectInSubSeq
<1>2. Len(cells) \in Nat /\ S \subseteq Nat
  BY LenProperties
<1>3. CASE S = {}
  <2>1. \A i \in from .. Len(cells) : ~IsHeader(cells[i])
    BY <1>3
  <2> QED BY <1>1, <1>3, <2>1 DEF FirstHeader
<1>4. CASE S # {}
  <2> HIDE DEF S
  <2>1. Min(S) \in S /\ \A i \in S : Min(S) <= i
    BY <1>2, <1>4, LeastExists
  <2> DEFINE f == Min(S)
  <2> HIDE DEF f
  <2>2. f \in from .. Len(cells) /\ IsHeader(cells[f]) /\ \A i \in S : f <= i
    BY <2>1 DEF S, f
  <2>3. \A i \in from .. f - 1 : ~IsHeader(cells[i])
    <3> SUFFICES ASSUME NEW i \in from .. f - 1, IsHeader(cells[i]) PROVE FALSE
      OBVIOUS
    <3>1. i \in from .. Len(cells) /\ ~(f <= i)
      BY <1>2, <2>2
    <3>2. i \in S
      BY <3>1 DEF S
    <3> QED BY <2>2, <3>1, <3>2
  <2> QED BY <1>1, <1>4, <2>2, <2>3 DEF FirstHeader, f
<1> QED BY <1>3, <1>4

(* What Laid says, for the proofs. *)
LaidFacts(v) ==
  /\ v.cells \in Seq(ToSet(v.cells)) /\ Len(v.cells) \in Nat
  /\ DOMAIN v.cells = 1 .. Len(v.cells)
  /\ Len(v.starts) \in Nat /\ DOMAIN v.starts = 1 .. Len(v.starts)
  /\ v.survivors \in Seq(ToSet(v.survivors)) /\ Len(v.survivors) = Len(v.starts)
  /\ \A k \in 1 .. Len(v.starts) :
       /\ v.starts[k] \in 1 .. Len(v.cells)
       /\ IsHeader(v.cells[v.starts[k]]) /\ IsPacket(v.cells, v.starts[k])
       /\ v.cells[v.starts[k]].length \in Nat \ {0}
       /\ v.survivors[k] = v.cells[v.starts[k]].packet
  /\ \A k, l \in 1 .. Len(v.starts) : k < l => EndOf(v, k) <= v.starts[l]
  /\ \A i \in 1 .. Len(v.cells) :
       IsHeader(v.cells[i]) /\ IsPacket(v.cells, i) =>
         \E k \in 1 .. Len(v.starts) : v.starts[k] <= i /\ i < EndOf(v, k)

LEMMA LaidIs == ASSUME NEW v, Laid(v) PROVE LaidFacts(v)
<1>1. /\ v.cells \in Seq(ToSet(v.cells)) /\ v.starts \in Seq(DOMAIN v.cells)
      /\ v.survivors = [k \in DOMAIN v.starts |-> v.cells[v.starts[k]].packet]
      /\ \A k \in DOMAIN v.starts : IsHeader(v.cells[v.starts[k]]) /\ IsPacket(v.cells, v.starts[k])
      /\ \A k, l \in DOMAIN v.starts : k < l => EndOf(v, k) <= v.starts[l]
      /\ \A i \in DOMAIN v.cells :
           IsHeader(v.cells[i]) /\ IsPacket(v.cells, i) =>
             \E k \in DOMAIN v.starts : v.starts[k] <= i /\ i < EndOf(v, k)
  BY DEF Laid
<1>2. /\ Len(v.cells) \in Nat /\ DOMAIN v.cells = 1 .. Len(v.cells)
      /\ Len(v.starts) \in Nat /\ DOMAIN v.starts = 1 .. Len(v.starts)
  BY <1>1, LenProperties
<1>3. \A k \in 1 .. Len(v.starts) : v.starts[k] \in 1 .. Len(v.cells)
  BY <1>1, <1>2, ElementOfSeq
<1>4. \A k \in 1 .. Len(v.starts) : v.cells[v.starts[k]].length \in Nat \ {0}
  <2> SUFFICES ASSUME NEW k \in 1 .. Len(v.starts) PROVE v.cells[v.starts[k]].length \in Nat \ {0}
    OBVIOUS
  <2>1. IsPacket(v.cells, v.starts[k])
    BY <1>1, <1>2
  <2>2. v.cells[v.starts[k]].length \in 1 .. MaxPacket
    BY <2>1 DEF IsPacket
  <2> QED BY <2>2, MaxPacketAssumption
<1>5. v.survivors \in Seq(ToSet(v.survivors)) /\ Len(v.survivors) = Len(v.starts)
      /\ \A k \in 1 .. Len(v.starts) : v.survivors[k] = v.cells[v.starts[k]].packet
  <2> DEFINE n == Len(v.starts)
             s == v.survivors
             P(k) == v.cells[v.starts[k]].packet
  <2>1. s = [k \in 1 .. n |-> P(k)] /\ n \in Nat
    BY <1>1, <1>2
  <2> HIDE DEF n, s, P
  <2>2. DOMAIN s = 1 .. n /\ \A k \in 1 .. n : s[k] = P(k) /\ s[k] \in ToSet(s)
    BY <2>1 DEF ToSet
  <2>3. s \in [1 .. n -> ToSet(s)]
    BY <2>1, <2>2
  <2>4. s \in Seq(ToSet(s)) /\ Len(s) = n
    <3>1. s \in Seq(ToSet(s))
      BY <2>1, <2>3, SeqDef
    <3> QED BY <2>1, <2>2, <3>1, LenProperties
  <2> QED BY <2>2, <2>4 DEF n, s, P
<1> QED BY <1>1, <1>2, <1>3, <1>4, <1>5 DEF LaidFacts

LEMMA SomeFlat ==
  ASSUME release \in Releases, NEW vs \in Seq(ToSet(release.volumes))
  PROVE  /\ \E h : Flat(h, vs)
         /\ \A h : Flat(h, vs) => h[Len(vs)] = Gathered(vs)
         /\ Len(vs) \in Nat
         /\ \A j \in 1 .. Len(vs) : LaidFacts(vs[j]) /\ vs[j].survivors \in Seq(PacketsOf(release))
<1> DEFINE n == Len(vs)
<1>1. n \in Nat /\ DOMAIN vs = 1 .. n /\ \A j \in 1 .. n : vs[j] \in ToSet(release.volumes)
  BY LenProperties, ElementOfSeq
<1>2. \A j \in 1 .. n : LaidFacts(vs[j])
  BY <1>1, VolumesAssumption, LaidIs
<1>3. ASSUME NEW j \in 1 .. n PROVE vs[j].survivors \in Seq(PacketsOf(release))
  <2>1. vs[j].survivors \in Seq(ToSet(vs[j].survivors))
    BY <1>2, <1>3 DEF LaidFacts
  <2>2. ToSet(vs[j].survivors) \subseteq PacketsOf(release)
    BY <1>1, <1>3 DEF PacketsOf
  <2> QED BY <2>1, <2>2, SeqMonotonic
<1>4. /\ DOMAIN Lists(vs) = 1 .. n /\ Len(Lists(vs)) = n /\ (n = 0 => Lists(vs) = <<>>)
      /\ \A j \in 1 .. n : Lists(vs)[j] = vs[j].survivors
  <2> HIDE DEF n
  <2>1. Lists(vs) = [j \in 1 .. n |-> vs[j].survivors]
    BY <1>1 DEF Lists
  <2> QED BY <1>1, <2>1
<1>5. \E h : Flat(h, vs)
  <2>1. \A j \in 1 .. n : Lists(vs)[j] \in Seq(PacketsOf(release))
    BY <1>3, <1>4
  <2> HIDE DEF n
  <2>2. \E h : Flattens(h, PacketsOf(release), n, Lists(vs))
    BY <1>1, <1>4, <2>1, FlattenFacts, Zenon
  <2> QED BY <2>2 DEF Flat, n
<1>6. \A h : Flat(h, vs) => h[n] = Gathered(vs)
  BY DEF Flat, Flattens, Gathered, Lists
<1> QED BY <1>1, <1>2, <1>3, <1>5, <1>6

LEMMA FlatGrows ==
  ASSUME release \in Releases, NEW vs \in Seq(ToSet(release.volumes)), NEW h, Flat(h, vs)
  PROVE  /\ h[0] = <<>>
         /\ \A j \in 0 .. Len(vs) : h[j] \in Seq(PacketsOf(release))
         /\ \A j \in 1 .. Len(vs) : h[j] = h[j - 1] \o vs[j].survivors
<1>1. Len(vs) \in Nat /\ DOMAIN vs = 1 .. Len(vs)
  BY LenProperties
<1>2. \A j \in 1 .. Len(vs) : Lists(vs)[j] = vs[j].survivors
  BY <1>1 DEF Lists
<1> QED BY <1>2 DEF Flat, Flattens

(* The scan begins with a volume where it begins, past none of its packets. *)
LEMMA VolumeBegins ==
  ASSUME release \in Releases, NEW vs \in Seq(ToSet(release.volumes)), NEW j \in 1 .. Len(vs), NEW ps,
         \A h : Flat(h, vs) => ps = h[j - 1]
  PROVE  ScannedTo(vs, j, 1, 0, ps)
<1>1. LaidFacts(vs[j]) /\ vs[j].survivors \in Seq(PacketsOf(release)) /\ Len(vs) \in Nat
  BY SomeFlat
<1>2. \A k \in 0 + 1 .. Len(vs[j].starts) : 1 <= vs[j].starts[k]
  BY <1>1 DEF LaidFacts
<1>3. Len(vs[j].starts) \in Nat
  BY <1>1 DEF LaidFacts
<1>4. SubSeq(vs[j].survivors, 1, 0) = <<>>
  BY SubSeqEmpty
<1>5. ASSUME NEW h, Flat(h, vs) PROVE ps = h[j - 1] \o SubSeq(vs[j].survivors, 1, 0)
  <2>1. j - 1 \in 0 .. Len(vs)
    BY <1>1
  <2>2. h[j - 1] \in Seq(PacketsOf(release))
    BY <1>5, <2>1, FlatGrows
  <2>3. h[j - 1] \o <<>> = h[j - 1]
    BY <2>2, ConcatEmptySeq
  <2> QED BY <1>4, <1>5, <2>3
<1>6. \A k \in 1 .. 0 : EndOf(vs[j], k) <= 1
  OBVIOUS
<1> QED BY <1>2, <1>3, <1>5, <1>6 DEF ScannedTo

LEMMA ScanStarts ==
  ASSUME release \in Releases, NEW vs \in Seq(ToSet(release.volumes)), Len(vs) # 0
  PROVE  ScanStands(vs, <<1, 1>>, <<>>)
<1>1. Len(vs) \in Nat /\ 1 \in 1 .. Len(vs)
  BY LenProperties
<1>2. \A h : Flat(h, vs) => <<>> = h[1 - 1]
  <2>1. 1 - 1 = 0
    OBVIOUS
  <2> QED BY <2>1, FlatGrows
<1>3. ScannedTo(vs, 1, 1, 0, <<>>)
  BY <1>1, <1>2, VolumeBegins
<1> QED BY <1>1, <1>3 DEF ScanStands

LEMMA ScanEnds ==
  ASSUME release \in Releases, NEW vs \in Seq(ToSet(release.volumes)), NEW a, NEW ps,
         ScanStands(vs, a, ps), a[1] > Len(vs)
  PROVE  ps = Gathered(vs)
<1>1. Len(vs) \in Nat
  BY LenProperties
<1>2. AllScanned(vs, ps)
  BY <1>1 DEF ScanStands
<1>3. PICK h : Flat(h, vs)
  BY SomeFlat
<1> QED BY <1>2, <1>3, SomeFlat DEF AllScanned

(* A volume has no more headers: all of its packets were yielded. *)
LEMMA VolumeEnds ==
  ASSUME release \in Releases, NEW vs \in Seq(ToSet(release.volumes)),
         NEW j, NEW i, NEW m, NEW ps, ScannedTo(vs, j, i, m, ps),
         \A c \in i .. Len(vs[j].cells) : ~IsHeader(vs[j].cells[c])
  PROVE  ScanStands(vs, <<j + 1, 1>>, ps)
<1> DEFINE v == vs[j]
<1>1. /\ j \in 1 .. Len(vs) /\ i \in Nat \ {0} /\ m \in 0 .. Len(v.starts)
      /\ \A k \in m + 1 .. Len(v.starts) : i <= v.starts[k]
      /\ \A h : Flat(h, vs) => ps = h[j - 1] \o SubSeq(v.survivors, 1, m)
  BY DEF ScannedTo
<1>2. LaidFacts(v) /\ v.survivors \in Seq(PacketsOf(release)) /\ Len(vs) \in Nat
  BY <1>1, SomeFlat
<1>3. /\ \A k \in 1 .. Len(v.starts) : v.starts[k] \in 1 .. Len(v.cells) /\ IsHeader(v.cells[v.starts[k]])
      /\ Len(v.starts) \in Nat /\ Len(v.survivors) = Len(v.starts) /\ Len(v.cells) \in Nat
  BY <1>2 DEF LaidFacts
<1>4. \A c \in i .. Len(v.cells) : ~IsHeader(v.cells[c])
  OBVIOUS
<1> HIDE DEF v
<1>5. m = Len(v.starts)
  <2> SUFFICES ASSUME m # Len(v.starts) PROVE FALSE
    OBVIOUS
  <2> DEFINE k == m + 1
  <2>1. k \in m + 1 .. Len(v.starts) /\ k \in 1 .. Len(v.starts)
    BY <1>1, <1>3
  <2> HIDE DEF k
  <2>2. v.starts[k] \in i .. Len(v.cells) /\ IsHeader(v.cells[v.starts[k]])
    BY <1>1, <1>3, <2>1
  <2> QED BY <1>4, <2>2
<1>6. SubSeq(v.survivors, 1, m) = v.survivors
  BY <1>2, <1>3, <1>5, SubSeqFull
<1>7. ASSUME NEW h, Flat(h, vs) PROVE ps = h[j]
  <2>1. h[j] = h[j - 1] \o v.survivors
    BY <1>1, <1>7, FlatGrows DEF v
  <2> QED BY <1>1, <1>6, <1>7, <2>1
<1>8. CASE j = Len(vs)
  <2>1. AllScanned(vs, ps)
    BY <1>7, <1>8 DEF AllScanned
  <2> QED BY <1>8, <2>1 DEF ScanStands
<1>9. CASE j # Len(vs)
  <2>1. j + 1 \in 1 .. Len(vs) /\ (j + 1) - 1 = j
    BY <1>1, <1>2, <1>9
  <2>2. ScannedTo(vs, j + 1, 1, 0, ps)
    BY <1>7, <2>1, VolumeBegins
  <2> QED BY <2>1, <2>2 DEF ScanStands
<1> QED BY <1>8, <1>9

(* The next header is that of the next packet that survived, or of none. *)
LEMMA Regroup ==
  ASSUME NEW X, NEW s \in Seq(X), NEW t \in Seq(X), NEW x \in X
  PROVE  (s \o t) \o <<x>> = s \o (t \o <<x>>)
<1> DEFINE u == <<x>>
<1>1. u \in Seq(X)
  OBVIOUS
<1> HIDE DEF u
<1>2. (s \o t) \o u = s \o (t \o u)
  BY <1>1, ConcatAssociative
<1> QED BY <1>2 DEF u

LEMMA HeaderScanned ==
  ASSUME release \in Releases, NEW vs \in Seq(ToSet(release.volumes)),
         NEW j, NEW i, NEW m, NEW ps, ScannedTo(vs, j, i, m, ps),
         NEW c \in i .. Len(vs[j].cells), IsHeader(vs[j].cells[c]),
         \A b \in i .. c - 1 : ~IsHeader(vs[j].cells[b])
  PROVE  \E n \in Nat :
           ScannedTo(vs, j, Resume(vs[j].cells, c), n,
                     IF IsPacket(vs[j].cells, c) THEN Append(ps, vs[j].cells[c].packet) ELSE ps)
<1> DEFINE v == vs[j]
           s == v.starts
<1>1. /\ j \in 1 .. Len(vs) /\ i \in Nat \ {0} /\ m \in 0 .. Len(s)
      /\ \A k \in 1 .. m : EndOf(v, k) <= i
      /\ \A k \in m + 1 .. Len(s) : i <= s[k]
      /\ \A h : Flat(h, vs) => ps = h[j - 1] \o SubSeq(v.survivors, 1, m)
  BY DEF ScannedTo
<1>2. LaidFacts(v) /\ v.survivors \in Seq(PacketsOf(release)) /\ Len(vs) \in Nat
  BY <1>1, SomeFlat
<1>3. /\ Len(s) \in Nat /\ Len(v.cells) \in Nat /\ Len(v.survivors) = Len(s)
      /\ \A k \in 1 .. Len(s) :
           /\ s[k] \in 1 .. Len(v.cells)
           /\ IsHeader(v.cells[s[k]]) /\ IsPacket(v.cells, s[k])
           /\ v.cells[s[k]].length \in Nat \ {0}
           /\ v.survivors[k] = v.cells[s[k]].packet
      /\ \A k, l \in 1 .. Len(s) : k < l => EndOf(v, k) <= s[l]
      /\ \A b \in 1 .. Len(v.cells) :
           IsHeader(v.cells[b]) /\ IsPacket(v.cells, b) =>
             \E k \in 1 .. Len(s) : s[k] <= b /\ b < EndOf(v, k)
  BY <1>2 DEF LaidFacts
<1>4. c \in i .. Len(v.cells) /\ IsHeader(v.cells[c]) /\ \A b \in i .. c - 1 : ~IsHeader(v.cells[b])
  OBVIOUS
<1> HIDE DEF v, s
<1>5. c \in 1 .. Len(v.cells) /\ c \in Nat
  BY <1>1, <1>3, <1>4
<1>6. \A k \in 1 .. Len(s) : EndOf(v, k) = s[k] + v.cells[s[k]].length /\ EndOf(v, k) \in Nat /\ s[k] \in Nat
  <2>1. \A k \in 1 .. Len(s) : EndOf(v, k) = s[k] + v.cells[s[k]].length
    BY DEF EndOf, s
  <2> SUFFICES ASSUME NEW k \in 1 .. Len(s) PROVE EndOf(v, k) \in Nat /\ s[k] \in Nat
    BY <2>1
  <2>2. s[k] \in 1 .. Len(v.cells) /\ v.cells[s[k]].length \in Nat \ {0}
    BY <1>3
  <2> QED BY <1>3, <2>1, <2>2
(* Those still to come start at the header or later. *)
<1>7. \A k \in m + 1 .. Len(s) : c <= s[k]
  <2> SUFFICES ASSUME NEW k \in m + 1 .. Len(s), ~(c <= s[k]) PROVE FALSE
    OBVIOUS
  <2>1. k \in 1 .. Len(s) /\ i <= s[k]
    BY <1>1, <1>3
  <2>2. s[k] \in i .. c - 1
    BY <1>1, <1>5, <1>6, <2>1
  <2> QED BY <1>3, <1>4, <2>1, <2>2
<1>8. CASE ~IsPacket(v.cells, c)
  <2>1. Resume(v.cells, c) = c + 1
    BY <1>8 DEF Resume
  <2>2. \A k \in 1 .. m : EndOf(v, k) <= c + 1
    <3> SUFFICES ASSUME NEW k \in 1 .. m PROVE EndOf(v, k) <= c + 1
      OBVIOUS
    <3>1. EndOf(v, k) <= i /\ EndOf(v, k) \in Nat
      BY <1>1, <1>3, <1>6
    <3> QED BY <1>1, <1>4, <1>5, <3>1
  <2>3. \A k \in m + 1 .. Len(s) : c + 1 <= s[k]
    <3> SUFFICES ASSUME NEW k \in m + 1 .. Len(s) PROVE c + 1 <= s[k]
      OBVIOUS
    <3>1. k \in 1 .. Len(s) /\ c <= s[k]
      BY <1>1, <1>3, <1>7
    <3>2. s[k] # c
      BY <1>3, <1>8, <3>1
    <3>3. s[k] \in Nat
      BY <1>6, <3>1
    <3> QED BY <1>5, <3>1, <3>2, <3>3
  <2>4. c + 1 \in Nat \ {0} /\ m \in Nat
    BY <1>1, <1>3, <1>5
  <2>5. ScannedTo(vs, j, c + 1, m, ps)
    BY <1>1, <2>2, <2>3, <2>4 DEF ScannedTo, v, s
  <2> QED BY <1>8, <2>1, <2>4, <2>5 DEF v
<1>9. CASE IsPacket(v.cells, c)
  <2> DEFINE n == m + 1
  <2>1. PICK k \in 1 .. Len(s) : s[k] <= c /\ c < EndOf(v, k)
    BY <1>3, <1>4, <1>5, <1>9
  <2>2. k \in m + 1 .. Len(s)
    <3>1. ~(k <= m)
      <4> SUFFICES ASSUME k <= m PROVE FALSE
        OBVIOUS
      <4>1. EndOf(v, k) <= i
        BY <1>1, <1>3
      <4> QED BY <1>1, <1>4, <1>5, <1>6, <2>1, <4>1
    <3> QED BY <1>1, <1>3, <3>1
  <2>3. s[k] = c
    BY <1>5, <1>6, <1>7, <2>1, <2>2
  <2>4. n \in 1 .. Len(s) /\ n \in m + 1 .. Len(s) /\ n \in Nat /\ m \in Nat
    BY <1>1, <1>3, <2>2
  <2>5. k = n
    <3> SUFFICES ASSUME n < k PROVE FALSE
      BY <1>1, <1>3, <2>2
    <3>1. EndOf(v, n) <= s[k] /\ c <= s[n]
      BY <1>3, <1>7, <2>4
    <3>2. s[n] < EndOf(v, n)
      <4>1. v.cells[s[n]].length \in Nat \ {0} /\ s[n] \in Nat
        BY <1>3, <1>6, <2>4
      <4>2. EndOf(v, n) = s[n] + v.cells[s[n]].length
        BY <1>6, <2>4
      <4> HIDE DEF n
      <4> QED BY <4>1, <4>2
    <3> QED BY <1>5, <1>6, <2>3, <2>4, <3>1, <3>2
  <2> HIDE DEF n
  <2>6. /\ Resume(v.cells, c) = EndOf(v, n)
        /\ v.cells[c].packet = v.survivors[n]
    <3>1. Resume(v.cells, c) = c + v.cells[c].length
      BY <1>9 DEF Resume
    <3> QED BY <1>3, <1>6, <2>3, <2>4, <2>5, <3>1
  <2>7. EndOf(v, n) \in Nat \ {0} /\ s[n] <= EndOf(v, n)
    <3>1. v.cells[s[n]].length \in Nat \ {0} /\ s[n] \in Nat
      BY <1>3, <1>6, <2>4
    <3> QED BY <1>6, <2>4, <3>1
  <2>8. \A l \in 1 .. n : EndOf(v, l) <= EndOf(v, n)
    <3> SUFFICES ASSUME NEW l \in 1 .. n PROVE EndOf(v, l) <= EndOf(v, n)
      OBVIOUS
    <3>1. l \in 1 .. Len(s) /\ (l = n \/ l < n)
      BY <1>3, <2>4
    <3>2. l < n => EndOf(v, l) <= s[n]
      BY <1>3, <2>4, <3>1
    <3>3. EndOf(v, l) \in Nat /\ s[n] \in Nat
      BY <1>6, <2>4, <3>1
    <3> QED BY <2>7, <3>1, <3>2, <3>3
  <2>9. \A l \in n + 1 .. Len(s) : EndOf(v, n) <= s[l]
    <3> SUFFICES ASSUME NEW l \in n + 1 .. Len(s) PROVE EndOf(v, n) <= s[l]
      OBVIOUS
    <3>1. l \in 1 .. Len(s) /\ n < l
      BY <1>3, <2>4
    <3> QED BY <1>3, <2>4, <3>1
  <2>10. ASSUME NEW h, Flat(h, vs)
         PROVE  Append(ps, v.cells[c].packet) = h[j - 1] \o SubSeq(v.survivors, 1, n)
    <3> DEFINE X == PacketsOf(release)
               p == v.survivors[n]
               front == SubSeq(v.survivors, 1, m)
               before == h[j - 1]
    <3>1. ps = before \o front
      BY <1>1, <2>10
    <3>2. before \in Seq(X)
      <4>1. j - 1 \in 0 .. Len(vs)
        BY <1>1, <1>2
      <4> QED BY <2>10, <4>1, FlatGrows
    <3>3. p \in X /\ \A l \in 1 .. m : v.survivors[l] \in X
      <4>1. \A l \in 1 .. Len(s) : v.survivors[l] \in X
        BY <1>2, <1>3, ElementOfSeq
      <4>2. \A l \in 1 .. m : l \in 1 .. Len(s)
        BY <1>1, <1>3
      <4> QED BY <2>4, <4>1, <4>2
    <3>4. front \in Seq(X)
      <4> HIDE DEF X
      <4>1. 1 \in Int /\ m \in Int
        BY <2>4
      <4> QED BY <3>3, <4>1, SubSeqProperties
    <3>5. SubSeq(v.survivors, 1, n) = front \o <<p>>
      <4>1. n - 1 = m /\ 1 \in 1 .. Len(v.survivors) /\ n \in 1 .. Len(v.survivors)
        BY <1>3, <2>4 DEF n
      <4> QED BY <1>2, <4>1, SubSeqRecursiveSecond
    <3> HIDE DEF X, p, front, before
    <3>6. Append(ps, p) = ps \o <<p>>
      <4>1. ps \in Seq(X)
        BY <3>1, <3>2, <3>4, ConcatProperties
      <4> QED BY <3>3, <4>1, AppendIsConcat
    <3>7. (before \o front) \o <<p>> = before \o (front \o <<p>>)
      BY <3>2, <3>3, <3>4, Regroup, SMTT(40)
    <3> QED BY <2>6, <3>1, <3>5, <3>6, <3>7 DEF p, before
  <2>11. ScannedTo(vs, j, EndOf(v, n), n, Append(ps, v.cells[c].packet))
    <3>1. n \in 0 .. Len(s)
      BY <1>3, <2>4
    <3> QED BY <1>1, <2>7, <2>8, <2>9, <2>10, <3>1 DEF ScannedTo, v, s
  <2> QED BY <1>9, <2>4, <2>6, <2>11 DEF v
<1> QED BY <1>8, <1>9

LEMMA ScanKeeps ==
  ASSUME release \in Releases, volumes \in Seq(ToSet(release.volumes)),
         ScanStands(volumes, at, packets), Scan
  PROVE  ScanStands(volumes, at', packets')
<1>1. at[1] <= Len(volumes) /\ Len(volumes) \in Nat
  BY LenProperties DEF Scan
<1>2. PICK j \in 1 .. Len(volumes), i \in Nat \ {0}, m \in Nat :
        at = <<j, i>> /\ ScannedTo(volumes, j, i, m, packets)
  BY <1>1 DEF ScanStands
<1> DEFINE cells == volumes[j].cells
           found == SelectInSubSeq(cells, i, Len(cells), IsHeader)
<1>3. at[1] = j /\ at[2] = i
  BY <1>2
<1>4. /\ found = 0 => at' = <<j + 1, 1>> /\ packets' = packets
      /\ found # 0 => /\ at' = <<j, Resume(cells, found)>>
                      /\ packets' = IF IsPacket(cells, found) THEN Append(packets, cells[found].packet)
                                    ELSE packets
  BY <1>3 DEF Scan
<1>5. LaidFacts(volumes[j])
  BY SomeFlat
<1>6. cells \in Seq(ToSet(cells)) /\ Len(cells) \in Nat
  BY <1>5 DEF LaidFacts
<1>7. FirstHeader(cells, i, found)
  BY <1>6, HeaderFound
<1> HIDE DEF found
<1>8. CASE found = 0
  <2>1. \A c \in i .. Len(cells) : ~IsHeader(cells[c])
    BY <1>2, <1>7, <1>8 DEF FirstHeader
  <2>2. ScanStands(volumes, <<j + 1, 1>>, packets)
    BY <1>2, <2>1, VolumeEnds
  <2> QED BY <1>4, <1>8, <2>2
<1>9. CASE found # 0
  <2>1. /\ found \in i .. Len(cells) /\ IsHeader(cells[found])
        /\ \A b \in i .. found - 1 : ~IsHeader(cells[b])
    BY <1>7, <1>9 DEF FirstHeader
  <2>2. PICK n \in Nat : ScannedTo(volumes, j, Resume(cells, found), n, packets')
    BY <1>2, <1>4, <1>9, <2>1, HeaderScanned
  <2>3. Resume(cells, found) \in Nat \ {0}
    BY <2>2 DEF ScannedTo
  <2> QED BY <1>4, <1>9, <2>2, <2>3 DEF ScanStands
<1> QED BY <1>8, <1>9

-----------------------------------------------------------------------------
(* The verifier.                                                             *)

(* The slices so far, of n that are closed, that differ from the disk's.     *)
Damage(slices, disk, size, n) ==
  {k \in 0 .. n - 1 : k < Len(slices) /\ slices[k + 1] # SliceAt(disk, size, k)}

(* w bytes were read, c of them copied, those of the open slice into sl.     *)
Hashed(slices, disk, size, w, c, wh, pe, sl, da) ==
  /\ w \in 0 .. Len(disk) /\ c \in 0 .. w
  /\ wh = SubSeq(disk, 1, w) /\ pe = SubSeq(disk, c + 1, w)
  /\ da.index \in Nat /\ da.index * size <= c /\ c < da.index * size + size
  /\ sl = SubSeq(disk, da.index * size + 1, c)
  /\ da.slices = Damage(slices, disk, size, da.index)

ClosedBy(slices, size, da, s) ==
  [index  |-> da.index + 1,
   slices |-> IF da.index < Len(slices) /\ slices[da.index + 1] # Padded(s, size)
              THEN da.slices \cup {da.index} ELSE da.slices]

LEMMA Multiples ==
  ASSUME NEW k \in Nat, NEW n \in Nat, NEW size \in Nat \ {0}
  PROVE  /\ k * size \in Nat /\ (n + 1) * size = n * size + size
         /\ k <= n => k * size <= n * size
         /\ k < n => k * size + size <= n * size
<1>1. k * size \in Nat /\ (n + 1) * size = n * size + size
  OBVIOUS
<1>2. ASSUME k <= n PROVE k * size <= n * size
  <2>1. (n - k) \in Nat /\ n = k + (n - k)
    BY <1>2
  <2>2. \A d \in Nat : (k + d) * size = k * size + d * size /\ d * size \in Nat
    OBVIOUS
  <2> QED BY <2>1, <2>2, <1>1
<1>3. ASSUME k < n PROVE k * size + size <= n * size
  <2>1. (n - (k + 1)) \in Nat /\ n = (k + 1) + (n - (k + 1))
    BY <1>3
  <2>2. \A d \in Nat : ((k + 1) + d) * size = (k * size + size) + d * size /\ d * size \in Nat
    OBVIOUS
  <2> QED BY <2>1, <2>2, <1>1
<1> QED BY <1>1, <1>2, <1>3

LEMMA PieceIs ==
  ASSUME NEW s \in Seq(Int), NEW m \in Nat, NEW n \in Nat, m <= n, n <= Len(s)
  PROVE  /\ SubSeq(s, m + 1, n) \in Seq(Int) /\ Len(SubSeq(s, m + 1, n)) = n - m
         /\ \A i \in 1 .. n - m : SubSeq(s, m + 1, n)[i] = s[m + i]
  OBVIOUS

(* Taking from the chunk is reading further along the disk.                  *)
Within(disk, b, c, w, take) ==
  b \in Nat /\ c \in Nat /\ w \in Nat /\ b <= c /\ c <= w /\ w <= Len(disk) /\ take \in 0 .. w - c

Taking(disk, b, c, w, take) ==
  /\ Len(SubSeq(disk, c + 1, w)) = w - c
  /\ Len(SubSeq(disk, b + 1, c)) = c - b
  /\ Len(SubSeq(disk, b + 1, c + take)) = (c + take) - b
  /\ SubSeq(disk, b + 1, c) \o SubSeq(SubSeq(disk, c + 1, w), 1, take) = SubSeq(disk, b + 1, c + take)
  /\ SubSeq(SubSeq(disk, c + 1, w), take + 1, w - c) = SubSeq(disk, (c + take) + 1, w)

LEMMA TakenFromTheChunk ==
  ASSUME NEW disk \in Seq(Int), NEW b, NEW c, NEW w, NEW take, Within(disk, b, c, w, take)
  PROVE  Taking(disk, b, c, w, take)
<1> DEFINE chunk == SubSeq(disk, c + 1, w)
           kept  == SubSeq(disk, b + 1, c)
           head  == SubSeq(chunk, 1, take)
           filled == SubSeq(disk, b + 1, c + take)
           left  == SubSeq(chunk, take + 1, w - c)
           rest  == SubSeq(disk, (c + take) + 1, w)
           l     == Len(disk)
<1>0. l \in Nat /\ l = Len(disk)
  OBVIOUS
<1> b \in Nat /\ c \in Nat /\ w \in Nat /\ b <= c /\ c <= w /\ w <= Len(disk) /\ take \in 0 .. w - c
  BY DEF Within
<1> DEFINE past == c + take
<1>10. past \in Nat /\ c <= past /\ past <= w /\ b <= past /\ past <= l /\ c <= l
  BY <1>0
<1>1. chunk \in Seq(Int) /\ Len(chunk) = w - c /\ \A i \in 1 .. w - c : chunk[i] = disk[c + i]
  BY PieceIs
<1>2. kept \in Seq(Int) /\ Len(kept) = c - b /\ \A i \in 1 .. c - b : kept[i] = disk[b + i]
  BY <1>10, PieceIs
<1>3. filled \in Seq(Int) /\ Len(filled) = (c + take) - b /\ \A i \in 1 .. (c + take) - b : filled[i] = disk[b + i]
  <2> HIDE DEF past
  <2>1. /\ SubSeq(disk, b + 1, past) \in Seq(Int) /\ Len(SubSeq(disk, b + 1, past)) = past - b
        /\ \A i \in 1 .. past - b : SubSeq(disk, b + 1, past)[i] = disk[b + i]
    BY <1>10, PieceIs
  <2> QED BY <2>1 DEF past
<1>4. rest \in Seq(Int) /\ Len(rest) = w - (c + take) /\ \A i \in 1 .. w - (c + take) : rest[i] = disk[(c + take) + i]
  <2> HIDE DEF past
  <2>1. /\ SubSeq(disk, past + 1, w) \in Seq(Int) /\ Len(SubSeq(disk, past + 1, w)) = w - past
        /\ \A i \in 1 .. w - past : SubSeq(disk, past + 1, w)[i] = disk[past + i]
    BY <1>10, PieceIs
  <2> QED BY <2>1 DEF past
<1> HIDE DEF chunk, kept, filled, rest
<1>5. head \in Seq(Int) /\ Len(head) = take /\ \A i \in 1 .. take : head[i] = chunk[i]
  <2>1. 0 \in Nat /\ take \in Nat /\ 0 <= take /\ take <= Len(chunk)
    BY <1>1
  <2>2. /\ SubSeq(chunk, 0 + 1, take) \in Seq(Int) /\ Len(SubSeq(chunk, 0 + 1, take)) = take - 0
        /\ \A i \in 1 .. take - 0 : SubSeq(chunk, 0 + 1, take)[i] = chunk[0 + i]
    BY <1>1, <2>1, PieceIs
  <2>3. 0 + 1 = 1 /\ take - 0 = take /\ \A i \in 1 .. take : 0 + i = i
    BY <2>1
  <2> QED BY <2>2, <2>3
<1>6. left \in Seq(Int) /\ Len(left) = w - (c + take) /\ \A i \in 1 .. w - (c + take) : left[i] = chunk[take + i]
  <2>1. take \in Nat /\ w - c \in Nat /\ take <= w - c /\ w - c <= Len(chunk) /\ (w - c) - take = w - (c + take)
    BY <1>1
  <2>2. /\ left \in Seq(Int) /\ Len(left) = (w - c) - take
        /\ \A i \in 1 .. (w - c) - take : left[i] = chunk[take + i]
    BY <1>1, <2>1, PieceIs
  <2> QED BY <2>1, <2>2
<1> HIDE DEF head, left
<1> DEFINE n == c - b
<1>9. n \in Nat /\ c = b + n /\ Len(kept) = n /\ Len(filled) = n + take
  BY <1>2, <1>3
<1> HIDE DEF n
<1>7. kept \o head = filled
  <2>1. kept \o head \in Seq(Int) /\ Len(kept \o head) = n + take
    <3>1. kept \o head \in Seq(Int) /\ Len(kept \o head) = Len(kept) + Len(head)
      BY <1>2, <1>5, ConcatProperties, Zenon
    <3> QED BY <3>1, <1>5, <1>9
  <2>2. \A i \in 1 .. n + take : (kept \o head)[i] = IF i <= n THEN kept[i] ELSE head[i - n]
    <3>1. \A i \in 1 .. Len(kept) + Len(head) :
            (kept \o head)[i] = IF i <= Len(kept) THEN kept[i] ELSE head[i - Len(kept)]
      BY <1>2, <1>5, ConcatProperties, Zenon
    <3> QED BY <3>1, <1>5, <1>9
  <2>3. ASSUME NEW i \in 1 .. n + take PROVE (kept \o head)[i] = filled[i]
    <3>0. i \in 1 .. (c + take) - b /\ filled[i] = disk[b + i]
      BY <1>3, <1>9
    <3>1. CASE i <= n
      <4>1. i \in 1 .. c - b
        BY <3>1, <1>9
      <4> QED BY <3>0, <3>1, <4>1, <2>2, <1>2
    <3>2. CASE ~(i <= n)
      <4>1. PICK d \in 1 .. take : d = i - n
        BY <3>2, <1>9
      <4>2. d \in 1 .. w - c /\ c + d = b + i
        BY <4>1, <1>9
      <4>3. (kept \o head)[i] = head[d]
        BY <3>2, <4>1, <2>2
      <4> QED BY <3>0, <4>1, <4>2, <4>3, <1>5, <1>1
    <3> QED BY <3>1, <3>2
  <2> QED BY <2>1, <2>3, <1>3, <1>9, SeqEqual
<1>8. left = rest
  <2>1. ASSUME NEW i \in 1 .. w - (c + take) PROVE left[i] = rest[i]
    <3>1. take + i \in 1 .. w - c /\ c + (take + i) = (c + take) + i
      OBVIOUS
    <3> QED BY <3>1, <1>6, <1>1, <1>4
  <2> QED BY <2>1, <1>6, <1>4, SeqEqual
<1> QED BY <1>1, <1>2, <1>3, <1>7, <1>8 DEF Taking, chunk, kept, filled, head, left, rest

(* A slice of a file, full or its last. *)
EndsSlice(disk, size, k, b, e) ==
  /\ k \in Nat /\ e \in Nat /\ b = k * size /\ Len(disk) \in Nat
  /\ e <= b + size /\ e <= Len(disk) /\ (e = b + size \/ e = Len(disk))

LEMMA SliceIs ==
  ASSUME NEW disk, NEW size \in Nat \ {0}, NEW k, NEW e, NEW b, EndsSlice(disk, size, k, b, e)
  PROVE  SliceAt(disk, size, k) = Padded(SubSeq(disk, b + 1, e), size)
<1> /\ k \in Nat /\ e \in Nat /\ b = k * size /\ Len(disk) \in Nat
    /\ e <= b + size /\ e <= Len(disk) /\ (e = b + size \/ e = Len(disk))
  BY DEF EndsSlice
<1>1. k * size \in Nat /\ (k + 1) * size = k * size + size
  BY Multiples
<1>2. (IF (k + 1) * size < Len(disk) THEN (k + 1) * size ELSE Len(disk)) = e
  BY <1>1
<1> QED BY <1>2 DEF SliceAt

Add(slices, n, d, s, size) ==
  IF n < Len(slices) /\ slices[n + 1] # Padded(s, size) THEN d \cup {n} ELSE d

LEMMA DamageGrows ==
  ASSUME NEW slices, NEW disk, NEW size, NEW s, Len(slices) \in Nat, NEW n \in Nat, NEW d,
         d = Damage(slices, disk, size, n), SliceAt(disk, size, n) = Padded(s, size)
  PROVE  Add(slices, n, d, s, size) = Damage(slices, disk, size, n + 1)
<1> DEFINE D(k) == k < Len(slices) /\ slices[k + 1] # SliceAt(disk, size, k)
<1>1. d = {k \in 0 .. n - 1 : D(k)}
  BY DEF Damage
<1>2. Damage(slices, disk, size, n + 1) = {k \in 0 .. (n + 1) - 1 : D(k)}
  BY DEF Damage
<1>3. Add(slices, n, d, s, size) = IF D(n) THEN d \cup {n} ELSE d
  BY DEF Add
<1> HIDE DEF D
<1>4. \A k : k \in 0 .. (n + 1) - 1 <=> k \in 0 .. n - 1 \/ k = n
  OBVIOUS
<1> QED BY <1>1, <1>2, <1>3, <1>4

Taken(x, y, size) == IF size - y < x THEN size - y ELSE x

LEMMA TakenFits ==
  ASSUME NEW b \in Nat, NEW c \in Nat, NEW w \in Nat, NEW size \in Nat \ {0}, b <= c, c <= w, c < b + size,
         NEW take, take = Taken(w - c, c - b, size), NEW d, d = c + take
  PROVE  /\ take \in 0 .. w - c /\ d \in Nat /\ d <= w /\ b <= d /\ d <= b + size
         /\ d - b = size => d = b + size
         /\ d - b # size => d < b + size
  BY DEF Taken

LEMMA CopyKeepsHashed ==
  ASSUME NEW disk \in Seq(Int), NEW slices, Len(slices) \in Nat, NEW size \in Nat \ {0},
         NEW w, NEW c, NEW wh, NEW pe, NEW sl, NEW da,
         Hashed(slices, disk, size, w, c, wh, pe, sl, da),
         NEW take, take = Taken(Len(pe), Len(sl), size)
  PROVE  LET left == SubSeq(pe, take + 1, Len(pe))
             filled == sl \o SubSeq(pe, 1, take)
         IN IF Len(filled) = size
              THEN Hashed(slices, disk, size, w, c + take, wh, left, <<>>, ClosedBy(slices, size, da, filled))
              ELSE Hashed(slices, disk, size, w, c + take, wh, left, filled, da)
<1> DEFINE l == Len(disk)
           n == da.index
           damage == da.slices
           b == n * size
           d == c + take
           left == SubSeq(pe, take + 1, Len(pe))
           filled == sl \o SubSeq(pe, 1, take)
           closed == ClosedBy(slices, size, da, filled)
<1>1. /\ l \in Nat /\ w \in Nat /\ c \in Nat /\ w <= l /\ c <= w
      /\ wh = SubSeq(disk, 1, w) /\ pe = SubSeq(disk, c + 1, w)
      /\ n \in Nat /\ b <= c /\ c < b + size /\ sl = SubSeq(disk, b + 1, c)
      /\ damage = Damage(slices, disk, size, n)
  <2>1. l \in Nat /\ w \in 0 .. l /\ c \in 0 .. w
    BY DEF Hashed
  <2>2. w \in Nat /\ c \in Nat /\ w <= l /\ c <= w
    BY <2>1
  <2> QED BY <2>1, <2>2 DEF Hashed
<1>2. b \in Nat /\ (n + 1) * size = b + size
  BY <1>1, Multiples
<1> HIDE DEF n, b, damage, left, filled, closed
<1>3. Len(pe) = w - c /\ Len(sl) = c - b
  <2>1. Within(disk, b, c, w, 0)
    BY <1>1, <1>2 DEF Within
  <2>2. Taking(disk, b, c, w, 0)
    BY <2>1, TakenFromTheChunk
  <2> QED BY <1>1, <2>2 DEF Taking
<1>4. take = Taken(w - c, c - b, size)
  BY <1>3
<1>5. /\ take \in 0 .. w - c /\ d \in Nat /\ d <= w /\ b <= d /\ d <= b + size
      /\ d - b = size => d = b + size
      /\ d - b # size => d < b + size
  BY <1>1, <1>2, <1>4, TakenFits
<1>6. left = SubSeq(disk, d + 1, w) /\ filled = SubSeq(disk, b + 1, d) /\ Len(filled) = d - b
  <2>1. /\ SubSeq(disk, b + 1, c) \o SubSeq(SubSeq(disk, c + 1, w), 1, take) = SubSeq(disk, b + 1, d)
        /\ SubSeq(SubSeq(disk, c + 1, w), take + 1, w - c) = SubSeq(disk, d + 1, w)
        /\ Len(SubSeq(disk, b + 1, d)) = d - b
    <3>1. Within(disk, b, c, w, take)
      BY <1>1, <1>2, <1>5 DEF Within
    <3>2. Taking(disk, b, c, w, take)
      BY <3>1, TakenFromTheChunk
    <3> QED BY <3>2 DEF Taking
  <2> QED BY <1>1, <1>3, <2>1 DEF left, filled
<1> HIDE DEF d
<1>7. CASE Len(filled) = size
  <2>1. d = b + size
    BY <1>7, <1>6, <1>5
  <2>2. SliceAt(disk, size, n) = Padded(filled, size)
    <3>1. d <= b + size /\ d <= Len(disk)
      BY <2>1, <1>5, <1>1
    <3>2. b = n * size
      BY DEF b
    <3>3. EndsSlice(disk, size, n, b, d)
      BY <2>1, <3>1, <3>2, <1>1, <1>5 DEF EndsSlice
    <3> QED BY <3>3, <1>6, SliceIs
  <2>3. closed.index = n + 1 /\ closed.slices = Damage(slices, disk, size, n + 1)
    <3>1. closed.index = n + 1 /\ closed.slices = Add(slices, n, damage, filled, size)
      BY DEF closed, ClosedBy, Add, n, damage
    <3> QED BY <2>2, <3>1, <1>1, DamageGrows
  <2>4. <<>> = SubSeq(disk, d + 1, d) /\ (n + 1) * size = d
    BY <2>1, <1>2, <1>5
  <2>5. Hashed(slices, disk, size, w, d, wh, left, <<>>, closed)
    <3>1. d <= d /\ d < d + size /\ n + 1 \in Nat /\ w \in 0 .. Len(disk) /\ d \in 0 .. w
      BY <2>1, <1>1, <1>2, <1>5
    <3>2. <<>> = SubSeq(disk, (n + 1) * size + 1, d) /\ (n + 1) * size <= d /\ d < (n + 1) * size + size
      BY <2>4, <3>1
    <3> HIDE DEF l
    <3> QED BY <3>1, <3>2, <2>3, <1>1, <1>6 DEF Hashed
  <2> QED BY <1>7, <2>5 DEF d, left, filled, closed
<1>8. CASE Len(filled) # size
  <2>1. d < b + size
    BY <1>8, <1>6, <1>5
  <2>2. w \in 0 .. Len(disk) /\ d \in 0 .. w
    BY <1>1, <1>5
  <2>3. Hashed(slices, disk, size, w, d, wh, left, filled, da)
    BY <2>1, <2>2, <1>1, <1>5, <1>6 DEF Hashed, n, b, damage
  <2> QED BY <1>8, <2>3 DEF d, left, filled
<1> QED BY <1>7, <1>8

Differing(slices, disk, posted, size) ==
  {k \in 0 .. Len(slices) - 1 : Reaches(disk, size, k) /\ SliceAt(disk, size, k) # SliceAt(posted, size, k)}

(* How many slices there are once the last is closed.                        *)
LastClosed(n, size, b, l, last) ==
  /\ n \in Nat /\ b = n * size /\ l \in Nat /\ b <= l /\ l < b + size
  /\ last = IF b # l \/ n = 0 THEN n + 1 ELSE n

LEMMA SlicesReached ==
  ASSUME NEW n, NEW size \in Nat \ {0}, NEW b, NEW l, NEW last, LastClosed(n, size, b, l, last)
  PROVE  \A k \in Nat : k < last <=> (k = 0 \/ k * size < l)
<1> /\ n \in Nat /\ b = n * size /\ l \in Nat /\ b <= l /\ l < b + size
    /\ last = IF b # l \/ n = 0 THEN n + 1 ELSE n
  BY DEF LastClosed
<1> SUFFICES ASSUME NEW k \in Nat PROVE k < last <=> (k = 0 \/ k * size < l)
  OBVIOUS
<1> DEFINE x == k * size
<1>1. /\ k <= n => x <= b
      /\ n < k => b + size <= x
      /\ k < n => x + size <= b
      /\ k = n => x = b
      /\ x \in Nat /\ b \in Nat /\ (n = 0 => b = 0) /\ (k = 0 => x = 0)
  BY Multiples
<1> HIDE DEF x
<1>2. k < last <=> (k = 0 \/ x < l)
  <2>1. CASE b # l \/ n = 0
    BY <2>1, <1>1
  <2>2. CASE b = l /\ n # 0
    <3>1. last = n
      BY <2>2
    <3>2. CASE k < n
      BY <3>1, <3>2, <2>2, <1>1
    <3>3. CASE ~(k < n)
      BY <3>1, <3>3, <2>2, <1>1
    <3> QED BY <3>2, <3>3
  <2> QED BY <2>1, <2>2
<1> QED BY <1>2 DEF x

(* What is damaged once the last slice is closed.                            *)
LEMMA LastSlice ==
  ASSUME NEW disk \in Seq(Int), NEW posted, NEW slices, Len(slices) \in Nat,
         DOMAIN slices = 1 .. Len(slices), NEW size \in Nat \ {0},
         Cover(slices, posted, size),
         NEW w, NEW c, NEW wh, NEW sl, NEW da,
         Hashed(slices, disk, size, w, c, wh, <<>>, sl, da), Len(wh) = Len(disk)
  PROVE  LET closed == IF sl # <<>> \/ da.index = 0 THEN ClosedBy(slices, size, da, sl) ELSE da
         IN wh = disk /\ closed.slices = Differing(slices, disk, posted, size)
<1> DEFINE l == Len(disk)
           n == da.index
           damage == da.slices
           b == n * size
           m == Len(slices)
           closed == IF sl # <<>> \/ n = 0 THEN ClosedBy(slices, size, da, sl) ELSE da
<1>1. /\ l \in Nat /\ w \in Nat /\ c \in Nat /\ w <= l /\ c <= w
      /\ wh = SubSeq(disk, 1, w) /\ <<>> = SubSeq(disk, c + 1, w)
      /\ n \in Nat /\ b <= c /\ c < b + size /\ sl = SubSeq(disk, b + 1, c)
      /\ damage = Damage(slices, disk, size, n)
  <2>1. l \in Nat /\ w \in 0 .. l /\ c \in 0 .. w
    BY DEF Hashed
  <2>2. w \in Nat /\ c \in Nat /\ w <= l /\ c <= w
    BY <2>1
  <2> QED BY <2>1, <2>2 DEF Hashed
<1>2. b \in Nat /\ (n + 1) * size = b + size
  BY <1>1, Multiples
<1> HIDE DEF n, b, damage
<1>3. w = l /\ c = l /\ wh = disk
  <2>1. Len(SubSeq(disk, 0 + 1, w)) = w - 0
    <3>1. Within(disk, 0, w, w, 0)
      BY <1>1 DEF Within
    <3>2. Taking(disk, 0, w, w, 0)
      BY <3>1, TakenFromTheChunk
    <3> QED BY <3>2 DEF Taking
  <2>2. Len(SubSeq(disk, c + 1, w)) = w - c
    <3>1. Within(disk, c, c, w, 0)
      BY <1>1 DEF Within
    <3>2. Taking(disk, c, c, w, 0)
      BY <3>1, TakenFromTheChunk
    <3> QED BY <3>2 DEF Taking
  <2>3. w = l
    <3>1. Len(SubSeq(disk, 1, w)) = w
      <4>1. 0 + 1 = 1 /\ w - 0 = w
        BY <1>1
      <4> QED BY <2>1, <4>1
    <3>2. Len(SubSeq(disk, 1, w)) = l
      BY <1>1
    <3> QED BY <3>1, <3>2
  <2>4. c = w
    <3>1. Len(SubSeq(disk, c + 1, w)) = 0
      <4>1. Len(<<>>) = 0
        OBVIOUS
      <4> QED BY <4>1, <1>1, Zenon
    <3> QED BY <3>1, <2>2, <1>1
  <2>5. SubSeq(disk, 1, Len(disk)) = disk
    OBVIOUS
  <2> QED BY <2>3, <2>4, <2>5, <1>1
<1>4. sl = SubSeq(disk, b + 1, l) /\ (sl = <<>> <=> b = l) /\ b <= l /\ l < b + size
  <2>1. Len(SubSeq(disk, b + 1, c)) = c - b
    <3>1. Within(disk, b, c, c, 0)
      BY <1>1, <1>2 DEF Within
    <3>2. Taking(disk, b, c, c, 0)
      BY <3>1, TakenFromTheChunk
    <3> QED BY <3>2 DEF Taking
  <2>2. sl \in Seq(Int) /\ Len(sl) = c - b
    BY <2>1, <1>1, <1>2
  <2>3. sl = <<>> <=> Len(sl) = 0
    BY <2>2, EmptySeq
  <2>4. c - b = 0 <=> b = l
    BY <1>1, <1>2, <1>3
  <2> QED BY <2>2, <2>3, <2>4, <1>1, <1>3
<1> DEFINE last == IF b # l \/ n = 0 THEN n + 1 ELSE n
<1>5. last \in Nat
  BY <1>1
<1>6. closed.slices = Damage(slices, disk, size, last)
  <2>1. CASE b # l \/ n = 0
    <3>1. SliceAt(disk, size, n) = Padded(sl, size)
      <4>1. l <= b + size /\ l <= Len(disk) /\ l = Len(disk)
        BY <1>1, <1>2, <1>4
      <4>2. b = n * size
        BY DEF b
      <4>3. EndsSlice(disk, size, n, b, l)
        BY <4>1, <4>2, <1>1 DEF EndsSlice
      <4> HIDE DEF l
      <4> QED BY <4>3, <1>4, SliceIs
    <3>2. Add(slices, n, damage, sl, size) = Damage(slices, disk, size, n + 1)
      BY <3>1, <1>1, DamageGrows
    <3>3. closed.slices = Add(slices, n, damage, sl, size)
      BY <2>1, <1>4 DEF ClosedBy, Add, n, damage
    <3> QED BY <2>1, <3>2, <3>3
  <2>2. CASE b = l /\ n # 0
    BY <2>2, <1>1, <1>4 DEF damage
  <2> QED BY <2>1, <2>2
<1>7. \A k \in Nat : k < last <=> Reaches(disk, size, k)
  <2>1. b = n * size
    BY DEF b
  <2>2. \A k \in Nat : k < last <=> (k = 0 \/ k * size < l)
    <3>1. LastClosed(n, size, b, l, last)
      BY <2>1, <1>1, <1>4 DEF LastClosed
    <3> HIDE DEF l, last
    <3> QED BY <3>1, SlicesReached
  <2> QED BY <2>2 DEF Reaches
<1> HIDE DEF last, closed
<1>9. \A k \in 0 .. m - 1 : slices[k + 1] = SliceAt(posted, size, k)
  <2>1. ASSUME NEW k \in 0 .. m - 1 PROVE slices[k + 1] = SliceAt(posted, size, k)
    <3>1. k + 1 \in DOMAIN slices /\ (k + 1) - 1 = k /\ slices # <<>>
      OBVIOUS
    <3>2. \A i \in DOMAIN slices : slices[i] = SliceAt(posted, size, i - 1)
      BY <3>1 DEF Cover
    <3> QED BY <3>1, <3>2
  <2> QED BY <2>1
<1>10. Damage(slices, disk, size, last) = Differing(slices, disk, posted, size)
  <2>1. \A k : k \in 0 .. last - 1 /\ k < m <=> k \in 0 .. m - 1 /\ k < last
    BY <1>5
  <2>2. \A k \in 0 .. m - 1 : k \in Nat
    OBVIOUS
  <2>3. \A k : k \in Damage(slices, disk, size, last)
                 <=> k \in 0 .. m - 1 /\ k < last /\ slices[k + 1] # SliceAt(disk, size, k)
    BY <2>1 DEF Damage
  <2> QED BY <2>2, <2>3, <1>7, <1>9 DEF Differing
<1> QED BY <1>3, <1>6, <1>10 DEF closed, n

-----------------------------------------------------------------------------
(* The invariant, action by action.                                          *)

(* What VerdictIsTheBytes says of one file.                                  *)
Judged(s, r, i, res) ==
  LET f == s.files[i] IN
    IF r.disk[f.id] = Unreadable THEN res.state = "absent"
    ELSE /\ res.state = "ok" <=> r.disk[f.id] = r.posted[f.id]
         /\ Cover(f.slices, r.posted[f.id], s.sliceSize)
         /\ res.damaged = Differing(f.slices, r.disk[f.id], r.posted[f.id], s.sliceSize)

Hashing(s, r, i, wh, pe, sl, da) ==
  LET f == s.files[i] IN
    /\ r.disk[f.id] # Unreadable
    /\ \E w, c : Hashed(f.slices, r.disk[f.id], s.sliceSize, w, c, wh, pe, sl, da)

Verdict == [state : {"absent", "ok", "bad"}, damaged : SUBSET Nat]

Checked ==
  /\ Describes(set, release) /\ results \in Seq(Verdict)
  /\ row = IF step = "hashing" THEN Len(results) + 1 ELSE Len(results)
  /\ row \in 0 .. Len(set.files)
  /\ \A i \in 1 .. Len(results) : Judged(set, release, i, results[i])
  /\ step = "hashing" => Hashing(set, release, row, whole, pending, slice, damaged)

(* Until the volumes held a set nothing is judged; from then on packets are  *)
(* what survived in them, the set is read of those, and each verdict is true.*)
Par2Inv ==
  \/ step = "idle" /\ volumes = <<>> /\ tried = 0 /\ packets = <<>> /\ row = 0 /\ results = <<>>
  \/ /\ release \in Releases
     /\ tried \in 0 .. Len(release.volumes)
     /\ volumes \in Seq(ToSet(release.volumes)) /\ Len(volumes) <= tried
     /\ \/ step \in {"fetching", "refused"} /\ packets = Gathered(volumes) /\ row = 0 /\ results = <<>>
        \/ step = "scanning" /\ ScanStands(volumes, at, packets) /\ row = 0 /\ results = <<>>
        \/ step \in {"choosing", "hashing", "verified", "damaged"} /\ packets = Gathered(volumes) /\ Checked

LEMMA NoneGathered == Gathered(<<>>) = <<>>
<1> DEFINE none == [j \in DOMAIN <<>> |-> <<>>[j].survivors]
<1>1. DOMAIN <<>> = {} /\ Gathered(<<>>) = FlattenSeq(none)
  BY DEF Gathered
<1>2. none = <<>>
  BY <1>1
<1> HIDE DEF none
<1> QED BY <1>1, <1>2 DEF FlattenSeq

LEMMA VolumesAre ==
  ASSUME release \in Releases
  PROVE  release.volumes \in Seq(ToSet(release.volumes)) /\ Len(release.volumes) \in Nat
<1>1. release.volumes \in Seq(ToSet(release.volumes))
  BY VolumesAssumption
<1> QED BY <1>1

LEMMA StartsToFetch == ASSUME Par2Inv, VerifyCommand PROVE Par2Inv'
<1>1. /\ volumes' = <<>> /\ tried' = 0 /\ packets' = <<>> /\ row' = 0 /\ results' = <<>>
      /\ release' \in Releases /\ step' = "fetching"
  BY DEF Par2Inv, VerifyCommand, verifier
<1>2. release'.volumes \in Seq(ToSet(release'.volumes))
  BY <1>1, VolumesAssumption
<1>3. tried' \in 0 .. Len(release'.volumes) /\ volumes' \in Seq(ToSet(release'.volumes)) /\ Len(volumes') <= tried'
  BY <1>1, <1>2
<1> QED BY <1>1, <1>3, NoneGathered DEF Par2Inv

LEMMA VolumeFetched == ASSUME Par2Inv, FetchVolume PROVE Par2Inv'
<1> DEFINE v == release.volumes[tried + 1]
           vs == Append(volumes, v)
           X == ToSet(release.volumes)
<1>1. /\ release \in Releases /\ tried \in 0 .. Len(release.volumes) /\ volumes \in Seq(X) /\ Len(volumes) <= tried
      /\ packets = Gathered(volumes) /\ row = 0 /\ results = <<>> /\ step = "fetching"
  BY DEF Par2Inv, FetchVolume, Checked
<1>2. /\ tried < Len(release.volumes) /\ tried' = tried + 1 /\ release' = release /\ row' = row /\ results' = results
  BY DEF FetchVolume, verifier
<1>3. tried' \in 0 .. Len(release.volumes) /\ tried + 1 \in DOMAIN release.volumes
  BY <1>1, <1>2, VolumesAre
<1>4. v \in X
  BY <1>3 DEF ToSet
<1>5. CASE v.lost
  <2>1. step' = "fetching" /\ volumes' = volumes /\ packets' = packets
    BY <1>1, <1>5 DEF FetchVolume
  <2>2. Len(volumes) <= tried'
    BY <1>1, <1>2
  <2> QED BY <2>1, <2>2, <1>1, <1>2, <1>3 DEF Par2Inv
<1>6. CASE ~v.lost
  <2>1. step' = "scanning" /\ volumes' = vs /\ packets' = <<>> /\ at' = <<1, 1>>
    BY <1>6 DEF FetchVolume
  <2> HIDE DEF v, X
  <2>2. vs \in Seq(X) /\ Len(vs) = Len(volumes) + 1
    BY <1>1, <1>4
  <2>3. Len(vs) <= tried' /\ Len(vs) # 0
    BY <2>2, <1>1, <1>2
  <2> HIDE DEF vs
  <2>4. ScanStands(vs, <<1, 1>>, <<>>)
    BY <2>2, <2>3, <1>1, ScanStarts DEF X
  <2>5. ScanStands(volumes', at', packets')
    BY <2>1, <2>4
  <2>6. (ScanStands(volumes, at, packets))'
    BY <2>5, <1>2 DEF ScanStands, ScannedTo, AllScanned, Flat
  <2> QED BY <2>1, <2>2, <2>3, <2>6, <1>1, <1>2, <1>3 DEF Par2Inv, X
<1> QED BY <1>5, <1>6

LEMMA ScanStepped == ASSUME Par2Inv, Scan PROVE Par2Inv'
<1>1. /\ release \in Releases /\ tried \in 0 .. Len(release.volumes)
      /\ volumes \in Seq(ToSet(release.volumes)) /\ Len(volumes) <= tried
      /\ step = "scanning" /\ ScanStands(volumes, at, packets) /\ row = 0 /\ results = <<>>
  BY DEF Par2Inv, Scan
<1>2. /\ release' = release /\ step' = step /\ volumes' = volumes /\ tried' = tried
      /\ row' = row /\ results' = results
  BY DEF Scan
<1>3. ScanStands(volumes, at', packets')
  BY <1>1, ScanKeeps
<1>4. (ScanStands(volumes, at, packets))'
  BY <1>2, <1>3 DEF ScanStands, ScannedTo, AllScanned, Flat
<1> QED BY <1>1, <1>2, <1>4 DEF Par2Inv

LEMMA SetParsed == ASSUME Par2Inv, Parse PROVE Par2Inv'
<1> DEFINE X == ToSet(release.volumes)
<1>1. /\ release \in Releases /\ tried \in 0 .. Len(release.volumes)
      /\ volumes \in Seq(X) /\ Len(volumes) <= tried
      /\ step = "scanning" /\ ScanStands(volumes, at, packets) /\ row = 0 /\ results = <<>>
  BY DEF Par2Inv, Parse
<1>2. /\ release' = release /\ volumes' = volumes /\ tried' = tried /\ packets' = packets
      /\ row' = row /\ results' = results /\ set' = ParsePar2(packets)
      /\ step' = IF set' = Unreadable THEN "fetching" ELSE "choosing"
  BY DEF Parse
<1>3. at[1] > Len(volumes)
  BY DEF Parse
<1>4. packets = Gathered(volumes)
  BY <1>1, <1>3, ScanEnds
<1>5. CASE set' = Unreadable
  BY <1>1, <1>2, <1>4, <1>5 DEF Par2Inv
<1>6. CASE set' # Unreadable
  <2>1. step' = "choosing"
    BY <1>2, <1>6
  <2>2. volumes \in [1 .. Len(volumes) -> X] /\ Len(volumes) \in 0 .. Len(release.volumes)
    <3>1. Len(release.volumes) \in Nat
      BY <1>1, VolumesAre
    <3> HIDE DEF X
    <3>2. volumes \in [1 .. Len(volumes) -> X] /\ Len(volumes) \in Nat
      BY <1>1
    <3> QED BY <3>1, <3>2, <1>1
  <2>3. set' = ParsePar2(Gathered(volumes))
    BY <1>2, <1>4
  <2>4. Describes(set', release)
    <3>1. \A s : s = ParsePar2(Gathered(volumes)) => s = Unreadable \/ Describes(s, release)
      BY <1>1, <2>2, SetsAssumption
    <3> QED BY <3>1, <2>3, <1>6
  <2>5. /\ set'.files \in Seq(ToSet(set'.files))
    BY <2>4 DEF Describes
  <2>6. row' \in 0 .. Len(set'.files)
    BY <2>5, <1>1, <1>2
  <2>7. results' = <<>> /\ row' = 0 /\ results' \in Seq(Verdict) /\ Len(results') = 0
    BY <1>1, <1>2
  <2>8. Checked'
    BY <1>2, <2>1, <2>4, <2>6, <2>7 DEF Checked
  <2> QED BY <1>1, <1>2, <1>4, <2>1, <2>8 DEF Par2Inv
<1> QED BY <1>5, <1>6

(* The file that is checked.                                                 *)
FileFacts(s, r, f) ==
  /\ s.sliceSize \in Nat \ {0} /\ f.content = r.posted[f.id]
  /\ r.disk[f.id] = Unreadable \/ r.disk[f.id] \in Seq(Int)
  /\ Len(f.slices) \in Nat /\ DOMAIN f.slices = 1 .. Len(f.slices)
  /\ Cover(f.slices, r.posted[f.id], s.sliceSize)

LEMMA FileChecked ==
  ASSUME NEW s, NEW r, Describes(s, r), NEW i \in 1 .. Len(s.files)
  PROVE  FileFacts(s, r, s.files[i])
<1> DEFINE f == s.files[i]
<1>1. s.files \in Seq(ToSet(s.files)) /\ i \in DOMAIN s.files
  BY DEF Describes
<1>2. f \in ToSet(s.files)
  BY <1>1 DEF ToSet
<1> HIDE DEF f
<1>3. /\ f.content = r.posted[f.id]
      /\ r.disk[f.id] = Unreadable \/ r.disk[f.id] \in Seq(Int)
      /\ f.slices \in Seq(ToSet(f.slices)) /\ Cover(f.slices, f.content, s.sliceSize)
  BY <1>2 DEF Describes
<1>4. Len(f.slices) \in Nat /\ DOMAIN f.slices = 1 .. Len(f.slices)
  BY <1>3
<1>5. s.sliceSize \in Nat \ {0}
  BY DEF Describes
<1> QED BY <1>3, <1>4, <1>5 DEF f, FileFacts

(* One verdict more.                                                         *)
LEMMA VerdictAdded ==
  ASSUME NEW s, NEW r, results \in Seq(Verdict), NEW v \in Verdict,
         \A i \in 1 .. Len(results) : Judged(s, r, i, results[i]),
         Judged(s, r, Len(results) + 1, v)
  PROVE  /\ Append(results, v) \in Seq(Verdict) /\ Len(Append(results, v)) = Len(results) + 1
         /\ \A i \in 1 .. Len(results) + 1 : Judged(s, r, i, Append(results, v)[i])
<1> DEFINE more == Append(results, v)
<1>1. /\ more \in Seq(Verdict) /\ Len(more) = Len(results) + 1 /\ Len(results) \in Nat
      /\ \A i \in 1 .. Len(results) : more[i] = results[i]
      /\ more[Len(results) + 1] = v
  BY AppendProperties
<1> HIDE DEF more
<1>2. ASSUME NEW i \in 1 .. Len(results) + 1 PROVE Judged(s, r, i, more[i])
  <2>1. CASE i = Len(results) + 1
    BY <1>1, <2>1
  <2>2. CASE i # Len(results) + 1
    BY <1>1, <2>2
  <2> QED BY <2>1, <2>2
<1> QED BY <1>1, <1>2 DEF more

(* While files are checked.                                                  *)
Checking ==
  /\ release \in Releases /\ tried \in 0 .. Len(release.volumes)
  /\ volumes \in Seq(ToSet(release.volumes)) /\ Len(volumes) <= tried
  /\ packets = Gathered(volumes) /\ Checked

LEMMA ChecksOn ==
  ASSUME Checking, UNCHANGED <<release, volumes, tried, packets, set>>,
         step' \in {"choosing", "hashing", "verified", "damaged"},
         Checked'
  PROVE  Par2Inv'
BY DEF Checking, Par2Inv

LEMMA FileTaken == ASSUME Par2Inv, CheckNext PROVE Par2Inv'
<1>1. Checking /\ step = "choosing"
  BY DEF Par2Inv, CheckNext, Checking
<1>2. UNCHANGED <<release, volumes, tried, packets, set>>
  BY DEF CheckNext
<1>3. Describes(set, release) /\ Describes(set', release') /\ results \in Seq(Verdict) /\ row = Len(results)
  BY <1>1, <1>2 DEF Checking, Checked
<1>4. row' = row + 1 /\ row' \in 1 .. Len(set.files) /\ row' = Len(results) + 1 /\ Len(results) \in Nat
  <2>1. row \in 0 .. Len(set.files) /\ row < Len(set.files) /\ row' = row + 1 /\ Len(results) \in Nat
    BY <1>1, <1>3 DEF Checking, Checked, CheckNext
  <2>2. Len(set.files) \in Nat
    BY <1>3 DEF Describes
  <2> QED BY <2>1, <2>2, <1>3
<1> DEFINE f == set.files[row']
           disk == release.disk[f.id]
<1>5. /\ set.sliceSize \in Nat \ {0} /\ (disk = Unreadable \/ disk \in Seq(Int))
  <2>1. FileFacts(set, release, f)
    BY <1>3, <1>4, FileChecked
  <2> QED BY <2>1 DEF FileFacts
<1>6. CASE disk = Unreadable
  <2> DEFINE v == [state |-> "absent", damaged |-> {}]
  <2>1. step' = step /\ results' = Append(results, v)
    BY <1>4, <1>6 DEF CheckNext
  <2>2. v \in Verdict /\ Judged(set, release, Len(results) + 1, v)
    BY <1>4, <1>6 DEF Verdict, Judged
  <2> HIDE DEF v
  <2>3. \A i \in 1 .. Len(results) : Judged(set, release, i, results[i])
    BY <1>1 DEF Checking, Checked
  <2>4. /\ results' \in Seq(Verdict) /\ Len(results') = Len(results) + 1
        /\ \A i \in 1 .. Len(results) + 1 : Judged(set, release, i, results'[i])
    BY <1>3, <2>1, <2>2, <2>3, VerdictAdded
  <2>5. Checked'
    BY <1>1, <1>2, <1>3, <1>4, <2>1, <2>4 DEF Checked
  <2> QED BY <1>1, <1>2, <2>1, <2>5, ChecksOn
<1>7. CASE disk # Unreadable
  <2>1. /\ step' = "hashing" /\ results' = results
        /\ pending' = <<>> /\ whole' = <<>> /\ slice' = <<>> /\ damaged' = Fresh
    BY <1>4, <1>7 DEF CheckNext
  <2>2. disk \in Seq(Int)
    BY <1>5, <1>7
  <2> HIDE DEF disk
  <2>3. Hashed(f.slices, disk, set.sliceSize, 0, 0, <<>>, <<>>, <<>>, Fresh)
    <3>1. /\ Fresh.index = 0 /\ Fresh.slices = {} /\ Len(disk) \in Nat
          /\ <<>> = SubSeq(disk, 1, 0)
      BY <2>2 DEF Fresh
    <3>2. 0 * set.sliceSize = 0 /\ 0 < 0 + set.sliceSize /\ 0 + 1 = 1 /\ 0 \in 0 .. Len(disk) /\ 0 \in 0 .. 0
      BY <1>5, <3>1
    <3>3. Damage(f.slices, disk, set.sliceSize, 0) = {}
      BY DEF Damage
    <3> HIDE DEF f
    <3> QED BY <3>1, <3>2, <3>3 DEF Hashed
  <2>4. Hashing(set, release, row', <<>>, <<>>, <<>>, Fresh)
    BY <1>7, <2>3 DEF Hashing, disk
  <2>5. row' \in 0 .. Len(set.files)
    BY <1>4
  <2>6. Checked'
    BY <1>1, <1>2, <1>3, <1>4, <2>1, <2>4, <2>5 DEF Checked, Checking
  <2> QED BY <1>1, <1>2, <2>1, <2>6, ChecksOn
<1> QED BY <1>6, <1>7

(* What holds while a file is hashed.                                        *)
LEMMA WhileHashing ==
  ASSUME Checking, step = "hashing"
  PROVE  /\ Describes(set, release) /\ results \in Seq(Verdict) /\ row = Len(results) + 1
         /\ row \in 1 .. Len(set.files) /\ set.sliceSize \in Nat \ {0}
         /\ File.content = release.posted[File.id] /\ OnDisk # Unreadable /\ OnDisk \in Seq(Int)
         /\ Len(File.slices) \in Nat /\ DOMAIN File.slices = 1 .. Len(File.slices)
         /\ Cover(File.slices, release.posted[File.id], set.sliceSize)
         /\ \E w, c : Hashed(File.slices, OnDisk, set.sliceSize, w, c, whole, pending, slice, damaged)
<1>1. /\ Describes(set, release) /\ results \in Seq(Verdict) /\ row = Len(results) + 1
      /\ row \in 0 .. Len(set.files) /\ Hashing(set, release, row, whole, pending, slice, damaged)
  BY DEF Checking, Checked
<1>2. row \in 1 .. Len(set.files)
  <2>1. Len(results) \in Nat /\ Len(set.files) \in Nat
    BY <1>1 DEF Describes
  <2> QED BY <1>1, <2>1
<1>3. /\ OnDisk # Unreadable
      /\ \E w, c : Hashed(File.slices, OnDisk, set.sliceSize, w, c, whole, pending, slice, damaged)
  BY <1>1 DEF Hashing, File, OnDisk
<1>4. /\ set.sliceSize \in Nat \ {0} /\ File.content = release.posted[File.id]
      /\ (OnDisk = Unreadable \/ OnDisk \in Seq(Int))
      /\ Len(File.slices) \in Nat /\ DOMAIN File.slices = 1 .. Len(File.slices)
      /\ Cover(File.slices, release.posted[File.id], set.sliceSize)
  <2>1. FileFacts(set, release, File)
    BY <1>1, <1>2, FileChecked DEF File
  <2> QED BY <2>1 DEF FileFacts, OnDisk
<1> QED BY <1>1, <1>2, <1>3, <1>4

LEMMA HashingOn ==
  ASSUME Checking, step = "hashing", step' = step,
         UNCHANGED <<release, volumes, tried, packets, set, row, results>>, NEW w, NEW c,
         Hashed(File.slices, OnDisk, set.sliceSize, w, c, whole', pending', slice', damaged')
  PROVE  Par2Inv'
<1>1. Hashing(set, release, row, whole', pending', slice', damaged')
  BY WhileHashing DEF Hashing, File, OnDisk
<1>2. Checked'
  BY <1>1 DEF Checking, Checked
<1> QED BY <1>2, ChecksOn

LEMMA ChunkTaken == ASSUME Par2Inv, NEW n \in Nat \ {0}, Update(n) PROVE Par2Inv'
<1>1. Checking /\ step = "hashing"
  BY DEF Par2Inv, Update, Checking
<1>2. /\ step' = step /\ UNCHANGED <<release, volumes, tried, packets, set, row, results>>
      /\ slice' = slice /\ damaged' = damaged
      /\ pending = <<>> /\ Len(whole) + n <= Len(OnDisk)
      /\ pending' = SubSeq(OnDisk, Len(whole) + 1, Len(whole) + n)
      /\ whole' = whole \o pending'
  BY DEF Update
<1> DEFINE disk == OnDisk
           slices == File.slices
           size == set.sliceSize
<1>3. disk \in Seq(Int) /\ size \in Nat \ {0} /\ \E w, c : Hashed(slices, disk, size, w, c, whole, pending, slice, damaged)
  BY <1>1, WhileHashing
<1> HIDE DEF disk, slices, size
<1>4. PICK w, c : Hashed(slices, disk, size, w, c, whole, <<>>, slice, damaged)
  BY <1>3, <1>2
<1>5. /\ Len(disk) \in Nat /\ w \in 0 .. Len(disk) /\ c \in 0 .. w
      /\ whole = SubSeq(disk, 1, w) /\ SubSeq(disk, c + 1, w) = <<>>
  <2>1. Len(disk) \in Nat
    BY <1>3
  <2>2. /\ w \in 0 .. Len(disk) /\ c \in 0 .. w
        /\ whole = SubSeq(disk, 1, w) /\ <<>> = SubSeq(disk, c + 1, w)
    BY <1>4 DEF Hashed
  <2> QED BY <2>1, <2>2
<1>6. Len(whole) = w /\ c = w
  <2>1. Within(disk, c, w, w, 0) /\ Within(disk, 0, c, w, 0) /\ Within(disk, 0, w, w, 0)
    BY <1>5 DEF Within
  <2>2. Taking(disk, 0, c, w, 0) /\ Taking(disk, 0, w, w, 0)
    BY <1>3, <2>1, TakenFromTheChunk
  <2>3. Len(SubSeq(disk, c + 1, w)) = w - c /\ Len(SubSeq(disk, 0 + 1, w)) = w - 0
    BY <2>2 DEF Taking
  <2>4. 0 + 1 = 1 /\ w - 0 = w /\ Len(<<>>) = 0
    BY <1>5
  <2> QED BY <2>3, <2>4, <1>5
<1>7. w \in Nat /\ w + n \in 0 .. Len(disk) /\ w \in 0 .. w + n
  BY <1>2, <1>5, <1>6 DEF disk
<1>8. pending' = SubSeq(disk, w + 1, w + n)
  BY <1>2, <1>6 DEF disk
<1>9. whole' = SubSeq(disk, 1, w + n)
  <2>1. Within(disk, 0, w, w + n, n)
    BY <1>7 DEF Within
  <2>2. Taking(disk, 0, w, w + n, n)
    BY <1>3, <2>1, TakenFromTheChunk
  <2>3. /\ SubSeq(disk, 0 + 1, w) \o SubSeq(SubSeq(disk, w + 1, w + n), 1, n) = SubSeq(disk, 0 + 1, w + n)
        /\ Len(SubSeq(disk, w + 1, w + n)) = (w + n) - w
    BY <2>2 DEF Taking
  <2>4. 0 + 1 = 1 /\ (w + n) - w = n
    BY <1>7
  <2>5. pending' \in Seq(Int) /\ Len(pending') = n
    BY <2>3, <2>4, <1>3, <1>7, <1>8
  <2>6. SubSeq(pending', 1, n) = pending'
    BY <2>5
  <2> QED BY <2>3, <2>4, <2>6, <1>2, <1>5, <1>8
<1>10. Hashed(slices, disk, size, w + n, w, whole', pending', slice', damaged')
  BY <1>2, <1>4, <1>6, <1>7, <1>8, <1>9 DEF Hashed
<1> QED BY <1>1, <1>2, <1>10, HashingOn DEF disk, slices, size

LEMMA HashingLengths ==
  ASSUME Par2Inv, step = "hashing" PROVE Len(OnDisk) \in Nat /\ Len(whole) \in Nat
<1>1. Checking
  BY DEF Par2Inv, Checking
<1>2. OnDisk \in Seq(Int)
  BY <1>1, WhileHashing
<1>3. PICK w \in 0 .. Len(OnDisk) : whole = SubSeq(OnDisk, 1, w)
  BY <1>1, WhileHashing DEF Hashed
<1> QED BY <1>2, <1>3

LEMMA CloseIs == \A s : Close(s) = ClosedBy(File.slices, set.sliceSize, damaged, s)
BY DEF Close, ClosedBy

LEMMA BytesCopied == ASSUME Par2Inv, Copy PROVE Par2Inv'
<1>1. Checking /\ step = "hashing"
  BY DEF Par2Inv, Copy, Checking
<1> DEFINE disk == OnDisk
           slices == File.slices
           size == set.sliceSize
           take == Taken(Len(pending), Len(slice), size)
           filled == slice \o SubSeq(pending, 1, take)
           left == SubSeq(pending, take + 1, Len(pending))
           closed == ClosedBy(slices, size, damaged, filled)
<1>2. /\ step' = step /\ UNCHANGED <<release, volumes, tried, packets, set, row, results>>
      /\ whole' = whole /\ pending' = left
      /\ IF Len(filled) = size THEN slice' = <<>> /\ damaged' = closed
         ELSE slice' = filled /\ damaged' = damaged
  BY CloseIs DEF Copy, Taken
<1>3. /\ disk \in Seq(Int) /\ Len(slices) \in Nat /\ size \in Nat \ {0}
      /\ \E w, c : Hashed(slices, disk, size, w, c, whole, pending, slice, damaged)
  BY <1>1, WhileHashing
<1>4. PICK w, c : Hashed(slices, disk, size, w, c, whole, pending, slice, damaged)
  BY <1>3
<1> HIDE DEF disk, slices, size, take
<1>5. IF Len(filled) = size
        THEN Hashed(slices, disk, size, w, c + take, whole, left, <<>>, closed)
        ELSE Hashed(slices, disk, size, w, c + take, whole, left, filled, damaged)
  BY <1>3, <1>4, CopyKeepsHashed DEF take
<1> HIDE DEF filled, left, closed
<1>6. Hashed(slices, disk, size, w, c + take, whole', pending', slice', damaged')
  BY <1>2, <1>5
<1> QED BY <1>1, <1>2, <1>6, HashingOn DEF disk, slices, size

LEMMA FileFinished == ASSUME Par2Inv, Finish PROVE Par2Inv'
<1>1. Checking /\ step = "hashing"
  BY DEF Par2Inv, Finish, Checking
<1> DEFINE disk == OnDisk
           slices == File.slices
           size == set.sliceSize
           posted == release.posted[File.id]
           closed == IF slice # <<>> \/ damaged.index = 0 THEN ClosedBy(slices, size, damaged, slice)
                     ELSE damaged
           found == closed.slices
           state == IF whole = posted /\ found = {} THEN "ok" ELSE "bad"
           v == [state |-> state, damaged |-> found]
<1>2. /\ Describes(set, release) /\ results \in Seq(Verdict) /\ row = Len(results) + 1 /\ row \in 1 .. Len(set.files)
      /\ size \in Nat \ {0} /\ File.content = posted /\ disk # Unreadable /\ disk \in Seq(Int)
      /\ Len(slices) \in Nat /\ DOMAIN slices = 1 .. Len(slices) /\ Cover(slices, posted, size)
      /\ \E w, c : Hashed(slices, disk, size, w, c, whole, pending, slice, damaged)
  BY <1>1, WhileHashing
<1>3. /\ step' = "choosing" /\ UNCHANGED <<release, volumes, tried, packets, set, row>>
      /\ pending = <<>> /\ Len(whole) = Len(disk) /\ results' = Append(results, v)
  BY <1>2, CloseIs DEF Finish, verifier
<1> HIDE DEF disk, slices, size, posted
<1>4. PICK w, c : Hashed(slices, disk, size, w, c, whole, <<>>, slice, damaged)
  BY <1>2, <1>3
<1>5. whole = disk /\ found = Differing(slices, disk, posted, size)
  BY <1>2, <1>3, <1>4, LastSlice
<1> HIDE DEF found, closed
<1>6. found \in SUBSET Nat /\ (disk = posted => found = {})
  BY <1>2, <1>5 DEF Differing
<1>7. state \in {"ok", "bad"} /\ (state = "ok" <=> disk = posted)
  BY <1>5, <1>6
<1> HIDE DEF state
<1>8. v \in Verdict /\ v.state = state /\ v.damaged = found
  BY <1>6, <1>7 DEF Verdict
<1> HIDE DEF v
<1>9. Judged(set, release, row, v)
  BY <1>2, <1>5, <1>7, <1>8 DEF Judged, disk, slices, size, posted, File, OnDisk
<1>10. \A i \in 1 .. Len(results) : Judged(set, release, i, results[i])
  BY <1>1 DEF Checking, Checked
<1>11. /\ results' \in Seq(Verdict) /\ Len(results') = Len(results) + 1
       /\ \A i \in 1 .. Len(results) + 1 : Judged(set, release, i, results'[i])
  BY <1>2, <1>3, <1>8, <1>9, <1>10, VerdictAdded
<1>12. row \in 0 .. Len(set.files)
  BY <1>2
<1>13. Checked'
  BY <1>2, <1>3, <1>11, <1>12 DEF Checked
<1> QED BY <1>1, <1>3, <1>13, ChecksOn

LEMMA SetReported == ASSUME Par2Inv, Report PROVE Par2Inv'
<1>1. Checking /\ step = "choosing"
  BY DEF Par2Inv, Report, Checking
<1>2. /\ UNCHANGED <<release, volumes, tried, packets, set, row, results>>
      /\ step' \in {"verified", "damaged"}
  BY DEF Report
<1>3. Checked'
  BY <1>1, <1>2 DEF Checking, Checked
<1> QED BY <1>1, <1>2, <1>3, ChecksOn

LEMMA NoneLeft == ASSUME Par2Inv, NoVolumeLeft PROVE Par2Inv'
<1>1. /\ release \in Releases /\ tried \in 0 .. Len(release.volumes)
      /\ volumes \in Seq(ToSet(release.volumes)) /\ Len(volumes) <= tried
      /\ packets = Gathered(volumes) /\ row = 0 /\ results = <<>>
  BY DEF Par2Inv, NoVolumeLeft
<1>2. /\ UNCHANGED <<release, volumes, tried, packets, row, results>> /\ step' = "refused"
  BY DEF NoVolumeLeft
<1> QED BY <1>1, <1>2 DEF Par2Inv

LEMMA NothingRead == ASSUME Par2Inv, UNCHANGED par2Vars PROVE Par2Inv'
<1>1. /\ release' = release /\ step' = step /\ volumes' = volumes /\ tried' = tried /\ at' = at
      /\ packets' = packets /\ set' = set /\ row' = row /\ pending' = pending /\ whole' = whole
      /\ slice' = slice /\ damaged' = damaged /\ results' = results
  BY DEF par2Vars
<1>2. Checked => Checked'
  BY <1>1 DEF Checked
<1>3. ScanStands(volumes, at, packets) => (ScanStands(volumes, at, packets))'
  BY <1>1 DEF ScanStands, ScannedTo, AllScanned, Flat
<1> QED BY <1>1, <1>2, <1>3 DEF Par2Inv

LEMMA Par2InvHolds == Par2Spec => []Par2Inv
<1>1. Par2Init => Par2Inv
  BY DEF Par2Init, Par2Inv
<1>2. Par2Inv /\ [Par2Next]_par2Vars => Par2Inv'
  <2>1. ASSUME Par2Inv, Par2Next PROVE Par2Inv'
    <3>1. ASSUME step = "hashing", NEW n \in 1 .. Len(OnDisk) - Len(whole), Update(n) PROVE Par2Inv'
      <4>1. Len(OnDisk) \in Nat /\ Len(whole) \in Nat
        BY <2>1, <3>1, HashingLengths
      <4>2. n \in Nat \ {0}
        BY <4>1
      <4> QED BY <2>1, <3>1, <4>2, ChunkTaken
    <3> QED BY <2>1, <3>1, StartsToFetch, VolumeFetched, NoneLeft, ScanStepped, SetParsed, FileTaken,
               BytesCopied, FileFinished, SetReported DEF Par2Next
  <2> QED BY <2>1, NothingRead
<1> QED BY <1>1, <1>2, PTL DEF Par2Spec

(* A damaged or truncated volume still yields every packet that survived,    *)
(* and no packet that did not, whatever lengths its corrupted headers claim. *)
THEOREM SurvivorsAreAllFound == Par2Spec => []SurvivorsAreFound
<1>1. Par2Inv => SurvivorsAreFound
  BY DEF Par2Inv, SurvivorsAreFound
<1> QED BY <1>1, Par2InvHolds, PTL

(* However the chunks fall, a file is `ok` exactly if its bytes are those    *)
(* that were posted, and its damaged slices are those that differ.           *)
THEOREM VerdictIsTrue == Par2Spec => []VerdictIsTheBytes
<1>1. Par2Inv => VerdictIsTheBytes
  <2> SUFFICES ASSUME Par2Inv, NEW i \in DOMAIN results PROVE Judged(set, release, i, results[i])
    BY DEF VerdictIsTheBytes, Judged, Differing
  <2>1. results # <<>>
    OBVIOUS
  <2>2. Checked
    BY <2>1 DEF Par2Inv
  <2>3. i \in 1 .. Len(results)
    BY <2>2 DEF Checked
  <2> QED BY <2>2, <2>3 DEF Checked
<1> QED BY <1>1, Par2InvHolds, PTL

-----------------------------------------------------------------------------
(* The parser of NZBs: how the elements nest.                                *)

(* A tag takes the depth one up or down, anything else leaves it.            *)
LEMMA DepthMoves ==
  ASSUME NEW d, NEW n \in Nat
  PROVE  /\ DepthAfter(d, n) \in Int /\ DepthAfter(d, 0) = 0
         /\ Opens(d, n + 1) => DepthAfter(d, n + 1) = DepthAfter(d, n) + 1
         /\ Closes(d, n + 1) => DepthAfter(d, n + 1) = DepthAfter(d, n) - 1
         /\ ~Opens(d, n + 1) /\ ~Closes(d, n + 1) => DepthAfter(d, n + 1) = DepthAfter(d, n)
<1> DEFINE up(m) == {j \in 1 .. m : Opens(d, j)}
           down(m) == {j \in 1 .. m : Closes(d, j)}
<1>1. \A m \in Nat : IsFiniteSet(up(m)) /\ IsFiniteSet(down(m))
  <2>1. ASSUME NEW m \in Nat PROVE IsFiniteSet(up(m)) /\ IsFiniteSet(down(m))
    <3>1. IsFiniteSet(1 .. m)
      BY FS_Interval
    <3>2. up(m) \in SUBSET (1 .. m) /\ down(m) \in SUBSET (1 .. m)
      OBVIOUS
    <3> QED BY <3>1, <3>2, FS_Subset
  <2> QED BY <2>1
<1>2. \A m \in Nat : Cardinality(up(m)) \in Nat /\ Cardinality(down(m)) \in Nat
  BY <1>1, FS_CardinalityType
<1>3. up(0) = {} /\ down(0) = {} /\ Cardinality({}) = 0
  BY FS_EmptySet
<1>4. 1 .. n + 1 = (1 .. n) \cup {n + 1} /\ n + 1 \notin 1 .. n
  OBVIOUS
<1>5. /\ up(n + 1) = IF Opens(d, n + 1) THEN up(n) \cup {n + 1} ELSE up(n)
      /\ down(n + 1) = IF Closes(d, n + 1) THEN down(n) \cup {n + 1} ELSE down(n)
      /\ n + 1 \notin up(n) /\ n + 1 \notin down(n)
  BY <1>4
<1>6. ~(Opens(d, n + 1) /\ Closes(d, n + 1))
  BY DEF Opens, Closes
<1>7. \A m \in Nat : DepthAfter(d, m) = Cardinality(up(m)) - Cardinality(down(m))
  BY DEF DepthAfter
<1> HIDE DEF up, down
<1>8. /\ Cardinality(up(n + 1)) = IF Opens(d, n + 1) THEN Cardinality(up(n)) + 1 ELSE Cardinality(up(n))
      /\ Cardinality(down(n + 1)) = IF Closes(d, n + 1) THEN Cardinality(down(n)) + 1 ELSE Cardinality(down(n))
  BY <1>1, <1>5, FS_AddElement
<1> DEFINE U == Cardinality(up(n))
           D == Cardinality(down(n))
           V == Cardinality(up(n + 1))
           E == Cardinality(down(n + 1))
<1>9. /\ U \in Nat /\ D \in Nat /\ DepthAfter(d, n) = U - D /\ DepthAfter(d, n + 1) = V - E
      /\ V = IF Opens(d, n + 1) THEN U + 1 ELSE U
      /\ E = IF Closes(d, n + 1) THEN D + 1 ELSE D
  <2>1. n + 1 \in Nat
    OBVIOUS
  <2> QED BY <1>2, <1>7, <1>8, <2>1
<1>10. DepthAfter(d, 0) = 0
  BY <1>3, <1>7
<1> HIDE DEF U, D, V, E
<1> QED BY <1>6, <1>9, <1>10

(* The elements that are open after n items, the outermost first.            *)
Held(st) == {st[a] : a \in 1 .. Len(st)}

Nested(d, st, n) ==
  /\ n \in 0 .. Len(d) /\ Len(d) \in Nat
  /\ st \in Seq(Nat) /\ DepthAfter(d, n) = Len(st)
  /\ \A a, b \in 1 .. Len(st) : a < b => st[a] < st[b]
  /\ \A a \in 1 .. Len(st) :
       /\ st[a] \in 1 .. n /\ Opens(d, st[a]) /\ DepthAfter(d, st[a]) = a
       /\ \A j \in st[a] .. n : DepthAfter(d, j) >= a
  /\ \A j \in 1 .. n : DepthAfter(d, j) >= 0
  /\ \A i \in 1 .. n : d[i].kind = "start" /\ i \notin Held(st) => ClosedAt(d, i) \in i .. n

LEMMA NestedAtFirst ==
  ASSUME NEW d, Len(d) \in Nat
  PROVE  Nested(d, <<>>, 0)
<1>1. <<>> \in Seq(Nat) /\ Len(<<>>) = 0
  BY EmptySeq
<1>2. DepthAfter(d, 0) = 0
  BY DepthMoves
<1> QED BY <1>1, <1>2 DEF Nested

LEMMA NestedPast ==
  ASSUME NEW d, NEW st, NEW n, Nested(d, st, n), n < Len(d), ~Opens(d, n + 1), ~Closes(d, n + 1),
         d[n + 1].kind = "start" => d[n + 1].selfClosing = TRUE
  PROVE  Nested(d, st, n + 1)
<1>1. n \in Nat /\ n + 1 \in 0 .. Len(d) /\ Len(st) \in Nat
  BY LenProperties DEF Nested
<1>2. DepthAfter(d, n + 1) = DepthAfter(d, n)
  BY <1>1, DepthMoves
<1>3. \A j \in 1 .. n + 1 : j \in 1 .. n \/ j = n + 1
  BY <1>1
<1>4. ASSUME NEW a \in 1 .. Len(st)
      PROVE  /\ st[a] \in 1 .. n + 1 /\ Opens(d, st[a]) /\ DepthAfter(d, st[a]) = a
             /\ \A j \in st[a] .. n + 1 : DepthAfter(d, j) >= a
  <2>1. st[a] \in 1 .. n /\ Opens(d, st[a]) /\ DepthAfter(d, st[a]) = a /\ a <= Len(st)
        /\ \A j \in st[a] .. n : DepthAfter(d, j) >= a
    BY DEF Nested
  <2>2. DepthAfter(d, n + 1) >= a
    BY <1>1, <1>2, <2>1 DEF Nested
  <2>3. \A j \in st[a] .. n + 1 : j \in st[a] .. n \/ j = n + 1
    BY <1>1, <2>1
  <2> QED BY <1>1, <2>1, <2>2, <2>3
<1>5. \A j \in 1 .. n + 1 : DepthAfter(d, j) >= 0
  BY <1>1, <1>2, <1>3 DEF Nested
<1>6. ASSUME NEW i \in 1 .. n + 1, d[i].kind = "start", i \notin Held(st)
      PROVE  ClosedAt(d, i) \in i .. n + 1
  <2>1. CASE i \in 1 .. n
    <3>1. ClosedAt(d, i) \in i .. n
      BY <1>6, <2>1 DEF Nested
    <3> QED BY <1>1, <3>1
  <2>2. CASE i = n + 1
    <3>1. ClosedAt(d, i) = i
      BY <1>6, <2>2 DEF ClosedAt
    <3> QED BY <1>1, <2>2, <3>1
  <2> QED BY <1>3, <2>1, <2>2
<1> QED BY <1>1, <1>2, <1>4, <1>5, <1>6 DEF Nested

LEMMA NestedDeeper ==
  ASSUME NEW d, NEW st, NEW n, Nested(d, st, n), n < Len(d), Opens(d, n + 1)
  PROVE  /\ Nested(d, Append(st, n + 1), n + 1)
         /\ Held(Append(st, n + 1)) = Held(st) \cup {n + 1}
<1> DEFINE tt == Append(st, n + 1)
<1>1. n \in Nat /\ n + 1 \in 0 .. Len(d) /\ Len(st) \in Nat
  BY LenProperties DEF Nested
<1>2. /\ tt \in Seq(Nat) /\ Len(tt) = Len(st) + 1 /\ tt[Len(st) + 1] = n + 1
      /\ \A a \in 1 .. Len(st) : tt[a] = st[a]
  BY <1>1 DEF Nested
<1>3. DepthAfter(d, n + 1) = Len(st) + 1
  BY <1>1, DepthMoves DEF Nested
<1> HIDE DEF tt
<1>4. \A a \in 1 .. Len(tt) : a \in 1 .. Len(st) \/ a = Len(st) + 1
  BY <1>1, <1>2
<1>5. Held(tt) = Held(st) \cup {n + 1}
  BY <1>1, <1>2, <1>4 DEF Held
<1>6. ASSUME NEW a \in 1 .. Len(tt)
      PROVE  /\ tt[a] \in 1 .. n + 1 /\ Opens(d, tt[a]) /\ DepthAfter(d, tt[a]) = a
             /\ \A j \in tt[a] .. n + 1 : DepthAfter(d, j) >= a
  <2>1. CASE a \in 1 .. Len(st)
    <3>1. tt[a] = st[a] /\ st[a] \in 1 .. n /\ Opens(d, st[a]) /\ DepthAfter(d, st[a]) = a /\ a <= Len(st)
          /\ \A j \in st[a] .. n : DepthAfter(d, j) >= a
      BY <1>2, <2>1 DEF Nested
    <3>2. \A j \in st[a] .. n + 1 : j \in st[a] .. n \/ j = n + 1
      BY <1>1, <3>1
    <3>3. DepthAfter(d, n + 1) >= a
      BY <1>1, <1>3, <2>1
    <3> QED BY <1>1, <3>1, <3>2, <3>3
  <2>2. CASE a = Len(st) + 1
    <3>1. \A j \in n + 1 .. n + 1 : j = n + 1
      BY <1>1
    <3> QED BY <1>1, <1>2, <1>3, <2>2, <3>1
  <2> QED BY <1>4, <2>1, <2>2
<1>7. \A a, b \in 1 .. Len(tt) : a < b => tt[a] < tt[b]
  <2>1. ASSUME NEW a \in 1 .. Len(tt), NEW b \in 1 .. Len(tt), a < b PROVE tt[a] < tt[b]
    <3>1. a \in 1 .. Len(st) /\ tt[a] = st[a] /\ st[a] \in 1 .. n
      <4>1. a \in 1 .. Len(st)
        BY <1>1, <1>2, <2>1
      <4> QED BY <1>2, <4>1 DEF Nested
    <3>2. CASE b \in 1 .. Len(st)
      <4>1. st[a] < st[b]
        BY <2>1, <3>1, <3>2 DEF Nested
      <4> QED BY <1>2, <3>1, <3>2, <4>1
    <3>3. CASE b = Len(st) + 1
      BY <1>1, <1>2, <3>1, <3>3
    <3> QED BY <1>4, <3>2, <3>3
  <2> QED BY <2>1
<1>8. \A j \in 1 .. n + 1 : DepthAfter(d, j) >= 0
  <2>1. \A j \in 1 .. n + 1 : j \in 1 .. n \/ j = n + 1
    BY <1>1
  <2> QED BY <1>1, <1>3, <2>1 DEF Nested
<1>9. ASSUME NEW i \in 1 .. n + 1, d[i].kind = "start", i \notin Held(tt)
      PROVE  ClosedAt(d, i) \in i .. n + 1
  <2>1. i \in 1 .. n /\ i \notin Held(st)
    BY <1>1, <1>5, <1>9
  <2>2. ClosedAt(d, i) \in i .. n
    BY <1>9, <2>1 DEF Nested
  <2> QED BY <1>1, <2>2
<1>10. Nested(d, tt, n + 1)
  BY <1>1, <1>2, <1>3, <1>6, <1>7, <1>8, <1>9 DEF Nested
<1> QED BY <1>5, <1>10 DEF tt

LEMMA FrontIs ==
  ASSUME NEW X, NEW s \in Seq(X), s # <<>>
  PROVE  /\ Front(s) \in Seq(X) /\ Len(Front(s)) = Len(s) - 1 /\ Last(s) = s[Len(s)]
         /\ \A a \in 1 .. Len(s) - 1 : Front(s)[a] = s[a]
<1>1. Len(s) \in Nat \ {0}
  BY EmptySeq
<1> DEFINE k == Len(s) - 1
<1>2. k \in Nat /\ 1 \in Int /\ \A i \in 1 .. k : s[i] \in X
  <2>1. \A i \in 1 .. k : i \in 1 .. Len(s)
    BY <1>1
  <2> QED BY <1>1, <2>1, ElementOfSeq
<1>3. Front(s) = SubSeq(s, 1, k) /\ Last(s) = s[Len(s)]
  BY DEF Front, Last
<1> HIDE DEF k
<1>4. /\ SubSeq(s, 1, k) \in Seq(X)
      /\ Len(SubSeq(s, 1, k)) = k
      /\ \A i \in 1 .. k : SubSeq(s, 1, k)[i] = s[i]
  BY <1>2, SubSeqProperties
<1> QED BY <1>3, <1>4 DEF k

LEMMA NestedLess ==
  ASSUME NEW d, NEW st, NEW n, Nested(d, st, n), n < Len(d), Closes(d, n + 1), st # <<>>
  PROVE  /\ Nested(d, Front(st), n + 1)
         /\ Last(st) \in 1 .. n /\ Opens(d, Last(st)) /\ ClosedAt(d, Last(st)) = n + 1
         /\ Last(st) \notin Held(Front(st)) /\ Held(st) = Held(Front(st)) \cup {Last(st)}
         /\ \A i \in Held(Front(st)) : i < Last(st)
<1> DEFINE tt == Front(st)
           m == Len(st)
           top == Last(st)
<1>1. n \in Nat /\ n + 1 \in 0 .. Len(d) /\ m \in Nat \ {0} /\ Len(d) \in Nat
  BY LenProperties, EmptySeq DEF Nested
<1>2. /\ tt \in Seq(Nat) /\ Len(tt) = m - 1 /\ top = st[m]
      /\ \A a \in 1 .. m - 1 : tt[a] = st[a]
  <2>1. st \in Seq(Nat)
    BY DEF Nested
  <2> QED BY <1>1, <2>1, FrontIs
<1>3. DepthAfter(d, n + 1) = m - 1
  BY <1>1, DepthMoves DEF Nested
<1>4. \A a \in 1 .. m : a \in 1 .. m - 1 \/ a = m
  BY <1>1
<1>5. \A a \in 1 .. m - 1 : a \in 1 .. m /\ st[a] < st[m]
  BY <1>1 DEF Nested
<1>6. /\ top \in 1 .. n /\ Opens(d, top) /\ DepthAfter(d, top) = m
      /\ \A j \in top .. n : DepthAfter(d, j) >= m
  BY <1>1, <1>2 DEF Nested
<1> HIDE DEF tt, top
<1>7. Held(st) = Held(tt) \cup {top} /\ \A i \in Held(tt) : i < top
  <2>1. Held(st) = {st[a] : a \in 1 .. m} /\ Held(tt) = {tt[a] : a \in 1 .. m - 1}
    BY <1>2 DEF Held
  <2>2. m \in 1 .. m /\ \A a \in 1 .. m - 1 : a \in 1 .. m
    BY <1>1
  <2> HIDE DEF m
  <2>3. Held(st) \subseteq Held(tt) \cup {top}
    BY <1>2, <1>4, <2>1
  <2>4. Held(tt) \cup {top} \subseteq Held(st)
    BY <1>2, <2>1, <2>2
  <2>5. \A i \in Held(tt) : i < top
    BY <1>2, <1>5, <2>1
  <2> QED BY <2>3, <2>4, <2>5
<1>8. top \notin Held(tt)
  BY <1>6, <1>7
<1>9. ClosedAt(d, top) = n + 1
  <2> DEFINE S == {j \in top + 1 .. Len(d) : DepthAfter(d, j) < DepthAfter(d, top)}
  <2>1. n + 1 \in S
    BY <1>1, <1>3, <1>6
  <2>2. \A j \in S : n + 1 <= j
    <3>1. ASSUME NEW j \in S, ~(n + 1 <= j) PROVE FALSE
      <4>1. j \in top + 1 .. Len(d) /\ DepthAfter(d, j) < m
        BY <1>6, <3>1
      <4>2. j \in top .. n
        BY <1>1, <1>6, <3>1, <4>1
      <4>3. DepthAfter(d, j) >= m /\ DepthAfter(d, j) \in Int
        BY <1>6, <4>2, DepthMoves
      <4> QED BY <1>1, <4>1, <4>3
    <3> QED BY <3>1
  <2>3. S \subseteq Int
    OBVIOUS
  <2>4. ~d[top].selfClosing
    BY <1>6 DEF Opens
  <2>5. ClosedAt(d, top) = Min(S)
    BY <2>4 DEF ClosedAt
  <2> HIDE DEF S
  <2> QED BY <2>1, <2>2, <2>3, <2>5, LeastIs
<1>10. ASSUME NEW a \in 1 .. m - 1
       PROVE  /\ tt[a] \in 1 .. n + 1 /\ Opens(d, tt[a]) /\ DepthAfter(d, tt[a]) = a
              /\ \A j \in tt[a] .. n + 1 : DepthAfter(d, j) >= a
  <2>1. tt[a] = st[a] /\ st[a] \in 1 .. n /\ Opens(d, st[a]) /\ DepthAfter(d, st[a]) = a
        /\ \A j \in st[a] .. n : DepthAfter(d, j) >= a
    BY <1>2, <1>5 DEF Nested
  <2>2. \A j \in st[a] .. n + 1 : j \in st[a] .. n \/ j = n + 1
    BY <1>1, <2>1
  <2>3. DepthAfter(d, n + 1) >= a
    BY <1>1, <1>3
  <2> QED BY <1>1, <2>1, <2>2, <2>3
<1>11. \A a, b \in 1 .. m - 1 : a < b => tt[a] < tt[b]
  BY <1>2, <1>5 DEF Nested
<1>12. \A j \in 1 .. n + 1 : DepthAfter(d, j) >= 0
  <2>1. \A j \in 1 .. n + 1 : j \in 1 .. n \/ j = n + 1
    BY <1>1
  <2> QED BY <1>1, <1>3, <2>1 DEF Nested
<1>13. ASSUME NEW i \in 1 .. n + 1, d[i].kind = "start", i \notin Held(tt)
       PROVE  ClosedAt(d, i) \in i .. n + 1
  <2>1. i # n + 1
    BY <1>13 DEF Closes
  <2>2. i \in 1 .. n
    BY <1>1, <2>1
  <2>3. CASE i = top
    BY <1>1, <1>6, <1>9, <2>3
  <2>4. CASE i # top
    <3>1. ClosedAt(d, i) \in i .. n
      BY <1>7, <1>13, <2>2, <2>4 DEF Nested
    <3> QED BY <1>1, <3>1
  <2> QED BY <2>3, <2>4
<1>14. Nested(d, tt, n + 1)
  BY <1>1, <1>2, <1>3, <1>10, <1>11, <1>12, <1>13 DEF Nested
<1> QED BY <1>6, <1>7, <1>8, <1>9, <1>14 DEF tt, top

-----------------------------------------------------------------------------
(* Which elements are over after n items, and which the parser's file,       *)
(* segment and meta type are from: the last of their name, if it is open.    *)

Done(d, st, name, from, n) == Elements(d, name, from, n) \ Held(st)

Newest(d, st, n, name, l) ==
  l \in Held(st) /\ d[l].name = name /\ Elements(d, name, l + 1, n) = {}

Shadowed(d, st, n, name) ==
  \A i \in Held(st) : d[i].name = name => Elements(d, name, i + 1, n) # {}

Starts(d, i, name) == d[i].kind = "start" /\ d[i].name = name

Grown(d, n, name, from) ==
  /\ Elements(d, name, from, n) \subseteq from .. n
  /\ Starts(d, n + 1, name) => Elements(d, name, from, n + 1) = Elements(d, name, from, n) \cup {n + 1}
  /\ ~Starts(d, n + 1, name) => Elements(d, name, from, n + 1) = Elements(d, name, from, n)

LEMMA ElementsGrow ==
  ASSUME NEW d, NEW n \in Nat, NEW name, NEW from \in 1 .. n + 1
  PROVE  Grown(d, n, name, from)
<1>1. from .. n + 1 = (from .. n) \cup {n + 1}
  OBVIOUS
<1> QED BY <1>1 DEF Elements, Starts, Grown

LEMMA HeldIs ==
  ASSUME NEW d, NEW st, NEW n, Nested(d, st, n)
  PROVE  /\ n \in Nat /\ Len(d) \in Nat /\ n <= Len(d)
         /\ \A i \in Held(st) : i \in 1 .. n /\ Opens(d, i)
<1> QED BY DEF Nested, Held

(* One item takes the open elements from st to tt and ends those in done.    *)
Moves(d, st, n, tt, done) ==
  /\ Nested(d, tt, n + 1)
  /\ \A i \in done : /\ i \in 1 .. n + 1 /\ d[i].kind = "start" /\ ClosedAt(d, i) = n + 1
                      /\ \A j \in Held(tt) : j < i
  /\ \A name : \A from \in 1 .. n + 1 :
       Done(d, tt, name, from, n + 1) =
         Done(d, st, name, from, n) \cup {i \in done : d[i].name = name /\ from <= i}
  /\ \A name, from : \A i \in done : i \notin Done(d, st, name, from, n)
  /\ \A name : ~Starts(d, n + 1, name) /\ (\A i \in done : d[i].name # name) =>
       /\ Shadowed(d, st, n, name) => Shadowed(d, tt, n + 1, name)
       /\ \A l : Newest(d, st, n, name, l) => Newest(d, tt, n + 1, name, l)

LEMMA SlotsStay ==
  ASSUME NEW d, NEW st, NEW n, NEW tt, Nested(d, st, n), NEW name, ~Starts(d, n + 1, name),
         \A i \in Held(st) \cup Held(tt) : d[i].name = name => i \in Held(st) /\ i \in Held(tt)
  PROVE  /\ Shadowed(d, st, n, name) => Shadowed(d, tt, n + 1, name)
         /\ \A l : Newest(d, st, n, name, l) => Newest(d, tt, n + 1, name, l)
<1>1. n \in Nat /\ \A i \in Held(st) : i \in 1 .. n
  BY HeldIs
<1>2. \A i \in Held(st) : Elements(d, name, i + 1, n + 1) = Elements(d, name, i + 1, n)
  <2>1. ASSUME NEW i \in Held(st) PROVE Elements(d, name, i + 1, n + 1) = Elements(d, name, i + 1, n)
    <3>1. i + 1 \in 1 .. n + 1
      BY <1>1
    <3>2. Grown(d, n, name, i + 1)
      BY <1>1, <3>1, ElementsGrow
    <3> QED BY <3>2 DEF Grown
  <2> QED BY <2>1
<1> QED BY <1>2 DEF Shadowed, Newest

LEMMA MovesPast ==
  ASSUME NEW d, NEW st, NEW n, Nested(d, st, n), n < Len(d), d[n + 1].kind \notin {"start", "end"}
  PROVE  Moves(d, st, n, st, {})
<1>1. n \in Nat
  BY HeldIs
<1>2. ~Opens(d, n + 1) /\ ~Closes(d, n + 1) /\ \A name : ~Starts(d, n + 1, name)
  BY DEF Opens, Closes, Starts
<1>3. Nested(d, st, n + 1)
  BY <1>2, NestedPast
<1>4. ASSUME NEW name, NEW from \in 1 .. n + 1
      PROVE  Done(d, st, name, from, n + 1) = Done(d, st, name, from, n)
  <2>1. Elements(d, name, from, n + 1) = Elements(d, name, from, n)
    <3>1. Grown(d, n, name, from)
      BY <1>1, ElementsGrow
    <3> QED BY <1>1, <1>2, <3>1 DEF Grown
  <2> QED BY <2>1 DEF Done
<1>5. ASSUME NEW name
      PROVE  /\ Shadowed(d, st, n, name) => Shadowed(d, st, n + 1, name)
             /\ \A l : Newest(d, st, n, name, l) => Newest(d, st, n + 1, name, l)
  BY <1>2, SlotsStay
<1> QED BY <1>3, <1>4, <1>5 DEF Moves

LEMMA MovesDeeper ==
  ASSUME NEW d, NEW st, NEW n, Nested(d, st, n), n < Len(d), Opens(d, n + 1)
  PROVE  /\ Moves(d, st, n, Append(st, n + 1), {})
         /\ Newest(d, Append(st, n + 1), n + 1, d[n + 1].name, n + 1)
<1> DEFINE tt == Append(st, n + 1)
<1>1. n \in Nat /\ n + 1 \in Nat /\ \A i \in Held(st) : i \in 1 .. n
  BY HeldIs
<1>2. Nested(d, tt, n + 1) /\ Held(tt) = Held(st) \cup {n + 1}
  BY NestedDeeper
<1> HIDE DEF tt
<1>3. ASSUME NEW name, NEW from \in 1 .. n + 1
      PROVE  Done(d, tt, name, from, n + 1) = Done(d, st, name, from, n)
  <2>1. /\ Elements(d, name, from, n) \subseteq from .. n
        /\ \/ Elements(d, name, from, n + 1) = Elements(d, name, from, n)
           \/ Elements(d, name, from, n + 1) = Elements(d, name, from, n) \cup {n + 1}
    <3>1. Grown(d, n, name, from)
      BY <1>1, ElementsGrow
    <3> QED BY <1>1, <3>1 DEF Grown
  <2>2. n + 1 \notin Elements(d, name, from, n)
    BY <1>1, <2>1
  <2> QED BY <1>2, <2>1, <2>2 DEF Done
<1>4. ASSUME NEW name, ~Starts(d, n + 1, name)
      PROVE  /\ Shadowed(d, st, n, name) => Shadowed(d, tt, n + 1, name)
             /\ \A l : Newest(d, st, n, name, l) => Newest(d, tt, n + 1, name, l)
  <2>1. d[n + 1].name # name
    BY <1>4 DEF Starts, Opens
  <2> QED BY <1>2, <1>4, <2>1, SlotsStay
<1>5. Newest(d, tt, n + 1, d[n + 1].name, n + 1)
  <2>1. n + 1 + 1 .. n + 1 = {}
    BY <1>1
  <2> QED BY <1>2, <2>1 DEF Newest, Elements
<1>6. Moves(d, st, n, tt, {})
  BY <1>2, <1>3, <1>4 DEF Moves
<1> QED BY <1>5, <1>6 DEF tt

LEMMA MovesBy ==
  ASSUME NEW d, NEW st, NEW n, Nested(d, st, n), n < Len(d), d[n + 1].kind = "start",
         d[n + 1].selfClosing = TRUE
  PROVE  /\ Moves(d, st, n, st, {n + 1})
         /\ Shadowed(d, st, n + 1, d[n + 1].name)
<1>1. n \in Nat /\ n + 1 \in Nat /\ \A i \in Held(st) : i \in 1 .. n
  BY HeldIs
<1>2. ~Opens(d, n + 1) /\ ~Closes(d, n + 1)
  BY DEF Opens, Closes
<1>3. Nested(d, st, n + 1)
  BY <1>2, NestedPast
<1>4. n + 1 \in 1 .. n + 1 /\ ClosedAt(d, n + 1) = n + 1 /\ n + 1 \notin Held(st) /\ \A j \in Held(st) : j < n + 1
  BY <1>1 DEF ClosedAt
<1>5. ASSUME NEW name, NEW from \in 1 .. n + 1
      PROVE  Done(d, st, name, from, n + 1) =
               Done(d, st, name, from, n) \cup {i \in {n + 1} : d[i].name = name /\ from <= i}
  <2>1. CASE Starts(d, n + 1, name)
    <3>1. Elements(d, name, from, n + 1) = Elements(d, name, from, n) \cup {n + 1}
      <4>1. Grown(d, n, name, from)
        BY <1>1, ElementsGrow
      <4> QED BY <1>1, <2>1, <4>1 DEF Grown
    <3>2. d[n + 1].name = name /\ from <= n + 1
      BY <1>1, <2>1 DEF Starts
    <3> QED BY <1>4, <3>1, <3>2 DEF Done
  <2>2. CASE ~Starts(d, n + 1, name)
    <3>1. Elements(d, name, from, n + 1) = Elements(d, name, from, n)
      <4>1. Grown(d, n, name, from)
        BY <1>1, ElementsGrow
      <4> QED BY <1>1, <2>2, <4>1 DEF Grown
    <3>2. d[n + 1].name # name
      BY <2>2 DEF Starts
    <3> QED BY <3>1, <3>2 DEF Done
  <2> QED BY <2>1, <2>2
<1>6. ASSUME NEW name, NEW from PROVE n + 1 \notin Done(d, st, name, from, n)
  BY <1>1 DEF Done, Elements
<1>7. ASSUME NEW name, ~Starts(d, n + 1, name)
      PROVE  /\ Shadowed(d, st, n, name) => Shadowed(d, st, n + 1, name)
             /\ \A l : Newest(d, st, n, name, l) => Newest(d, st, n + 1, name, l)
  BY <1>7, SlotsStay
<1>8. Shadowed(d, st, n + 1, d[n + 1].name)
  <2>1. ASSUME NEW i \in Held(st) PROVE n + 1 \in Elements(d, d[n + 1].name, i + 1, n + 1)
    BY <1>1, <2>1 DEF Elements
  <2> QED BY <2>1 DEF Shadowed
<1>9. Moves(d, st, n, st, {n + 1})
  BY <1>3, <1>4, <1>5, <1>6, <1>7 DEF Moves
<1> QED BY <1>8, <1>9

LEMMA MovesLess ==
  ASSUME NEW d, NEW st, NEW n, Nested(d, st, n), n < Len(d), Closes(d, n + 1), st # <<>>
  PROVE  /\ Moves(d, st, n, Front(st), {Last(st)})
         /\ Last(st) \in Held(st) /\ Opens(d, Last(st)) /\ Last(st) <= n
         /\ \A l : Newest(d, st, n, d[Last(st)].name, l) => l = Last(st)
         /\ \A l : Newest(d, st, n, d[Last(st)].name, l) =>
              Shadowed(d, Front(st), n + 1, d[Last(st)].name)
<1> DEFINE tt == Front(st)
           top == Last(st)
           Y == d[top].name
<1>1. n \in Nat /\ n + 1 \in Nat /\ \A i \in Held(st) : i \in 1 .. n /\ Opens(d, i)
  BY HeldIs
<1>2. /\ Nested(d, tt, n + 1)
      /\ top \in 1 .. n /\ Opens(d, top) /\ ClosedAt(d, top) = n + 1
      /\ top \notin Held(tt) /\ Held(st) = Held(tt) \cup {top}
      /\ \A i \in Held(tt) : i < top
  BY NestedLess
<1> HIDE DEF tt, top
<1>3. d[top].kind = "start" /\ top \in 1 .. n + 1 /\ top <= n /\ top \in Held(st)
  BY <1>1, <1>2 DEF Opens
<1>4. \A name : ~Starts(d, n + 1, name)
  BY DEF Starts, Closes
<1>5. ASSUME NEW name, NEW from \in 1 .. n + 1
      PROVE  Done(d, tt, name, from, n + 1) =
               Done(d, st, name, from, n) \cup {i \in {top} : d[i].name = name /\ from <= i}
  <2>1. Elements(d, name, from, n + 1) = Elements(d, name, from, n)
    <3>1. Grown(d, n, name, from)
      BY <1>1, ElementsGrow
    <3> QED BY <1>1, <1>4, <3>1 DEF Grown
  <2>2. top \in Elements(d, name, from, n) <=> d[top].name = name /\ from <= top
    BY <1>1, <1>2, <1>3 DEF Elements
  <2> QED BY <1>2, <2>1, <2>2 DEF Done
<1>6. ASSUME NEW name, NEW from PROVE top \notin Done(d, st, name, from, n)
  BY <1>3 DEF Done
<1>7. ASSUME NEW name, Y # name
      PROVE  /\ Shadowed(d, st, n, name) => Shadowed(d, tt, n + 1, name)
             /\ \A l : Newest(d, st, n, name, l) => Newest(d, tt, n + 1, name, l)
  BY <1>2, <1>4, <1>7, SlotsStay
<1>8. Moves(d, st, n, tt, {top})
  <2>1. \A name : (\A i \in {top} : d[i].name # name) => Y # name
    OBVIOUS
  <2> HIDE DEF Y
  <2> QED BY <1>2, <1>3, <1>5, <1>6, <1>7, <2>1 DEF Moves
<1>9. ASSUME NEW l, Newest(d, st, n, Y, l) PROVE l = top /\ Shadowed(d, tt, n + 1, Y)
  <2>1. l \in Held(st) /\ Elements(d, Y, l + 1, n) = {}
    BY <1>9 DEF Newest
  <2>2. l = top
    <3>1. ASSUME l # top PROVE FALSE
      <4>1. l < top /\ l \in 1 .. n
        BY <1>1, <1>2, <2>1, <3>1
      <4>2. top \in Elements(d, Y, l + 1, n)
        BY <1>2, <1>3, <4>1 DEF Elements
      <4> QED BY <2>1, <4>2
    <3> QED BY <3>1
  <2>3. ASSUME NEW i \in Held(tt) PROVE top \in Elements(d, Y, i + 1, n + 1)
    <3>1. i < top /\ i \in 1 .. n
      BY <1>1, <1>2, <2>3
    <3> QED BY <1>2, <1>3, <3>1 DEF Elements
  <2> QED BY <2>2, <2>3 DEF Shadowed
<1> QED BY <1>2, <1>3, <1>8, <1>9 DEF tt, top

-----------------------------------------------------------------------------
(* Lists that grow, and the place of what is appended.                       *)

IsList(g) == g \in Seq(ToSet(g))

LEMMA ListAppend ==
  ASSUME NEW g, IsList(g), NEW x
  PROVE  /\ IsList(Append(g, x)) /\ Len(g) \in Nat /\ Len(Append(g, x)) = Len(g) + 1
         /\ Append(g, x)[Len(g) + 1] = x
         /\ \A k \in 1 .. Len(g) : Append(g, x)[k] = g[k]
         /\ ToSet(Append(g, x)) = ToSet(g) \cup {x}
<1> DEFINE X == ToSet(g) \cup {x}
           h == Append(g, x)
<1>1. g \in Seq(ToSet(g))
  BY DEF IsList
<1>2. g \in Seq(X)
  BY <1>1, SeqMonotonic
<1>3. Len(g) \in Nat /\ DOMAIN g = 1 .. Len(g)
  BY <1>1, LenProperties
<1> DEFINE Y == ToSet(g)
<1>4. Y = {g[k] : k \in 1 .. Len(g)}
  BY <1>3 DEF ToSet
<1> HIDE DEF Y
<1>5. X = Y \cup {x}
  BY DEF Y
<1> HIDE DEF X
<1>6. /\ h \in Seq(X) /\ Len(h) = Len(g) + 1 /\ h[Len(g) + 1] = x
      /\ DOMAIN h = 1 .. Len(g) + 1
      /\ \A k \in 1 .. Len(g) : h[k] = g[k]
  BY <1>2, <1>3, <1>5
<1> HIDE DEF h
<1>7. \A k \in 1 .. Len(g) + 1 : k \in 1 .. Len(g) \/ k = Len(g) + 1
  BY <1>3
<1>8. ToSet(h) = {h[k] : k \in 1 .. Len(g) + 1}
  BY <1>6 DEF ToSet
<1>9. ToSet(h) = X
  <2>1. ToSet(h) \subseteq X
    BY <1>4, <1>5, <1>6, <1>7, <1>8
  <2>2. Len(g) + 1 \in 1 .. Len(g) + 1 /\ \A k \in 1 .. Len(g) : k \in 1 .. Len(g) + 1
    BY <1>3
  <2>3. x \in ToSet(h)
    BY <1>6, <1>8, <2>2
  <2>4. \A k \in 1 .. Len(g) : g[k] \in ToSet(h)
    <3>1. ASSUME NEW k \in 1 .. Len(g) PROVE g[k] \in ToSet(h)
      <4>1. h[k] = g[k] /\ k \in 1 .. Len(g) + 1
        BY <1>6, <2>2
      <4> QED BY <1>8, <4>1
    <3> QED BY <3>1
  <2> QED BY <1>4, <1>5, <2>1, <2>3, <2>4
<1>10. IsList(h)
  BY <1>6, <1>9 DEF IsList
<1> QED BY <1>3, <1>5, <1>6, <1>9, <1>10 DEF h, Y

LEMMA NoList == IsList(<<>>) /\ Len(<<>>) = 0 /\ ToSet(<<>>) = {}
<1>1. DOMAIN <<>> = {}
  OBVIOUS
<1>2. ToSet(<<>>) = {}
  BY <1>1 DEF ToSet
<1> QED BY <1>2, EmptySeq DEF IsList

OverBy(d, S, n) == IsFiniteSet(S) /\ \A j \in S : ClosedAt(d, j) \in 0 .. n

(* The last to end takes the last place, and the others keep theirs.         *)
TakesLast(d, S, i) ==
  /\ Cardinality(S) \in Nat /\ Cardinality(S \cup {i}) = Cardinality(S) + 1
  /\ Place(d, S \cup {i}, i) = Cardinality(S) + 1
  /\ \A j \in S : Place(d, S \cup {i}, j) = Place(d, S, j) /\ Place(d, S, j) \in 1 .. Cardinality(S)

LEMMA PlaceGrows ==
  ASSUME NEW d, NEW n \in Nat, NEW S, OverBy(d, S, n), NEW i, i \notin S, ClosedAt(d, i) = n + 1
  PROVE  TakesLast(d, S, i)
<1> DEFINE T == S \cup {i}
           Before(U, j) == {k \in U : ClosedAt(d, k) <= ClosedAt(d, j)}
<1>1. IsFiniteSet(S) /\ \A j \in S : ClosedAt(d, j) \in 0 .. n
  BY DEF OverBy
<1>2. IsFiniteSet(T) /\ Cardinality(T) = Cardinality(S) + 1 /\ Cardinality(S) \in Nat
  BY <1>1, FS_AddElement, FS_CardinalityType
<1>3. \A k \in T : ClosedAt(d, k) \in 0 .. n + 1
  BY <1>1
<1>4. Before(T, i) = T
  BY <1>1, <1>3
<1>5. ASSUME NEW j \in S
      PROVE  Before(T, j) = Before(S, j) /\ Cardinality(Before(S, j)) \in 1 .. Cardinality(S)
  <2>1. Before(T, j) = Before(S, j)
    BY <1>1
  <2>2. Before(S, j) \in SUBSET S /\ j \in Before(S, j)
    BY <1>1
  <2> HIDE DEF Before
  <2>3. Cardinality(Before(S, j)) <= Cardinality(S) /\ IsFiniteSet(Before(S, j))
    BY <1>1, <2>2, FS_Subset
  <2>4. Cardinality(Before(S, j)) \in Nat /\ Cardinality(Before(S, j)) # 0
    BY <2>2, <2>3, FS_EmptySet, FS_CardinalityType
  <2> QED BY <1>2, <2>1, <2>3, <2>4
<1>6. \A U, j : Place(d, U, j) = Cardinality(Before(U, j))
  BY DEF Place
<1> HIDE DEF T, Before
<1>7. Place(d, T, i) = Cardinality(S) + 1
  BY <1>2, <1>4, <1>6
<1>8. \A j \in S : Place(d, T, j) = Place(d, S, j) /\ Place(d, S, j) \in 1 .. Cardinality(S)
  BY <1>5, <1>6
<1> QED BY <1>2, <1>7, <1>8 DEF T, TakesLast

(* What is over after n items is a finite set of elements.                   *)
LEMMA DoneEnded ==
  ASSUME NEW d, NEW st, NEW n, Nested(d, st, n), NEW name, NEW from \in Nat \ {0}
  PROVE  OverBy(d, Done(d, st, name, from, n), n)
<1> DEFINE S == Done(d, st, name, from, n)
<1>1. n \in Nat /\ IsFiniteSet(1 .. n)
  BY HeldIs, FS_Interval
<1>2. S \in SUBSET (1 .. n)
  BY <1>1 DEF Done, Elements
<1>3. \A i \in S : ClosedAt(d, i) \in 0 .. n
  <2>1. ASSUME NEW i \in S PROVE ClosedAt(d, i) \in 0 .. n
    <3>1. i \in 1 .. n /\ d[i].kind = "start" /\ i \notin Held(st)
      BY <1>2, <2>1 DEF Done, Elements
    <3>2. ClosedAt(d, i) \in i .. n
      BY <3>1 DEF Nested
    <3> QED BY <1>1, <3>1, <3>2
  <2> QED BY <2>1
<1> HIDE DEF S
<1>4. IsFiniteSet(S)
  BY <1>1, <1>2, FS_Subset
<1> QED BY <1>3, <1>4 DEF OverBy, S

-----------------------------------------------------------------------------
(* A file at its end: its segments in the order of their numbers.            *)

(* t is a rearrangement of s without a descent.                              *)
Sorts(s, t) ==
  /\ IsList(t) /\ Len(t) = Len(s) /\ DOMAIN t = 1 .. Len(s) /\ ToSet(t) = ToSet(s)
  /\ \A k, l \in 1 .. Len(s) : k < l => t[k].number <= t[l].number

(* before[i] holds those of 1 to n that come before i, in some order.        *)
Order(n, before) ==
  /\ n \in Nat
  /\ \A i \in 1 .. n : before[i] \subseteq 1 .. n /\ i \notin before[i]
  /\ \A i, j \in 1 .. n : j \in before[i] => before[j] \subseteq before[i]
  /\ \A i, j \in 1 .. n : i # j => i \in before[j] \/ j \in before[i]

Ranks(n, before, rank) ==
  /\ \A i \in 1 .. n : rank[i] \in 1 .. n
  /\ \A i, j \in 1 .. n : i \in before[j] => rank[i] < rank[j]
  /\ \A i, j \in 1 .. n : rank[i] = rank[j] => i = j
  /\ \A k \in 1 .. n : \E i \in 1 .. n : rank[i] = k

LEMMA Ranked ==
  ASSUME NEW n, NEW before, Order(n, before)
  PROVE  Ranks(n, before, [i \in 1 .. n |-> Cardinality(before[i]) + 1])
<1> DEFINE D == 1 .. n
           rank == [i \in D |-> Cardinality(before[i]) + 1]
<1>1. n \in Nat /\ IsFiniteSet(D) /\ Cardinality(D) = n
  <2>1. n \in Nat /\ 1 \in Int /\ n \in Int
    BY DEF Order
  <2>2. IsFiniteSet(1 .. n) /\ Cardinality(1 .. n) = IF 1 > n THEN 0 ELSE n - 1 + 1
    BY <2>1, FS_Interval
  <2> QED BY <2>1, <2>2
<1>2. ASSUME NEW i \in D
      PROVE  IsFiniteSet(before[i]) /\ Cardinality(before[i]) \in Nat /\ Cardinality(before[i]) < n
  <2> DEFINE S == before[i]
  <2>1. S \in SUBSET D /\ S # D
    BY DEF Order
  <2> HIDE DEF D, S
  <2>2. IsFiniteSet(S) /\ Cardinality(S) <= n /\ Cardinality(S) # n
    BY <1>1, <2>1, FS_Subset
  <2>3. Cardinality(S) \in Nat
    BY <2>2, FS_CardinalityType
  <2> QED BY <1>1, <2>2, <2>3 DEF S
<1>3. ASSUME NEW i \in D, NEW j \in D, i \in before[j]
      PROVE  Cardinality(before[i]) < Cardinality(before[j])
  <2> DEFINE S == before[i]
             T == before[j]
  <2>1. S \in SUBSET T /\ S # T
    BY <1>3 DEF Order
  <2>2. IsFiniteSet(T) /\ Cardinality(S) \in Nat /\ Cardinality(T) \in Nat
    BY <1>2
  <2> HIDE DEF S, T
  <2>3. Cardinality(S) <= Cardinality(T) /\ Cardinality(S) # Cardinality(T)
    BY <2>1, <2>2, FS_Subset
  <2> QED BY <2>2, <2>3 DEF S, T
<1> HIDE DEF rank
<1>0. rank = [i \in D |-> rank[i]] /\ \A i \in D : rank[i] = Cardinality(before[i]) + 1
  BY DEF rank
<1>4. \A i \in D : rank[i] \in D
  BY <1>0, <1>1, <1>2
<1>5. \A i, j \in D : i \in before[j] => rank[i] < rank[j]
  BY <1>0, <1>2, <1>3
<1>6. \A i, j \in D : i # j => rank[i] # rank[j]
  <2>1. ASSUME NEW i \in D, NEW j \in D, i # j PROVE rank[i] # rank[j]
    <3>1. i \in before[j] \/ j \in before[i]
      BY <2>1 DEF Order
    <3>2. rank[i] < rank[j] \/ rank[j] < rank[i]
      BY <1>5, <3>1
    <3> QED BY <1>1, <1>4, <3>2
  <2> QED BY <2>1
<1>7. rank \in [D -> D]
  <2> HIDE DEF D
  <2> QED BY <1>0, <1>4
<1> HIDE DEF D
<1>8. rank \in Injection(D, D)
  BY <1>6, <1>7 DEF Injection, IsInjective
<1>9. rank \in Surjection(D, D)
  BY <1>1, <1>8, FS_Injection
<1>10. \A k \in D : \E i \in D : rank[i] = k
  BY <1>9 DEF Surjection
<1>11. Ranks(n, before, rank)
  BY <1>4, <1>5, <1>6, <1>10 DEF D, Ranks
<1> QED BY <1>11 DEF rank, D

LEMMA SortedIs ==
  ASSUME NEW s, IsList(s), \A k \in 1 .. Len(s) : s[k].number \in Int
  PROVE  Sorts(s, SortedByNumber(s))
<1> DEFINE n == Len(s)
           D == 1 .. n
           Before(j, i) == s[j].number < s[i].number \/ (s[j].number = s[i].number /\ j < i)
           before == [i \in D |-> {j \in D : Before(j, i)}]
           rank == [i \in D |-> Cardinality(before[i]) + 1]
           pick == [k \in D |-> CHOOSE i \in D : rank[i] = k]
           t == [k \in D |-> s[pick[k]]]
<1>1. n \in Nat /\ DOMAIN s = D
  BY LenProperties DEF IsList
<1>2. \A i, j \in D : j \in before[i] <=> Before(j, i)
  OBVIOUS
<1>3. SortedByNumber(s) = t
  <2> DEFINE pickOf(k) == CHOOSE i \in D : Cardinality({j \in D : Before(j, i)}) + 1 = k
  <2>1. \A i \in D : rank[i] = Cardinality({j \in D : Before(j, i)}) + 1
    OBVIOUS
  <2>2. SortedByNumber(s) = [k \in D |-> s[pickOf(k)]]
    BY <1>1 DEF SortedByNumber
  <2>3. \A k \in D : pickOf(k) = pick[k]
    <3> DEFINE rankOf(i) == Cardinality({j \in D : Before(j, i)}) + 1
    <3>1. \A i \in D : rank[i] = rankOf(i)
      BY <2>1
    <3> HIDE DEF rank, rankOf
    <3>2. \A k \in D : (CHOOSE i \in D : rankOf(i) = k) = pick[k]
      BY <3>1
    <3> QED BY <3>2 DEF rankOf
  <2> HIDE DEF pickOf, pick, D
  <2> QED BY <2>2, <2>3
<1> DEFINE num == [k \in D |-> s[k].number]
<1>4. Order(n, before)
  <2>1. \A k \in D : num[k] \in Int /\ num[k] = s[k].number
    OBVIOUS
  <2>2. \A i, j \in D : j \in before[i] <=> num[j] < num[i] \/ (num[j] = num[i] /\ j < i)
    BY <1>2, <2>1
  <2>3. \A i \in D : before[i] \subseteq D
    OBVIOUS
  <2> HIDE DEF before, num
  <2>4. \A i \in D : i \notin before[i]
    BY <1>1, <2>1, <2>2
  <2>5. ASSUME NEW i \in D, NEW j \in D, j \in before[i], NEW k \in before[j] PROVE k \in before[i]
    <3>1. k \in D
      BY <2>3, <2>5
    <3> QED BY <1>1, <2>1, <2>2, <2>5, <3>1
  <2>6. \A i, j \in D : i # j => i \in before[j] \/ j \in before[i]
    BY <1>1, <2>1, <2>2
  <2> QED BY <1>1, <2>3, <2>4, <2>5, <2>6 DEF Order
<1> HIDE DEF before
<1>5. Ranks(n, before, rank)
  BY <1>4, Ranked
<1> HIDE DEF rank
<1>7. /\ \A i \in D : rank[i] \in D
      /\ \A i, j \in D : i \in before[j] => rank[i] < rank[j]
      /\ \A i, j \in D : rank[i] = rank[j] => i = j
      /\ \A k \in D : \E i \in D : rank[i] = k
  BY <1>5 DEF Ranks
<1>8. \A k \in D : pick[k] \in D /\ rank[pick[k]] = k
  BY <1>7
<1>9. \A i \in D : pick[rank[i]] = i
  BY <1>7, <1>8
<1> HIDE DEF pick
<1>10. DOMAIN t = D /\ \A k \in D : t[k] = s[pick[k]]
  OBVIOUS
<1>11. ToSet(t) = ToSet(s)
  <2>1. ToSet(t) = {t[k] : k \in D} /\ ToSet(s) = {s[k] : k \in D}
    BY <1>1, <1>10 DEF ToSet
  <2>2. \A k \in D : s[k] = t[rank[k]] /\ rank[k] \in D
    BY <1>7, <1>9, <1>10
  <2> HIDE DEF D, t
  <2> QED BY <1>8, <1>10, <2>1, <2>2
<1>12. t \in Seq(ToSet(t)) /\ Len(t) = n
  <2>1. \A k \in D : t[k] \in ToSet(t)
    BY <1>10 DEF ToSet
  <2>2. t \in [D -> ToSet(t)]
    <3> DEFINE T == ToSet(t)
    <3>1. t = [k \in D |-> t[k]]
      OBVIOUS
    <3>2. \A k \in D : t[k] \in T
      BY <2>1
    <3> HIDE DEF t, T, D
    <3> QED BY <3>1, <3>2 DEF T
  <2> HIDE DEF t
  <2> QED BY <1>1, <1>10, <2>2, LenProperties
<1> HIDE DEF t
<1>13. ASSUME NEW k \in D, NEW l \in D, k < l PROVE t[k].number <= t[l].number
  <2> DEFINE x == pick[k]
             y == pick[l]
  <2>1. x \in D /\ y \in D /\ rank[x] = k /\ rank[y] = l /\ t[k] = s[x] /\ t[l] = s[y]
    BY <1>8, <1>10
  <2> HIDE DEF x, y
  <2>2. s[x].number \in Int /\ s[y].number \in Int
    BY <2>1
  <2>3. y \notin before[x]
    <3>1. y \in before[x] => l < k
      BY <1>7, <2>1
    <3> QED BY <1>1, <1>13, <3>1
  <2>4. ~(s[y].number < s[x].number)
    <3>1. y \in before[x] <=> Before(y, x)
      BY <1>2, <2>1
    <3> QED BY <2>3, <3>1
  <2> QED BY <2>1, <2>2, <2>4
<1> QED BY <1>3, <1>10, <1>11, <1>12, <1>13 DEF Sorts, IsList

(* Numbers without a descent are 1 to n, each in its place, if those are     *)
(* the numbers there are.                                                    *)
LEMMA ContiguousIs ==
  ASSUME NEW n \in Nat, NEW a, \A k, l \in 1 .. n : k < l => a[k] <= a[l], \A k \in 1 .. n : a[k] \in Int
  PROVE  (\A k \in 1 .. n : a[k] = k) <=> {a[k] : k \in 1 .. n} = 1 .. n
<1> DEFINE D == 1 .. n
           all == {a[k] : k \in D}
<1>1. ASSUME \A k \in D : a[k] = k PROVE all = D
  BY <1>1
<1>2. ASSUME all = D, NEW m \in D PROVE a[m] = m
  <2> DEFINE f == [k \in D |-> a[k]]
             low == 1 .. m
             g == [k \in low |-> a[k]]
  <2>1. f \in Surjection(D, D)
    BY <1>2 DEF Surjection
  <2>2. IsFiniteSet(D)
    BY FS_Interval
  <2>3. f \in Injection(D, D)
    BY <2>1, <2>2, FS_Surjection
  <2>4. \A k, l \in D : k # l => a[k] # a[l]
    BY <2>3 DEF Injection, IsInjective
  <2>5. \A k \in D : a[k] \in D
    BY <1>2
  <2>6. \A k, l \in D : k < l => a[k] < a[l]
    BY <2>4, <2>5
  <2>7. low \subseteq D /\ \A k \in D : k \in low <=> k <= m
    OBVIOUS
  <2>8. \A k \in low : a[k] \in 1 .. a[m]
    BY <2>5, <2>6, <2>7
  <2>9. \A v \in 1 .. a[m] : \E k \in low : a[k] = v
    <3>1. ASSUME NEW v \in 1 .. a[m] PROVE \E k \in low : a[k] = v
      <4>1. v \in D /\ v <= a[m]
        BY <2>5
      <4>2. PICK k \in D : a[k] = v
        BY <1>2, <4>1
      <4>3. k \in low
        BY <2>5, <2>6, <2>7, <4>1, <4>2
      <4> QED BY <4>2, <4>3
    <3> QED BY <3>1
  <2>10. g \in [low -> 1 .. a[m]]
    BY <2>8
  <2>11. g \in Surjection(low, 1 .. a[m])
    BY <2>9, <2>10 DEF Surjection
  <2>12. g \in Injection(low, 1 .. a[m])
    BY <2>4, <2>7, <2>10 DEF Injection, IsInjective
  <2>13. IsFiniteSet(low) /\ Cardinality(low) = m
    BY FS_Interval
  <2>14. Cardinality(1 .. a[m]) = a[m]
    BY <2>5, FS_Interval
  <2> HIDE DEF g, low
  <2>15. Cardinality(1 .. a[m]) = Cardinality(low)
    BY <2>11, <2>12, <2>13, FS_Surjection
  <2> QED BY <2>13, <2>14, <2>15
<1> QED BY <1>1, <1>2

-----------------------------------------------------------------------------
(* What is kept of the elements in S, which are over.                        *)

NumberOf(d, j) == d[j].attributes["number"]
WrittenAt(d, j) ==
  [number |-> NumberOf(d, j), bytes |-> d[j].attributes["bytes"],
   messageId |-> StripAngleBrackets(TextOf(d, j))]
Said(d, j) == <<d[j].attributes["type"], TextOf(d, j)>>

GroupsAre(d, S, g) ==
  IsList(g) /\ Len(g) = Cardinality(S) /\ \A j \in S : g[Place(d, S, j)] = TextOf(d, j)
FilesAre(d, S, g) ==
  IsList(g) /\ Len(g) = Cardinality(S) /\ \A j \in S : IsFileAt(d, j, g[Place(d, S, j)])
SegmentsAre(d, S, g) ==
  /\ IsList(g) /\ Len(g) = Cardinality(S) /\ ToSet(g) = {WrittenAt(d, j) : j \in S}
  /\ \A j \in S : NumberOf(d, j) \in Int
MetaAre(d, S, g) ==
  IsList(g) /\ Len(g) = Cardinality(S) /\ \A j \in S : g[Place(d, S, j)] = Said(d, j)

LEMMA NothingKept ==
  ASSUME NEW d
  PROVE  GroupsAre(d, {}, <<>>) /\ FilesAre(d, {}, <<>>) /\ SegmentsAre(d, {}, <<>>) /\ MetaAre(d, {}, <<>>)
<1>1. Cardinality({}) = 0
  BY FS_EmptySet
<1> QED BY <1>1, NoList DEF GroupsAre, FilesAre, SegmentsAre, MetaAre

LEMMA GroupsGrow ==
  ASSUME NEW d, NEW n \in Nat, NEW S, OverBy(d, S, n), NEW i, i \notin S, ClosedAt(d, i) = n + 1,
         NEW g, GroupsAre(d, S, g)
  PROVE  GroupsAre(d, S \cup {i}, Append(g, TextOf(d, i)))
<1> DEFINE T == S \cup {i}
           h == Append(g, TextOf(d, i))
<1> HIDE DEF h
<1>1. /\ Cardinality(S) \in Nat /\ Cardinality(T) = Cardinality(S) + 1
      /\ Place(d, T, i) = Cardinality(S) + 1
      /\ \A j \in S : Place(d, T, j) = Place(d, S, j) /\ Place(d, S, j) \in 1 .. Cardinality(S)
  <2>1. TakesLast(d, S, i)
    BY PlaceGrows
  <2> QED BY <2>1 DEF TakesLast
<1>2. IsList(g) /\ Len(g) = Cardinality(S) /\ \A j \in S : g[Place(d, S, j)] = TextOf(d, j)
  BY DEF GroupsAre
<1>3. IsList(h) /\ Len(h) = Len(g) + 1 /\ h[Len(g) + 1] = TextOf(d, i) /\ \A k \in 1 .. Len(g) : h[k] = g[k]
  BY <1>2, ListAppend DEF h
<1>4. \A j \in T : j \in S \/ j = i
  OBVIOUS
<1> HIDE DEF T
<1>5. \A j \in T : h[Place(d, T, j)] = TextOf(d, j)
  BY <1>1, <1>2, <1>3, <1>4
<1>6. GroupsAre(d, T, h)
  BY <1>1, <1>2, <1>3, <1>5 DEF GroupsAre
<1> QED BY <1>6 DEF T, h

LEMMA FilesGrow ==
  ASSUME NEW d, NEW n \in Nat, NEW S, OverBy(d, S, n), NEW i, i \notin S, ClosedAt(d, i) = n + 1,
         NEW g, FilesAre(d, S, g), NEW f, IsFileAt(d, i, f)
  PROVE  FilesAre(d, S \cup {i}, Append(g, f))
<1> DEFINE T == S \cup {i}
           h == Append(g, f)
<1>1. /\ Cardinality(S) \in Nat /\ Cardinality(T) = Cardinality(S) + 1
      /\ Place(d, T, i) = Cardinality(S) + 1
      /\ \A j \in S : Place(d, T, j) = Place(d, S, j) /\ Place(d, S, j) \in 1 .. Cardinality(S)
  <2>1. TakesLast(d, S, i)
    BY PlaceGrows
  <2> QED BY <2>1 DEF TakesLast
<1>2. IsList(g) /\ Len(g) = Cardinality(S) /\ \A j \in S : IsFileAt(d, j, g[Place(d, S, j)])
  BY DEF FilesAre
<1>3. IsList(h) /\ Len(h) = Len(g) + 1 /\ h[Len(g) + 1] = f /\ \A k \in 1 .. Len(g) : h[k] = g[k]
  BY <1>2, ListAppend
<1>4. \A j \in T : j \in S \/ j = i
  OBVIOUS
<1> HIDE DEF T, h
<1>5. \A j \in T : IsFileAt(d, j, h[Place(d, T, j)])
  <2>1. ASSUME NEW j \in S PROVE IsFileAt(d, j, h[Place(d, T, j)])
    <3>1. h[Place(d, T, j)] = g[Place(d, S, j)]
      BY <1>1, <1>2, <1>3, <2>1
    <3> QED BY <1>2, <3>1
  <2>2. IsFileAt(d, i, h[Place(d, T, i)])
    BY <1>1, <1>2, <1>3
  <2> QED BY <1>4, <2>1, <2>2
<1>6. FilesAre(d, T, h)
  BY <1>1, <1>2, <1>3, <1>5 DEF FilesAre
<1> QED BY <1>6 DEF T, h

LEMMA SegmentsGrow ==
  ASSUME NEW d, NEW n \in Nat, NEW S, OverBy(d, S, n), NEW i, i \notin S,
         NEW g, SegmentsAre(d, S, g), NumberOf(d, i) \in Int
  PROVE  SegmentsAre(d, S \cup {i}, Append(g, WrittenAt(d, i)))
<1> DEFINE T == S \cup {i}
           h == Append(g, WrittenAt(d, i))
<1>1. Cardinality(T) = Cardinality(S) + 1
  BY FS_AddElement DEF OverBy
<1>2. IsList(g) /\ Len(g) = Cardinality(S) /\ ToSet(g) = {WrittenAt(d, j) : j \in S}
  BY DEF SegmentsAre
<1>3. IsList(h) /\ Len(h) = Len(g) + 1 /\ ToSet(h) = ToSet(g) \cup {WrittenAt(d, i)}
  BY <1>2, ListAppend
<1>4. ToSet(h) = {WrittenAt(d, j) : j \in T}
  BY <1>2, <1>3
<1>5. \A j \in T : NumberOf(d, j) \in Int
  BY DEF SegmentsAre
<1> HIDE DEF T, h
<1>6. SegmentsAre(d, T, h)
  BY <1>1, <1>2, <1>3, <1>4, <1>5 DEF SegmentsAre
<1> QED BY <1>6 DEF T, h

LEMMA MetaGrows ==
  ASSUME NEW d, NEW n \in Nat, NEW S, OverBy(d, S, n), NEW i, i \notin S, ClosedAt(d, i) = n + 1,
         NEW g, MetaAre(d, S, g)
  PROVE  MetaAre(d, S \cup {i}, Append(g, Said(d, i)))
<1> DEFINE T == S \cup {i}
           h == Append(g, Said(d, i))
<1> HIDE DEF h
<1>1. /\ Cardinality(S) \in Nat /\ Cardinality(T) = Cardinality(S) + 1
      /\ Place(d, T, i) = Cardinality(S) + 1
      /\ \A j \in S : Place(d, T, j) = Place(d, S, j) /\ Place(d, S, j) \in 1 .. Cardinality(S)
  <2>1. TakesLast(d, S, i)
    BY PlaceGrows
  <2> QED BY <2>1 DEF TakesLast
<1>2. IsList(g) /\ Len(g) = Cardinality(S) /\ \A j \in S : g[Place(d, S, j)] = Said(d, j)
  BY DEF MetaAre
<1>3. IsList(h) /\ Len(h) = Len(g) + 1 /\ h[Len(g) + 1] = Said(d, i) /\ \A k \in 1 .. Len(g) : h[k] = g[k]
  BY <1>2, ListAppend DEF h
<1>4. \A j \in T : j \in S \/ j = i
  OBVIOUS
<1> HIDE DEF T
<1>5. \A j \in T : h[Place(d, T, j)] = Said(d, j)
  BY <1>1, <1>2, <1>3, <1>4
<1>6. MetaAre(d, T, h)
  BY <1>1, <1>2, <1>3, <1>5 DEF MetaAre
<1> QED BY <1>6 DEF T, h

(* The file from i: what is over of its groups and segments.                 *)
FileFrom(d, st, n, i, f) ==
  /\ f = [subject |-> f.subject, groups |-> f.groups, segments |-> f.segments]
  /\ f.subject = d[i].attributes["subject"]
  /\ GroupsAre(d, Done(d, st, "group", i, n), f.groups)
  /\ SegmentsAre(d, Done(d, st, "segment", i, n), f.segments)

(* All of them are, when it is.                                              *)
LEMMA Finalized ==
  ASSUME NEW d, NEW i, NEW st, NEW n, NEW f, FileFrom(d, st, n, i, f),
         Done(d, st, "group", i, n) = Elements(d, "group", i, ClosedAt(d, i)),
         Done(d, st, "segment", i, n) = Elements(d, "segment", i, ClosedAt(d, i))
  PROVE  IsFileAt(d, i, FinalizeFile(f))
<1> DEFINE G == Elements(d, "group", i, ClosedAt(d, i))
           S == Elements(d, "segment", i, ClosedAt(d, i))
           s == f.segments
           t == SortedByNumber(s)
           F == FinalizeFile(f)
           k == Len(s)
<1>1. GroupsAre(d, G, f.groups) /\ SegmentsAre(d, S, s) /\ f.subject = d[i].attributes["subject"]
  BY DEF FileFrom
<1> HIDE DEF G, S
<1>2. /\ IsList(s) /\ k = Cardinality(S) /\ ToSet(s) = {WrittenAt(d, j) : j \in S}
      /\ \A j \in S : NumberOf(d, j) \in Int
  BY <1>1 DEF SegmentsAre
<1> HIDE DEF s
<1>3. k \in Nat /\ DOMAIN s = 1 .. k
  BY <1>2, LenProperties DEF IsList
<1>4. \A j \in S : WrittenAt(d, j).number = NumberOf(d, j)
  BY DEF WrittenAt
<1>5. \A x \in ToSet(s) : x.number \in Int
  BY <1>2, <1>4
<1>6. \A l \in 1 .. k : s[l] \in ToSet(s)
  BY <1>3 DEF ToSet
<1>7. Sorts(s, t)
  BY <1>2, <1>5, <1>6, SortedIs
<1>8. F.subject = f.subject /\ F.groups = f.groups /\ F.segments = t
      /\ F.contiguous = \A l \in DOMAIN t : t[l].number = l
  BY DEF FinalizeFile, s
<1> HIDE DEF t, F
<1>9. /\ Len(t) = k /\ DOMAIN t = 1 .. k /\ ToSet(t) = ToSet(s)
      /\ \A a, b \in 1 .. k : a < b => t[a].number <= t[b].number
  BY <1>7 DEF Sorts
<1> HIDE DEF k
<1> DEFINE a == [l \in 1 .. k |-> t[l].number]
<1>10. \A l \in 1 .. k : a[l] = t[l].number /\ t[l] \in ToSet(t) /\ a[l] \in Int
  BY <1>5, <1>9 DEF ToSet
<1>11. \A x, y \in 1 .. k : x < y => a[x] <= a[y]
  BY <1>9
<1>12. {a[l] : l \in 1 .. k} = {NumberOf(d, j) : j \in S}
  <2>1. ToSet(t) = {t[l] : l \in 1 .. k}
    BY <1>9 DEF ToSet
  <2> HIDE DEF a
  <2>2. ASSUME NEW l \in 1 .. k PROVE \E j \in S : a[l] = NumberOf(d, j)
    <3>1. PICK j \in S : t[l] = WrittenAt(d, j)
      BY <1>2, <1>9, <1>10
    <3> QED BY <1>4, <1>10, <3>1
  <2>3. ASSUME NEW j \in S PROVE \E l \in 1 .. k : NumberOf(d, j) = a[l]
    <3>1. PICK l \in 1 .. k : t[l] = WrittenAt(d, j)
      BY <1>2, <1>9, <2>1
    <3> QED BY <1>4, <1>10, <3>1
  <2> QED BY <2>2, <2>3
<1> HIDE DEF a
<1>13. (\A l \in 1 .. k : a[l] = l) <=> {a[l] : l \in 1 .. k} = 1 .. k
  BY <1>3, <1>10, <1>11, ContiguousIs
<1>14. F.contiguous <=> {NumberOf(d, j) : j \in S} = 1 .. Cardinality(S)
  BY <1>2, <1>8, <1>9, <1>10, <1>12, <1>13
<1>15. \A j \in S : WrittenAt(d, j) \in ToSet(F.segments)
  BY <1>2, <1>8, <1>9
<1>16. \A x, y \in DOMAIN F.segments : x < y => F.segments[x].number <= F.segments[y].number
  BY <1>8, <1>9
<1>17. Len(F.groups) = Cardinality(G) /\ \A j \in G : F.groups[Place(d, G, j)] = TextOf(d, j)
  BY <1>1, <1>8 DEF GroupsAre
<1> QED BY <1>1, <1>2, <1>8, <1>9, <1>14, <1>15, <1>16, <1>17 DEF IsFileAt, G, S, WrittenAt, NumberOf, F

-----------------------------------------------------------------------------
(* The character data since the last tag.                                    *)

WellFormed(d) ==
  /\ Len(d) \in Nat /\ DOMAIN d = 1 .. Len(d)
  /\ \A k \in 1 .. Len(d) : d[k].kind = "start" => d[k].selfClosing \in BOOLEAN
  /\ \A k \in 1 .. Len(d) : d[k].kind \in {"text", "cdata"} => IsList(d[k].value)

LEMMA DocumentsAre ==
  ASSUME NEW d \in Documents
  PROVE  WellFormed(d)
<1>1. d \in Seq(ToSet(d))
  BY DocumentsAssumption
<1>2. Len(d) \in Nat /\ DOMAIN d = 1 .. Len(d)
  BY <1>1, LenProperties
<1> QED BY <1>2, DocumentsAssumption DEF WellFormed, IsList

PieceOf(d, k) == IF d[k].kind \in {"text", "cdata"} THEN Characters(d[k]) ELSE <<>>
IsTag(d, k) == d[k].kind \in {"start", "end"}
SinceTag(d, m, n) == FlattenSeq([k \in 1 .. n - m |-> PieceOf(d, m + k)])
LastTag(d, m, n) == m \in 1 .. n /\ IsTag(d, m) /\ \A j \in m + 1 .. n : ~IsTag(d, j)

LEMMA PiecesAreLists ==
  ASSUME NEW d, WellFormed(d), NEW k \in 1 .. Len(d)
  PROVE  IsList(PieceOf(d, k))
<1>1. CASE d[k].kind \notin {"text", "cdata"}
  BY <1>1, NoList DEF PieceOf
<1>2. CASE d[k].kind = "cdata"
  <2>1. IsList(d[k].value)
    BY <1>2 DEF WellFormed
  <2> QED BY <1>2, <2>1 DEF PieceOf, Characters
<1>3. CASE d[k].kind = "text"
  <2> DEFINE v == d[k].value
             w == DecodeEntities(v)
  <2>1. v \in Seq(ToSet(v))
    BY <1>3 DEF WellFormed, IsList
  <2>2. Len(v) \in Nat /\ DOMAIN v = 1 .. Len(v)
    BY <2>1, LenProperties
  <2>3. w = [i \in 1 .. Len(v) |-> Expand(v[i])]
    BY <2>2 DEF DecodeEntities
  <2> HIDE DEF v, w
  <2>4. DOMAIN w = 1 .. Len(v) /\ w = [i \in 1 .. Len(v) |-> w[i]]
    BY <2>3
  <2> DEFINE W == ToSet(w)
  <2>5. \A i \in 1 .. Len(v) : w[i] \in W
    BY <2>4 DEF ToSet
  <2> HIDE DEF W
  <2>6. w \in Seq(W)
    BY <2>2, <2>4, <2>5
  <2> QED BY <1>3, <2>6 DEF PieceOf, Characters, v, w, W, IsList
<1> QED BY <1>1, <1>2, <1>3

LEMMA PiecesShare ==
  ASSUME NEW d, WellFormed(d)
  PROVE  \E X : \A j \in 1 .. Len(d) : PieceOf(d, j) \in Seq(X)
<1> DEFINE X == UNION {ToSet(PieceOf(d, j)) : j \in 1 .. Len(d)}
<1>1. ASSUME NEW j \in 1 .. Len(d) PROVE PieceOf(d, j) \in Seq(X)
  <2>1. PieceOf(d, j) \in Seq(ToSet(PieceOf(d, j)))
    BY PiecesAreLists DEF IsList
  <2>2. ToSet(PieceOf(d, j)) \subseteq X
    OBVIOUS
  <2> HIDE DEF X
  <2> QED BY <2>1, <2>2, SeqMonotonic
<1> HIDE DEF X
<1> QED BY <1>1

(* One sequence more, one more concatenated.                                 *)
OneLonger(X, k, s, t) ==
  /\ k \in Nat /\ Len(s) = k /\ (k = 0 => s = <<>>) /\ Len(t) = k + 1
  /\ \A i \in 1 .. k + 1 : t[i] \in Seq(X)
  /\ \A i \in 1 .. k : s[i] = t[i]

LEMMA FlattenGrows ==
  ASSUME NEW X, NEW k, NEW s, NEW t, OneLonger(X, k, s, t)
  PROVE  FlattenSeq(t) = FlattenSeq(s) \o t[k + 1]
<1>0. /\ k \in Nat /\ Len(s) = k /\ (k = 0 => s = <<>>) /\ Len(t) = k + 1
      /\ \A i \in 1 .. k + 1 : t[i] \in Seq(X)
      /\ \A i \in 1 .. k : s[i] = t[i]
  BY DEF OneLonger
<1>1. PICK g : Flattens(g, X, k, s)
  <2>1. \A i \in 1 .. k : s[i] \in Seq(X)
    BY <1>0
  <2> QED BY <1>0, <2>1, FlattenFacts
<1>2. PICK h : Flattens(h, X, k + 1, t)
  <2>1. k + 1 \in Nat /\ k + 1 # 0
    BY <1>0
  <2> QED BY <1>0, <2>1, FlattenFacts
<1> DEFINE Same == {n \in Nat : n > k \/ g[n] = h[n]}
<1>3. g[0] = <<>> /\ \A i \in 1 .. k : g[i] = g[i - 1] \o s[i]
  BY <1>1 DEF Flattens
<1>4. h[0] = <<>> /\ \A i \in 1 .. k + 1 : h[i] = h[i - 1] \o t[i]
  BY <1>2 DEF Flattens
<1>5. 0 \in Same
  BY <1>0, <1>3, <1>4
<1>6. ASSUME NEW n \in Nat, n \in Same PROVE n + 1 \in Same
  <2>1. CASE n + 1 > k
    BY <2>1
  <2>2. CASE ~(n + 1 > k)
    <3>1. n + 1 \in 1 .. k /\ n + 1 \in 1 .. k + 1 /\ (n + 1) - 1 = n /\ g[n] = h[n]
      BY <1>0, <1>6, <2>2
    <3>2. g[n + 1] = g[n] \o s[n + 1] /\ h[n + 1] = h[n] \o t[n + 1] /\ s[n + 1] = t[n + 1]
      BY <1>0, <1>3, <1>4, <3>1
    <3>3. g[n + 1] = h[n + 1]
      <4> DEFINE a == g[n]
                 b == s[n + 1]
      <4>1. g[n + 1] = a \o b
        BY <3>2
      <4>2. h[n + 1] = a \o b
        BY <3>1, <3>2
      <4> HIDE DEF a, b
      <4> QED BY <4>1, <4>2
    <3> QED BY <3>3
  <2> QED BY <2>1, <2>2
<1>7. g[k] = h[k]
  <2> HIDE DEF Same
  <2>1. k \in Same
    BY <1>0, <1>5, <1>6, Induction
  <2> QED BY <1>0, <2>1 DEF Same
<1>8. h[k + 1] = h[k] \o t[k + 1]
  <2>1. k + 1 \in 1 .. k + 1 /\ (k + 1) - 1 = k
    BY <1>0
  <2> QED BY <1>4, <2>1
<1> QED BY <1>1, <1>2, <1>7, <1>8 DEF Flattens

LEMMA SinceGrows ==
  ASSUME NEW d, WellFormed(d), NEW m \in Nat, NEW n \in Nat, m <= n, n < Len(d)
  PROVE  SinceTag(d, m, n + 1) = SinceTag(d, m, n) \o PieceOf(d, n + 1)
<1> DEFINE k == n - m
           s == [j \in 1 .. k |-> PieceOf(d, m + j)]
           t == [j \in 1 .. k + 1 |-> PieceOf(d, m + j)]
<1>1. Len(d) \in Nat
  BY DEF WellFormed
<1>2. k \in Nat /\ (n + 1) - m = k + 1 /\ m + (k + 1) = n + 1 /\ \A j \in 1 .. k + 1 : m + j \in 1 .. Len(d)
  BY <1>1
<1>3. PICK X : \A j \in 1 .. Len(d) : PieceOf(d, j) \in Seq(X)
  BY PiecesShare
<1>4. FlattenSeq(s) = SinceTag(d, m, n)
  BY DEF SinceTag
<1>5. FlattenSeq(t) = SinceTag(d, m, n + 1)
  BY <1>2 DEF SinceTag
<1> HIDE DEF k
<1>6. Len(s) = k /\ Len(t) = k + 1 /\ (k = 0 => s = <<>>)
  BY <1>2
<1>7. /\ \A j \in 1 .. k + 1 : t[j] = PieceOf(d, m + j)
      /\ \A j \in 1 .. k : s[j] = t[j]
  BY <1>2
<1> HIDE DEF s, t
<1>8. \A j \in 1 .. k + 1 : t[j] \in Seq(X)
  BY <1>2, <1>3, <1>7
<1>9. FlattenSeq(t) = FlattenSeq(s) \o t[k + 1]
  <2>1. OneLonger(X, k, s, t)
    BY <1>2, <1>6, <1>7, <1>8 DEF OneLonger
  <2> QED BY <2>1, FlattenGrows
<1>10. t[k + 1] = PieceOf(d, n + 1)
  BY <1>2, <1>7
<1> QED BY <1>4, <1>5, <1>9, <1>10

LEMMA SinceIs ==
  ASSUME NEW d, WellFormed(d), NEW m \in Nat, NEW n \in Nat, m <= n, n <= Len(d)
  PROVE  \E X : SinceTag(d, m, n) \in Seq(X)
<1> DEFINE k == n - m
           s == [j \in 1 .. k |-> PieceOf(d, m + j)]
<1>1. Len(d) \in Nat
  BY DEF WellFormed
<1>2. k \in Nat /\ \A j \in 1 .. k : m + j \in 1 .. Len(d)
  BY <1>1
<1>3. PICK X : \A j \in 1 .. Len(d) : PieceOf(d, j) \in Seq(X)
  BY PiecesShare
<1>4. FlattenSeq(s) = SinceTag(d, m, n)
  BY DEF SinceTag
<1> HIDE DEF k
<1>5. Len(s) = k /\ (k = 0 => s = <<>>) /\ \A j \in 1 .. k : s[j] = PieceOf(d, m + j)
  BY <1>2
<1> HIDE DEF s
<1>6. \A j \in 1 .. k : s[j] \in Seq(X)
  BY <1>2, <1>3, <1>5
<1>7. PICK h : Flattens(h, X, k, s)
  BY <1>2, <1>5, <1>6, FlattenFacts
<1>8. h[k] \in Seq(X) /\ FlattenSeq(s) = h[k]
  BY <1>2, <1>7 DEF Flattens
<1> QED BY <1>4, <1>8

LEMMA SinceNow ==
  ASSUME NEW d, NEW n \in Nat
  PROVE  SinceTag(d, n, n) = <<>>
<1>1. n - n = 0 /\ 1 .. 0 = {}
  OBVIOUS
<1>2. [k \in 1 .. 0 |-> PieceOf(d, n + k)] = <<>>
  BY <1>1
<1>3. FlattenSeq(<<>>) = <<>>
  BY EmptySeq DEF FlattenSeq
<1> QED BY <1>1, <1>2, <1>3 DEF SinceTag

LEMMA GreatestIs ==
  ASSUME NEW S, NEW m \in S, S \subseteq Int, \A i \in S : i <= m
  PROVE  Max(S) = m
<1> DEFINE Greatest(x) == x \in S /\ \A y \in S : x >= y
<1>1. Greatest(m)
  OBVIOUS
<1>2. Max(S) = CHOOSE x : Greatest(x)
  BY DEF Max
<1>3. ASSUME NEW x, Greatest(x) PROVE x = m
  BY <1>1, <1>3
<1> HIDE DEF Greatest
<1>4. Greatest(CHOOSE x : Greatest(x))
  BY <1>1
<1> QED BY <1>2, <1>3, <1>4

LEMMA TextIsSince ==
  ASSUME NEW d, WellFormed(d), NEW n \in Nat, n < Len(d), NEW i \in 1 .. n, Opens(d, i),
         ClosedAt(d, i) = n + 1, Closes(d, n + 1), NEW m, LastTag(d, m, n)
  PROVE  TextOf(d, i) = Trim(SinceTag(d, m, n))
<1> DEFINE tags == {j \in i .. n : IsTag(d, j)}
<1>1. m \in 1 .. n /\ IsTag(d, m) /\ \A j \in m + 1 .. n : ~IsTag(d, j)
  BY DEF LastTag
<1>2. IsTag(d, i)
  BY DEF IsTag, Opens
<1>3. m \in tags
  BY <1>1, <1>2
<1>4. \A j \in tags : j <= m
  BY <1>1
<1>5. tags \subseteq Int
  OBVIOUS
<1>6. Max(tags) = m
  <2> HIDE DEF tags
  <2> QED BY <1>3, <1>4, <1>5, GreatestIs
<1>7. PieceOf(d, n + 1) = <<>>
  BY DEF PieceOf, Closes
<1>8. SinceTag(d, m, n + 1) = SinceTag(d, m, n) \o <<>>
  <2>1. SinceTag(d, m, n + 1) = SinceTag(d, m, n) \o PieceOf(d, n + 1)
    BY <1>1, SinceGrows
  <2> QED BY <1>7, <2>1
<1>9. SinceTag(d, m, n) \o <<>> = SinceTag(d, m, n)
  <2> PICK X : SinceTag(d, m, n) \in Seq(X)
    <3>1. m \in Nat /\ m <= n /\ n <= Len(d)
      BY <1>1 DEF WellFormed
    <3> QED BY <3>1, SinceIs
  <2> QED BY ConcatEmptySeq
<1>10. TextOf(d, i) = Trim(SinceTag(d, m, n + 1))
  <2>1. i # n + 1 /\ (n + 1) - 1 = n
    OBVIOUS
  <2>2. {j \in i .. (n + 1) - 1 : d[j].kind \in {"start", "end"}} = tags
    BY <2>1 DEF IsTag
  <2> HIDE DEF tags
  <2> QED BY <1>6, <2>1, <2>2 DEF TextOf, SinceTag, PieceOf
<1> QED BY <1>8, <1>9, <1>10

LEMMA TrimNothing == Trim(<<>>) = <<>>
<1>1. DOMAIN <<>> = {}
  OBVIOUS
<1> QED BY <1>1 DEF Trim

(* The text the parser holds, in an element whose text it keeps.             *)
TextIs(d, n, s) ==
  InElement(s, Text) => \E m : LastTag(d, m, n) /\ s.text = SinceTag(d, m, n)

LEMMA TextAtTag ==
  ASSUME NEW d, NEW n \in Nat, IsTag(d, n + 1), NEW s, s.text = <<>>
  PROVE  TextIs(d, n + 1, s)
<1>1. LastTag(d, n + 1, n + 1)
  BY DEF LastTag
<1>2. SinceTag(d, n + 1, n + 1) = <<>>
  BY SinceNow
<1> QED BY <1>1, <1>2 DEF TextIs

LEMMA TextGrows ==
  ASSUME NEW d, WellFormed(d), NEW n \in Nat, n < Len(d), ~IsTag(d, n + 1), NEW s, TextIs(d, n, s),
         NEW t, InElement(t, Text) => InElement(s, Text) /\ t.text = s.text \o PieceOf(d, n + 1)
  PROVE  TextIs(d, n + 1, t)
<1> SUFFICES ASSUME InElement(t, Text)
             PROVE  \E m : LastTag(d, m, n + 1) /\ t.text = SinceTag(d, m, n + 1)
  BY DEF TextIs
<1>1. PICK m : LastTag(d, m, n) /\ s.text = SinceTag(d, m, n)
  BY DEF TextIs
<1>2. m \in 1 .. n /\ IsTag(d, m) /\ \A j \in m + 1 .. n : ~IsTag(d, j)
  BY <1>1 DEF LastTag
<1>3. \A j \in m + 1 .. n + 1 : j \in m + 1 .. n \/ j = n + 1
  BY <1>2
<1>4. LastTag(d, m, n + 1)
  BY <1>2, <1>3 DEF LastTag
<1>5. SinceTag(d, m, n + 1) = SinceTag(d, m, n) \o PieceOf(d, n + 1)
  BY <1>2, SinceGrows
<1> QED BY <1>1, <1>4, <1>5

-----------------------------------------------------------------------------
(* The parser's state, field by field.                                       *)

Shape(s) ==
  s = [meta |-> s.meta, files |-> s.files, stack |-> s.stack, sawRoot |-> s.sawRoot,
       file |-> s.file, segment |-> s.segment, metaType |-> s.metaType, text |-> s.text]

Holds(s, meta, files, stack, sawRoot, file, segment, metaType, text) ==
  /\ Shape(s) /\ s.meta = meta /\ s.files = files /\ s.stack = stack /\ s.sawRoot = sawRoot
  /\ s.file = file /\ s.segment = segment /\ s.metaType = metaType /\ s.text = text

LEMMA HoldsIs ==
  ASSUME NEW s, NEW meta, NEW files, NEW stack, NEW sawRoot, NEW file, NEW segment, NEW metaType, NEW text,
         s = [meta |-> meta, files |-> files, stack |-> stack, sawRoot |-> sawRoot,
              file |-> file, segment |-> segment, metaType |-> metaType, text |-> text]
  PROVE  Holds(s, meta, files, stack, sawRoot, file, segment, metaType, text)
BY DEF Holds, Shape

(* o is s with the tag's element open.                                       *)
Opened(s, tag, o) ==
  /\ Shape(o) /\ o.text = <<>> /\ o.stack = s.stack /\ o.meta = s.meta /\ o.files = s.files
  /\ o.file = IF tag.name = "file"
              THEN [subject |-> tag.attributes["subject"], groups |-> <<>>, segments |-> <<>>]
              ELSE s.file
  /\ o.segment = IF tag.name = "segment"
                 THEN [number |-> tag.attributes["number"], bytes |-> tag.attributes["bytes"]]
                 ELSE s.segment
  /\ o.metaType = IF tag.name = "meta" THEN [type |-> tag.attributes["type"]] ELSE s.metaType

LEMMA OpenedIs ==
  ASSUME NEW s, Shape(s), NEW tag
  PROVE  Opened(s, tag, [OpenElement(s, tag) EXCEPT !.text = <<>>])
<1>1. CASE tag.name = "nzb"
  <2> DEFINE x == TRUE
  <2>1. OpenElement(s, tag) = [s EXCEPT !.sawRoot = x]
    BY <1>1 DEF OpenElement
  <2> HIDE DEF x
  <2> DEFINE o == OpenElement(s, tag)
  <2>2. o =
          [meta |-> s.meta, files |-> s.files, stack |-> s.stack, sawRoot |-> x,
           file |-> s.file, segment |-> s.segment, metaType |-> s.metaType, text |-> s.text]
    BY <2>1 DEF Shape
  <2> HIDE DEF o
  <2>3. [o EXCEPT !.text = <<>>] =
          [meta |-> s.meta, files |-> s.files, stack |-> s.stack, sawRoot |-> x,
           file |-> s.file, segment |-> s.segment, metaType |-> s.metaType, text |-> <<>>]
    BY <2>2
  <2> QED BY <1>1, <2>3 DEF Shape, Opened, o
<1>2. CASE tag.name = "file"
  <2> DEFINE x == [subject |-> tag.attributes["subject"], groups |-> <<>>, segments |-> <<>>]
  <2>1. OpenElement(s, tag) = [s EXCEPT !.file = x]
    BY <1>2 DEF OpenElement
  <2> HIDE DEF x
  <2> DEFINE o == OpenElement(s, tag)
  <2>2. o =
          [meta |-> s.meta, files |-> s.files, stack |-> s.stack, sawRoot |-> s.sawRoot,
           file |-> x, segment |-> s.segment, metaType |-> s.metaType, text |-> s.text]
    BY <2>1 DEF Shape
  <2> HIDE DEF o
  <2>3. [o EXCEPT !.text = <<>>] =
          [meta |-> s.meta, files |-> s.files, stack |-> s.stack, sawRoot |-> s.sawRoot,
           file |-> x, segment |-> s.segment, metaType |-> s.metaType, text |-> <<>>]
    BY <2>2
  <2> QED BY <1>2, <2>3 DEF Shape, Opened, o, x
<1>3. CASE tag.name = "meta"
  <2> DEFINE x == [type |-> tag.attributes["type"]]
  <2>1. OpenElement(s, tag) = [s EXCEPT !.metaType = x]
    BY <1>3 DEF OpenElement
  <2> HIDE DEF x
  <2> DEFINE o == OpenElement(s, tag)
  <2>2. o =
          [meta |-> s.meta, files |-> s.files, stack |-> s.stack, sawRoot |-> s.sawRoot,
           file |-> s.file, segment |-> s.segment, metaType |-> x, text |-> s.text]
    BY <2>1 DEF Shape
  <2> HIDE DEF o
  <2>3. [o EXCEPT !.text = <<>>] =
          [meta |-> s.meta, files |-> s.files, stack |-> s.stack, sawRoot |-> s.sawRoot,
           file |-> s.file, segment |-> s.segment, metaType |-> x, text |-> <<>>]
    BY <2>2
  <2> QED BY <1>3, <2>3 DEF Shape, Opened, o, x
<1>4. CASE tag.name = "segment"
  <2> DEFINE x == [number |-> tag.attributes["number"], bytes |-> tag.attributes["bytes"]]
  <2>1. OpenElement(s, tag) = [s EXCEPT !.segment = x]
    BY <1>4 DEF OpenElement
  <2> HIDE DEF x
  <2> DEFINE o == OpenElement(s, tag)
  <2>2. o =
          [meta |-> s.meta, files |-> s.files, stack |-> s.stack, sawRoot |-> s.sawRoot,
           file |-> s.file, segment |-> x, metaType |-> s.metaType, text |-> s.text]
    BY <2>1 DEF Shape
  <2> HIDE DEF o
  <2>3. [o EXCEPT !.text = <<>>] =
          [meta |-> s.meta, files |-> s.files, stack |-> s.stack, sawRoot |-> s.sawRoot,
           file |-> s.file, segment |-> x, metaType |-> s.metaType, text |-> <<>>]
    BY <2>2
  <2> QED BY <1>4, <2>3 DEF Shape, Opened, o, x
<1>5. CASE tag.name \notin {"nzb", "file", "meta", "segment"}
  <2>1. OpenElement(s, tag) = s
    BY <1>5 DEF OpenElement
  <2> QED BY <1>5, <2>1 DEF Shape, Opened
<1> QED BY <1>1, <1>2, <1>3, <1>4, <1>5

(* c is s with the element of that name closed.                              *)
Closed(s, name, c) ==
  /\ Shape(c) /\ c.text = s.text /\ c.stack = s.stack
  /\ c.files = IF name = "file" THEN Append(s.files, FinalizeFile(s.file)) ELSE s.files
  /\ c.meta = IF name = "meta" THEN Append(s.meta, <<s.metaType.type, Trim(s.text)>>) ELSE s.meta
  /\ name \notin {"file", "group", "segment"} => c.file = s.file
  /\ name = "file" => c.file = None
  /\ name = "group" => c.file = [s.file EXCEPT !.groups = Append(@, Trim(s.text))]
  /\ name = "segment" =>
       c.file = [s.file EXCEPT !.segments = Append(@, [number |-> s.segment.number,
                                                       bytes |-> s.segment.bytes,
                                                       messageId |-> StripAngleBrackets(Trim(s.text))])]
  /\ c.segment = IF name = "segment" THEN None ELSE s.segment
  /\ c.metaType = IF name = "meta" THEN None ELSE s.metaType

LEMMA ClosedIs ==
  ASSUME NEW s, Shape(s), NEW name
  PROVE  Closed(s, name, CloseElement(s, name))
<1>1. CASE name = "file"
  <2>1. CloseElement(s, name) = [s EXCEPT !.files = Append(@, FinalizeFile(s.file)), !.file = None]
    BY <1>1 DEF CloseElement
  <2> QED BY <1>1, <2>1 DEF Shape, Closed
<1>2. CASE name = "meta"
  <2>1. CloseElement(s, name) =
          [s EXCEPT !.meta = Append(@, <<s.metaType.type, Trim(s.text)>>), !.metaType = None]
    BY <1>2 DEF CloseElement
  <2> QED BY <1>2, <2>1 DEF Shape, Closed
<1>3. CASE name = "group"
  <2> DEFINE f == [s.file EXCEPT !.groups = Append(@, Trim(s.text))]
  <2>1. CloseElement(s, name) = [s EXCEPT !.file = f]
    BY <1>3 DEF CloseElement
  <2> HIDE DEF f
  <2>2. CloseElement(s, name) =
          [meta |-> s.meta, files |-> s.files, stack |-> s.stack, sawRoot |-> s.sawRoot,
           file |-> f, segment |-> s.segment, metaType |-> s.metaType, text |-> s.text]
    BY <2>1 DEF Shape
  <2>3. Closed(s, name, CloseElement(s, name)) <=> CloseElement(s, name).file = f
    <3>1. Shape(CloseElement(s, name))
      BY <2>2 DEF Shape
    <3> QED BY <1>3, <2>2, <3>1 DEF Closed, f
  <2> QED BY <2>2, <2>3
<1>4. CASE name = "segment"
  <2> DEFINE f == [s.file EXCEPT !.segments = Append(@, [number |-> s.segment.number,
                                                       bytes |-> s.segment.bytes,
                                                       messageId |-> StripAngleBrackets(Trim(s.text))])]
  <2>1. CloseElement(s, name) = [s EXCEPT !.file = f, !.segment = None]
    BY <1>4 DEF CloseElement
  <2> HIDE DEF f
  <2>2. CloseElement(s, name) =
          [meta |-> s.meta, files |-> s.files, stack |-> s.stack, sawRoot |-> s.sawRoot,
           file |-> f, segment |-> None, metaType |-> s.metaType, text |-> s.text]
    BY <2>1 DEF Shape
  <2>3. Closed(s, name, CloseElement(s, name)) <=> CloseElement(s, name).file = f
    <3>1. Shape(CloseElement(s, name))
      BY <2>2 DEF Shape
    <3> QED BY <1>4, <2>2, <3>1 DEF Closed, f
  <2> QED BY <2>2, <2>3
<1>5. CASE name \notin {"file", "meta", "group", "segment"}
  <2>1. CloseElement(s, name) = s
    BY <1>5 DEF CloseElement
  <2> QED BY <1>5, <2>1 DEF Closed
<1> QED BY <1>1, <1>2, <1>3, <1>4, <1>5

Fields(f, subject, groups, segments) ==
  /\ f.subject = subject /\ f.groups = groups /\ f.segments = segments
  /\ f = [subject |-> f.subject, groups |-> f.groups, segments |-> f.segments]

LEMMA FieldsAre ==
  ASSUME NEW f, NEW x, NEW y, NEW z, f = [subject |-> x, groups |-> y, segments |-> z]
  PROVE  Fields(f, x, y, z)
BY DEF Fields

LEMMA GroupAdded ==
  ASSUME NEW f, f = [subject |-> f.subject, groups |-> f.groups, segments |-> f.segments], NEW x,
         NEW h, h = [f EXCEPT !.groups = Append(@, x)]
  PROVE  h = [subject |-> f.subject, groups |-> Append(f.groups, x), segments |-> f.segments]
OBVIOUS

LEMMA SegmentAdded ==
  ASSUME NEW f, f = [subject |-> f.subject, groups |-> f.groups, segments |-> f.segments], NEW x,
         NEW h, h = [f EXCEPT !.segments = Append(@, x)]
  PROVE  h = [subject |-> f.subject, groups |-> f.groups, segments |-> Append(f.segments, x)]
OBVIOUS

-----------------------------------------------------------------------------
(* What the parser holds after n items, and what a step does to it.          *)

SegmentFrom(d, i, g) ==
  g = [number |-> NumberOf(d, i), bytes |-> d[i].attributes["bytes"]] /\ NumberOf(d, i) \in Int
MetaFrom(d, i, t) == t = [type |-> d[i].attributes["type"]]

FileSlot(d, st, n, f) ==
  \/ f = None /\ Shadowed(d, st, n, "file")
  \/ \E l : Newest(d, st, n, "file", l) /\ FileFrom(d, st, n, l, f)
SegmentSlot(d, st, n, g) ==
  \/ g = None /\ Shadowed(d, st, n, "segment")
  \/ \E l : Newest(d, st, n, "segment", l) /\ SegmentFrom(d, l, g)
MetaSlot(d, st, n, t) ==
  \/ t = None /\ Shadowed(d, st, n, "meta")
  \/ \E l : Newest(d, st, n, "meta", l) /\ MetaFrom(d, l, t)

(* i is in a file, which is open or ends after it.                           *)
InAFile(d, st, n, i) ==
  i \in 1 .. n /\ \E e \in Elements(d, "file", 1, n) : e < i /\ (e \in Held(st) \/ i < ClosedAt(d, e))
NoneOutside(d, st, n) ==
  \A i \in Done(d, st, "group", 1, n) \cup Done(d, st, "segment", 1, n) : InAFile(d, st, n, i)

Body(d, st, n, s) ==
  /\ FilesAre(d, Done(d, st, "file", 1, n), s.files)
  /\ MetaAre(d, Done(d, st, "meta", 1, n), s.meta)
  /\ FileSlot(d, st, n, s.file)
  /\ SegmentSlot(d, st, n, s.segment)
  /\ MetaSlot(d, st, n, s.metaType)
  /\ NoneOutside(d, st, n)

LEMMA DoneStays ==
  ASSUME NEW d, NEW st, NEW n, NEW tt, NEW done, Moves(d, st, n, tt, done), NEW name,
         \A i \in done : d[i].name # name, NEW from \in 1 .. n + 1
  PROVE  Done(d, tt, name, from, n + 1) = Done(d, st, name, from, n)
<1>1. Done(d, tt, name, from, n + 1) =
        Done(d, st, name, from, n) \cup {i \in done : d[i].name = name /\ from <= i}
  BY DEF Moves
<1> QED BY <1>1

LEMMA DoneGains ==
  ASSUME NEW d, NEW st, NEW n, NEW tt, NEW i, Moves(d, st, n, tt, {i}), NEW from \in 1 .. n + 1, from <= i,
         NEW name, d[i].name = name
  PROVE  /\ Done(d, tt, name, from, n + 1) = Done(d, st, name, from, n) \cup {i}
         /\ i \notin Done(d, st, name, from, n)
<1>1. Done(d, tt, name, from, n + 1) =
        Done(d, st, name, from, n) \cup {j \in {i} : d[j].name = name /\ from <= j}
  BY DEF Moves
<1>2. i \notin Done(d, st, name, from, n)
  BY DEF Moves
<1> QED BY <1>1, <1>2

LEMMA FileStays ==
  ASSUME NEW d, NEW st, NEW n, Nested(d, st, n), NEW tt, NEW done, Moves(d, st, n, tt, done),
         ~Starts(d, n + 1, "file"), \A i \in done : d[i].name \notin {"file", "group", "segment"},
         NEW f, FileSlot(d, st, n, f)
  PROVE  FileSlot(d, tt, n + 1, f)
<1>1. n \in Nat /\ \A l \in Held(st) : l \in 1 .. n
  BY HeldIs
<1>2. /\ Shadowed(d, st, n, "file") => Shadowed(d, tt, n + 1, "file")
      /\ \A l : Newest(d, st, n, "file", l) => Newest(d, tt, n + 1, "file", l)
  BY DEF Moves
<1>3. ASSUME NEW l, Newest(d, st, n, "file", l), FileFrom(d, st, n, l, f)
      PROVE  FileFrom(d, tt, n + 1, l, f)
  <2>1. l \in 1 .. n + 1
    BY <1>1, <1>3 DEF Newest
  <2>2. /\ Done(d, tt, "group", l, n + 1) = Done(d, st, "group", l, n)
        /\ Done(d, tt, "segment", l, n + 1) = Done(d, st, "segment", l, n)
    BY <2>1, DoneStays
  <2> QED BY <1>3, <2>2 DEF FileFrom
<1> QED BY <1>2, <1>3 DEF FileSlot

LEMMA SegmentStays ==
  ASSUME NEW d, NEW st, NEW n, NEW tt, NEW done, Moves(d, st, n, tt, done),
         ~Starts(d, n + 1, "segment"), \A i \in done : d[i].name # "segment",
         NEW g, SegmentSlot(d, st, n, g)
  PROVE  SegmentSlot(d, tt, n + 1, g)
<1>1. /\ Shadowed(d, st, n, "segment") => Shadowed(d, tt, n + 1, "segment")
      /\ \A l : Newest(d, st, n, "segment", l) => Newest(d, tt, n + 1, "segment", l)
  BY DEF Moves
<1> QED BY <1>1 DEF SegmentSlot

LEMMA MetaStays ==
  ASSUME NEW d, NEW st, NEW n, NEW tt, NEW done, Moves(d, st, n, tt, done),
         ~Starts(d, n + 1, "meta"), \A i \in done : d[i].name # "meta",
         NEW t, MetaSlot(d, st, n, t)
  PROVE  MetaSlot(d, tt, n + 1, t)
<1>1. /\ Shadowed(d, st, n, "meta") => Shadowed(d, tt, n + 1, "meta")
      /\ \A l : Newest(d, st, n, "meta", l) => Newest(d, tt, n + 1, "meta", l)
  BY DEF Moves
<1> QED BY <1>1 DEF MetaSlot

LEMMA InsideStays ==
  ASSUME NEW d, NEW st, NEW n, Nested(d, st, n), NEW tt, NEW done, Moves(d, st, n, tt, done),
         NEW i, InAFile(d, st, n, i)
  PROVE  InAFile(d, tt, n + 1, i)
<1>1. n \in Nat /\ i \in 1 .. n
  BY HeldIs DEF InAFile
<1>2. PICK e \in Elements(d, "file", 1, n) : e < i /\ (e \in Held(st) \/ i < ClosedAt(d, e))
  BY DEF InAFile
<1>3. e \in Elements(d, "file", 1, n + 1)
  BY <1>1, <1>2 DEF Elements
<1>4. ASSUME e \in Held(st), e \notin Held(tt) PROVE i < ClosedAt(d, e)
  <2>1. e \in Done(d, tt, "file", 1, n + 1) /\ e \notin Done(d, st, "file", 1, n)
    BY <1>3, <1>4 DEF Done
  <2>2. Done(d, tt, "file", 1, n + 1) =
          Done(d, st, "file", 1, n) \cup {j \in done : d[j].name = "file" /\ 1 <= j}
    BY <1>1 DEF Moves
  <2>3. e \in done
    BY <2>1, <2>2
  <2>4. ClosedAt(d, e) = n + 1
    BY <2>3 DEF Moves
  <2> QED BY <1>1, <2>4
<1>5. i \in 1 .. n + 1
  BY <1>1
<1> QED BY <1>2, <1>3, <1>4, <1>5 DEF InAFile

LEMMA NoneOutsideStays ==
  ASSUME NEW d, NEW st, NEW n, Nested(d, st, n), NEW tt, NEW done, Moves(d, st, n, tt, done),
         NoneOutside(d, st, n),
         \A i \in done : d[i].name \in {"group", "segment"} => InAFile(d, tt, n + 1, i)
  PROVE  NoneOutside(d, tt, n + 1)
<1>1. n \in Nat /\ 1 \in 1 .. n + 1
  BY HeldIs
<1>2. ASSUME NEW name \in {"group", "segment"}, NEW i \in Done(d, tt, name, 1, n + 1)
      PROVE  InAFile(d, tt, n + 1, i)
  <2>1. i \in Done(d, st, name, 1, n) \/ (i \in done /\ d[i].name = name)
    BY <1>1, <1>2 DEF Moves
  <2>2. CASE i \in Done(d, st, name, 1, n)
    <3>1. InAFile(d, st, n, i)
      BY <1>2, <2>2 DEF NoneOutside
    <3> QED BY <3>1, InsideStays
  <2>3. CASE i \in done /\ d[i].name = name
    BY <1>2, <2>3
  <2> QED BY <2>1, <2>2, <2>3
<1> QED BY <1>2 DEF NoneOutside

-----------------------------------------------------------------------------
(* The element i ends with item n + 1, and p is the state it is closed in.   *)

ClosingFile(d, st, n, tt, i, p) ==
  IF d[i].name = "file"
  THEN p.file # None => FileFrom(d, st, n, i, p.file) /\ Shadowed(d, tt, n + 1, "file")
  ELSE FileSlot(d, st, n, p.file)
ClosingSegment(d, st, n, tt, i, p) ==
  IF d[i].name = "segment"
  THEN p.segment # None => SegmentFrom(d, i, p.segment) /\ Shadowed(d, tt, n + 1, "segment")
  ELSE SegmentSlot(d, st, n, p.segment)
ClosingMeta(d, st, n, tt, i, p) ==
  IF d[i].name = "meta"
  THEN p.metaType # None => MetaFrom(d, i, p.metaType) /\ Shadowed(d, tt, n + 1, "meta")
  ELSE MetaSlot(d, st, n, p.metaType)

Closing(d, st, n, tt, i, p) ==
  /\ FilesAre(d, Done(d, st, "file", 1, n), p.files)
  /\ MetaAre(d, Done(d, st, "meta", 1, n), p.meta)
  /\ NoneOutside(d, st, n)
  /\ ClosingFile(d, st, n, tt, i, p)
  /\ ClosingSegment(d, st, n, tt, i, p)
  /\ ClosingMeta(d, st, n, tt, i, p)
  /\ \A name : name # d[i].name => ~Starts(d, n + 1, name)
  /\ d[i].name \in Text => Trim(p.text) = TextOf(d, i)
  /\ ~CloseFails(p, d[i].name)

(* What a closing element leaves alone.                                      *)
LEMMA CloseSpares ==
  ASSUME NEW d, NEW st, NEW n, Nested(d, st, n), NEW tt, NEW i, Moves(d, st, n, tt, {i}),
         NEW p, Closing(d, st, n, tt, i, p)
  PROVE  /\ d[i].name # "file" => FilesAre(d, Done(d, tt, "file", 1, n + 1), p.files)
         /\ d[i].name # "meta" => /\ MetaAre(d, Done(d, tt, "meta", 1, n + 1), p.meta)
                                  /\ MetaSlot(d, tt, n + 1, p.metaType)
         /\ d[i].name # "segment" => SegmentSlot(d, tt, n + 1, p.segment)
         /\ d[i].name \notin {"file", "group", "segment"} => FileSlot(d, tt, n + 1, p.file)
         /\ d[i].name \notin {"group", "segment"} => NoneOutside(d, tt, n + 1)
<1>1. n \in Nat /\ 1 \in 1 .. n + 1
  BY HeldIs
<1>2. ASSUME d[i].name # "file"
      PROVE  FilesAre(d, Done(d, tt, "file", 1, n + 1), p.files)
  <2>1. Done(d, tt, "file", 1, n + 1) = Done(d, st, "file", 1, n)
    BY <1>1, <1>2, DoneStays
  <2> QED BY <2>1 DEF Closing
<1>3. ASSUME d[i].name # "meta"
      PROVE  MetaAre(d, Done(d, tt, "meta", 1, n + 1), p.meta) /\ MetaSlot(d, tt, n + 1, p.metaType)
  <2>1. Done(d, tt, "meta", 1, n + 1) = Done(d, st, "meta", 1, n)
    BY <1>1, <1>3, DoneStays
  <2>2. ~Starts(d, n + 1, "meta") /\ MetaSlot(d, st, n, p.metaType)
    BY <1>3 DEF Closing, ClosingMeta
  <2>3. MetaSlot(d, tt, n + 1, p.metaType)
    BY <1>3, <2>2, MetaStays
  <2> QED BY <2>1, <2>3 DEF Closing
<1>4. ASSUME d[i].name # "segment"
      PROVE  SegmentSlot(d, tt, n + 1, p.segment)
  <2>1. ~Starts(d, n + 1, "segment") /\ SegmentSlot(d, st, n, p.segment)
    BY <1>4 DEF Closing, ClosingSegment
  <2> QED BY <1>4, <2>1, SegmentStays
<1>5. ASSUME d[i].name \notin {"file", "group", "segment"}
      PROVE  FileSlot(d, tt, n + 1, p.file)
  <2>1. ~Starts(d, n + 1, "file") /\ FileSlot(d, st, n, p.file)
    BY <1>5 DEF Closing, ClosingFile
  <2> QED BY <1>5, <2>1, FileStays
<1>6. ASSUME d[i].name \notin {"group", "segment"}
      PROVE  NoneOutside(d, tt, n + 1)
  <2>1. NoneOutside(d, st, n)
    BY DEF Closing
  <2> QED BY <1>6, <2>1, NoneOutsideStays
<1> QED BY <1>2, <1>3, <1>4, <1>5, <1>6

LEMMA FileCloses ==
  ASSUME NEW d, NEW st, NEW n, Nested(d, st, n), NEW tt, NEW i, Moves(d, st, n, tt, {i}),
         NEW p, Closing(d, st, n, tt, i, p), d[i].name = "file"
  PROVE  /\ FilesAre(d, Done(d, tt, "file", 1, n + 1), Append(p.files, FinalizeFile(p.file)))
         /\ FileSlot(d, tt, n + 1, None)
<1>1. n \in Nat /\ 1 \in 1 .. n + 1 /\ 1 \in Nat \ {0}
  BY HeldIs
<1>2. p.file # None
  BY DEF Closing, CloseFails
<1>3. FileFrom(d, st, n, i, p.file) /\ Shadowed(d, tt, n + 1, "file")
  BY <1>2 DEF Closing, ClosingFile
<1>4. i \in 1 .. n + 1 /\ ClosedAt(d, i) = n + 1 /\ \A j \in Held(tt) : j < i
  BY DEF Moves
<1>5. ASSUME NEW name \in {"group", "segment"}
      PROVE  Done(d, st, name, i, n) = Elements(d, name, i, ClosedAt(d, i))
  <2>1. Done(d, tt, name, i, n + 1) = Done(d, st, name, i, n)
    BY <1>4, DoneStays
  <2>2. \A j \in Elements(d, name, i, n + 1) : j \in i .. n + 1
    BY DEF Elements
  <2>3. \A j \in Elements(d, name, i, n + 1) : j \notin Held(tt)
    <3>1. ASSUME NEW j \in Elements(d, name, i, n + 1), j \in Held(tt) PROVE FALSE
      <4>1. j \in i .. n + 1 /\ j < i
        BY <1>4, <2>2, <3>1
      <4> QED BY <1>1, <1>4, <4>1
    <3> QED BY <3>1
  <2>4. Done(d, tt, name, i, n + 1) = Elements(d, name, i, n + 1)
    BY <2>3 DEF Done
  <2> QED BY <1>4, <2>1, <2>4
<1>6. IsFileAt(d, i, FinalizeFile(p.file))
  BY <1>3, <1>5, Finalized
<1> DEFINE S == Done(d, st, "file", 1, n)
<1>7. /\ Done(d, tt, "file", 1, n + 1) = S \cup {i} /\ i \notin S
  <2>1. 1 <= i
    BY <1>4
  <2> QED BY <1>1, <2>1, DoneGains
<1>8. OverBy(d, S, n) /\ FilesAre(d, S, p.files)
  BY <1>1, DoneEnded DEF Closing
<1> HIDE DEF S
<1>9. FilesAre(d, S \cup {i}, Append(p.files, FinalizeFile(p.file)))
  BY <1>1, <1>4, <1>6, <1>7, <1>8, FilesGrow
<1> QED BY <1>3, <1>7, <1>9 DEF FileSlot

LEMMA MetaCloses ==
  ASSUME NEW d, NEW st, NEW n, Nested(d, st, n), NEW tt, NEW i, Moves(d, st, n, tt, {i}),
         NEW p, Closing(d, st, n, tt, i, p), d[i].name = "meta"
  PROVE  /\ MetaAre(d, Done(d, tt, "meta", 1, n + 1), Append(p.meta, <<p.metaType.type, Trim(p.text)>>))
         /\ MetaSlot(d, tt, n + 1, None)
<1>1. n \in Nat /\ 1 \in 1 .. n + 1
  BY HeldIs
<1>2. p.metaType # None
  BY DEF Closing, CloseFails
<1>3. MetaFrom(d, i, p.metaType) /\ Shadowed(d, tt, n + 1, "meta")
  BY <1>2 DEF Closing, ClosingMeta
<1>4. Trim(p.text) = TextOf(d, i)
  BY DEF Closing, Text
<1>5. <<p.metaType.type, Trim(p.text)>> = Said(d, i)
  BY <1>3, <1>4 DEF MetaFrom, Said
<1>6. i \in 1 .. n + 1 /\ ClosedAt(d, i) = n + 1
  BY DEF Moves
<1> DEFINE S == Done(d, st, "meta", 1, n)
<1>7. /\ Done(d, tt, "meta", 1, n + 1) = S \cup {i} /\ i \notin S
  <2>1. 1 <= i
    BY <1>6
  <2> QED BY <1>1, <2>1, DoneGains
<1>8. OverBy(d, S, n) /\ MetaAre(d, S, p.meta)
  BY <1>1, DoneEnded DEF Closing
<1> HIDE DEF S
<1>9. MetaAre(d, S \cup {i}, Append(p.meta, Said(d, i)))
  BY <1>1, <1>6, <1>7, <1>8, MetaGrows
<1> QED BY <1>3, <1>5, <1>7, <1>9 DEF MetaSlot

(* A group or a segment ends in the file that is open.                       *)
LEMMA InTheFile ==
  ASSUME NEW d, NEW st, NEW n, Nested(d, st, n), NEW tt, NEW i, Moves(d, st, n, tt, {i}),
         NEW p, Closing(d, st, n, tt, i, p), d[i].name \in {"group", "segment"}
  PROVE  /\ \E l : /\ Newest(d, tt, n + 1, "file", l) /\ FileFrom(d, st, n, l, p.file)
                   /\ l \in 1 .. n + 1 /\ l <= i
         /\ NoneOutside(d, tt, n + 1)
<1>1. n \in Nat
  BY HeldIs
<1>2. p.file # None /\ d[i].name # "file"
  BY DEF Closing, CloseFails
<1>3. FileSlot(d, st, n, p.file) /\ ~Starts(d, n + 1, "file")
  BY <1>2 DEF Closing, ClosingFile
<1>4. PICK l : Newest(d, st, n, "file", l) /\ FileFrom(d, st, n, l, p.file)
  BY <1>2, <1>3 DEF FileSlot
<1>5. Newest(d, tt, n + 1, "file", l)
  BY <1>2, <1>3, <1>4 DEF Moves
<1>6. i \in 1 .. n + 1 /\ \A j \in Held(tt) : j < i
  BY DEF Moves
<1>7. l \in Held(tt) /\ d[l].name = "file" /\ l < i /\ l \in 1 .. n /\ Opens(d, l)
  <2>1. l \in Held(st)
    BY <1>4 DEF Newest
  <2> QED BY <1>5, <1>6, <2>1, HeldIs DEF Newest
<1>8. l \in Elements(d, "file", 1, n + 1)
  BY <1>1, <1>7 DEF Elements, Opens
<1>9. InAFile(d, tt, n + 1, i)
  BY <1>6, <1>7, <1>8 DEF InAFile
<1>10. NoneOutside(d, tt, n + 1)
  <2>1. NoneOutside(d, st, n)
    BY DEF Closing
  <2> QED BY <1>9, <2>1, NoneOutsideStays
<1>11. l \in 1 .. n + 1 /\ l <= i
  BY <1>1, <1>6, <1>7
<1> QED BY <1>4, <1>5, <1>10, <1>11

LEMMA GroupCloses ==
  ASSUME NEW d, NEW st, NEW n, Nested(d, st, n), NEW tt, NEW i, Moves(d, st, n, tt, {i}),
         NEW p, Closing(d, st, n, tt, i, p), d[i].name = "group"
  PROVE  FileSlot(d, tt, n + 1, [p.file EXCEPT !.groups = Append(@, Trim(p.text))])
<1> DEFINE f == [p.file EXCEPT !.groups = Append(@, Trim(p.text))]
<1>1. n \in Nat
  BY HeldIs
<1>2. PICK l : /\ Newest(d, tt, n + 1, "file", l) /\ FileFrom(d, st, n, l, p.file)
               /\ l \in 1 .. n + 1 /\ l <= i
  BY InTheFile
<1>3. Trim(p.text) = TextOf(d, i)
  BY DEF Closing, Text
<1> DEFINE g == p.file
           S == Done(d, st, "group", l, n)
<1>4. /\ g = [subject |-> g.subject, groups |-> g.groups, segments |-> g.segments]
      /\ g.subject = d[l].attributes["subject"]
      /\ GroupsAre(d, S, g.groups) /\ SegmentsAre(d, Done(d, st, "segment", l, n), g.segments)
  BY <1>2 DEF FileFrom
<1>5. f = [g EXCEPT !.groups = Append(@, TextOf(d, i))]
  BY <1>3
<1> HIDE DEF f
<1>6. Done(d, tt, "group", l, n + 1) = S \cup {i} /\ i \notin S
  BY <1>2, DoneGains
<1>7. Done(d, tt, "segment", l, n + 1) = Done(d, st, "segment", l, n)
  BY <1>2, DoneStays
<1>8. OverBy(d, S, n)
  BY <1>2, DoneEnded
<1>9. ClosedAt(d, i) = n + 1
  BY DEF Moves
<1> HIDE DEF g, S
<1>10. f = [subject |-> g.subject, groups |-> Append(g.groups, TextOf(d, i)), segments |-> g.segments]
  BY <1>4, <1>5, GroupAdded
<1>11. GroupsAre(d, S \cup {i}, Append(g.groups, TextOf(d, i)))
  BY <1>1, <1>4, <1>6, <1>8, <1>9, GroupsGrow
<1>12. FileFrom(d, tt, n + 1, l, f)
  <2>1. /\ f.subject = g.subject /\ f.groups = Append(g.groups, TextOf(d, i)) /\ f.segments = g.segments
        /\ f = [subject |-> f.subject, groups |-> f.groups, segments |-> f.segments]
    <3>1. Fields(f, g.subject, Append(g.groups, TextOf(d, i)), g.segments)
      BY <1>10, FieldsAre
    <3> QED BY <3>1 DEF Fields
  <2> QED BY <1>4, <1>6, <1>7, <1>11, <2>1 DEF FileFrom
<1>13. FileSlot(d, tt, n + 1, f)
  BY <1>2, <1>12 DEF FileSlot
<1> QED BY <1>13 DEF f

WithSegment(p) ==
  [p.file EXCEPT !.segments = Append(@, [number |-> p.segment.number,
                                         bytes |-> p.segment.bytes,
                                         messageId |-> StripAngleBrackets(Trim(p.text))])]

LEMMA SegmentCloses ==
  ASSUME NEW d, NEW st, NEW n, Nested(d, st, n), NEW tt, NEW i, Moves(d, st, n, tt, {i}),
         NEW p, Closing(d, st, n, tt, i, p), d[i].name = "segment"
  PROVE  /\ FileSlot(d, tt, n + 1, WithSegment(p))
         /\ SegmentSlot(d, tt, n + 1, None)
<1> DEFINE f == WithSegment(p)
<1>1. n \in Nat
  BY HeldIs
<1>2. PICK l : /\ Newest(d, tt, n + 1, "file", l) /\ FileFrom(d, st, n, l, p.file)
               /\ l \in 1 .. n + 1 /\ l <= i
  BY InTheFile
<1>3. Trim(p.text) = TextOf(d, i) /\ p.segment # None
  BY DEF Closing, Text, CloseFails
<1>4. SegmentFrom(d, i, p.segment) /\ Shadowed(d, tt, n + 1, "segment")
  BY <1>3 DEF Closing, ClosingSegment
<1>5. /\ p.segment.number = NumberOf(d, i) /\ p.segment.bytes = d[i].attributes["bytes"]
      /\ NumberOf(d, i) \in Int
  BY <1>4 DEF SegmentFrom
<1> DEFINE g == p.file
           S == Done(d, st, "segment", l, n)
<1>6. /\ g = [subject |-> g.subject, groups |-> g.groups, segments |-> g.segments]
      /\ g.subject = d[l].attributes["subject"]
      /\ GroupsAre(d, Done(d, st, "group", l, n), g.groups) /\ SegmentsAre(d, S, g.segments)
  BY <1>2 DEF FileFrom
<1>7. f = [g EXCEPT !.segments = Append(@, WrittenAt(d, i))]
  BY <1>3, <1>5 DEF WrittenAt, WithSegment
<1>8. Done(d, tt, "segment", l, n + 1) = S \cup {i} /\ i \notin S
  BY <1>2, DoneGains
<1>9. Done(d, tt, "group", l, n + 1) = Done(d, st, "group", l, n)
  BY <1>2, DoneStays
<1>10. OverBy(d, S, n)
  BY <1>2, DoneEnded
<1> HIDE DEF f, g, S
<1>11. f = [subject |-> g.subject, groups |-> g.groups, segments |-> Append(g.segments, WrittenAt(d, i))]
  BY <1>6, <1>7, SegmentAdded
<1>12. SegmentsAre(d, S \cup {i}, Append(g.segments, WrittenAt(d, i)))
  BY <1>1, <1>5, <1>6, <1>8, <1>10, SegmentsGrow
<1>13. FileFrom(d, tt, n + 1, l, f)
  <2>1. /\ f.subject = g.subject /\ f.groups = g.groups /\ f.segments = Append(g.segments, WrittenAt(d, i))
        /\ f = [subject |-> f.subject, groups |-> f.groups, segments |-> f.segments]
    <3>1. Fields(f, g.subject, g.groups, Append(g.segments, WrittenAt(d, i)))
      BY <1>11, FieldsAre
    <3> QED BY <3>1 DEF Fields
  <2> QED BY <1>6, <1>8, <1>9, <1>12, <2>1 DEF FileFrom
<1>14. FileSlot(d, tt, n + 1, f)
  BY <1>2, <1>13 DEF FileSlot
<1> QED BY <1>4, <1>14 DEF f, SegmentSlot

LEMMA CloseKeeps ==
  ASSUME NEW d, NEW st, NEW n, Nested(d, st, n), NEW tt, NEW i, Moves(d, st, n, tt, {i}),
         NEW p, Closing(d, st, n, tt, i, p), NEW c, Closed(p, d[i].name, c)
  PROVE  Body(d, tt, n + 1, c)
<1>1. CASE d[i].name = "file"
  <2>1. c.files = Append(p.files, FinalizeFile(p.file)) /\ c.file = None
        /\ c.meta = p.meta /\ c.segment = p.segment /\ c.metaType = p.metaType
    BY <1>1 DEF Closed
  <2> QED BY <1>1, <2>1, CloseSpares, FileCloses DEF Body
<1>2. CASE d[i].name = "meta"
  <2>1. c.meta = Append(p.meta, <<p.metaType.type, Trim(p.text)>>) /\ c.metaType = None
        /\ c.files = p.files /\ c.file = p.file /\ c.segment = p.segment
    BY <1>2 DEF Closed
  <2> QED BY <1>2, <2>1, CloseSpares, MetaCloses DEF Body
<1>3. CASE d[i].name = "group"
  <2> DEFINE f == [p.file EXCEPT !.groups = Append(@, Trim(p.text))]
  <2>1. /\ c.file = f /\ c.files = p.files /\ c.meta = p.meta
        /\ c.segment = p.segment /\ c.metaType = p.metaType
    BY <1>3 DEF Closed
  <2>2. FileSlot(d, tt, n + 1, f)
    BY <1>3, GroupCloses
  <2> HIDE DEF f
  <2>3. NoneOutside(d, tt, n + 1)
    BY <1>3, InTheFile
  <2>4. /\ FilesAre(d, Done(d, tt, "file", 1, n + 1), p.files)
        /\ MetaAre(d, Done(d, tt, "meta", 1, n + 1), p.meta) /\ MetaSlot(d, tt, n + 1, p.metaType)
        /\ SegmentSlot(d, tt, n + 1, p.segment)
    BY <1>3, CloseSpares
  <2> QED BY <2>1, <2>2, <2>3, <2>4 DEF Body
<1>4. CASE d[i].name = "segment"
  <2>1. /\ c.file = WithSegment(p) /\ c.files = p.files /\ c.meta = p.meta
        /\ c.segment = None /\ c.metaType = p.metaType
    BY <1>4 DEF Closed, WithSegment
  <2>2. FileSlot(d, tt, n + 1, WithSegment(p)) /\ SegmentSlot(d, tt, n + 1, None)
    BY <1>4, SegmentCloses
  <2>3. NoneOutside(d, tt, n + 1)
    BY <1>4, InTheFile
  <2>4. /\ FilesAre(d, Done(d, tt, "file", 1, n + 1), p.files)
        /\ MetaAre(d, Done(d, tt, "meta", 1, n + 1), p.meta) /\ MetaSlot(d, tt, n + 1, p.metaType)
    BY <1>4, CloseSpares
  <2> QED BY <2>1, <2>2, <2>3, <2>4 DEF Body
<1>5. CASE d[i].name \notin {"file", "meta", "group", "segment"}
  <2>1. c.files = p.files /\ c.file = p.file /\ c.meta = p.meta /\ c.segment = p.segment
        /\ c.metaType = p.metaType
    BY <1>5 DEF Closed
  <2> QED BY <1>5, <2>1, CloseSpares DEF Body
<1> QED BY <1>1, <1>2, <1>3, <1>4, <1>5

-----------------------------------------------------------------------------
(* The names of the open elements.                                           *)

NamesAre(d, st, names) ==
  IsList(names) /\ Len(names) = Len(st) /\ \A a \in 1 .. Len(st) : names[a] = d[st[a]].name

LEMMA ListIs ==
  ASSUME NEW X, NEW s \in Seq(X)
  PROVE  IsList(s)
<1> DEFINE Y == ToSet(s)
<1>1. Len(s) \in Nat /\ DOMAIN s = 1 .. Len(s) /\ s = [k \in 1 .. Len(s) |-> s[k]]
  BY LenProperties
<1>2. \A k \in 1 .. Len(s) : s[k] \in Y
  BY <1>1 DEF ToSet
<1> HIDE DEF Y
<1>3. s \in Seq(Y)
  BY <1>1, <1>2
<1> QED BY <1>3 DEF Y, IsList

LEMMA TopIs ==
  ASSUME NEW d, NEW st \in Seq(Nat), NEW names, NamesAre(d, st, names)
  PROVE  (names = <<>> <=> st = <<>>) /\ (st # <<>> => Last(names) = d[Last(st)].name)
<1>1. /\ names \in Seq(ToSet(names)) /\ Len(names) = Len(st)
      /\ \A a \in 1 .. Len(st) : names[a] = d[st[a]].name
  BY DEF NamesAre, IsList
<1>2. names = <<>> <=> Len(names) = 0
  BY <1>1, EmptySeq
<1>3. st = <<>> <=> Len(st) = 0
  BY EmptySeq
<1>4. ASSUME st # <<>> PROVE Last(names) = d[Last(st)].name
  <2>1. Len(st) \in 1 .. Len(st)
    BY <1>3, <1>4, LenProperties
  <2> QED BY <1>1, <2>1 DEF Last
<1> QED BY <1>1, <1>2, <1>3, <1>4

LEMMA NamesPushed ==
  ASSUME NEW d, NEW st \in Seq(Nat), NEW names, NamesAre(d, st, names), NEW i \in Nat
  PROVE  NamesAre(d, Append(st, i), Append(names, d[i].name))
<1> DEFINE tt == Append(st, i)
           mm == Append(names, d[i].name)
           m == Len(st)
<1>1. IsList(names) /\ Len(names) = m /\ \A a \in 1 .. m : names[a] = d[st[a]].name
  BY DEF NamesAre
<1>2. m \in Nat /\ Len(tt) = m + 1 /\ tt[m + 1] = i /\ \A a \in 1 .. m : tt[a] = st[a]
  BY LenProperties
<1>3. IsList(mm) /\ Len(mm) = m + 1 /\ mm[m + 1] = d[i].name /\ \A a \in 1 .. m : mm[a] = names[a]
  BY <1>1, ListAppend
<1> HIDE DEF tt, mm, m
<1>4. \A a \in 1 .. m + 1 : a \in 1 .. m \/ a = m + 1
  BY <1>2
<1>5. \A a \in 1 .. m + 1 : mm[a] = d[tt[a]].name
  BY <1>1, <1>2, <1>3, <1>4
<1>6. NamesAre(d, tt, mm)
  BY <1>2, <1>3, <1>5 DEF NamesAre
<1> QED BY <1>6 DEF tt, mm

LEMMA NamesPopped ==
  ASSUME NEW d, NEW st \in Seq(Nat), NEW names, NamesAre(d, st, names), st # <<>>
  PROVE  NamesAre(d, Front(st), Front(names))
<1> DEFINE tt == Front(st)
           mm == Front(names)
           m == Len(st)
<1>1. names \in Seq(ToSet(names)) /\ Len(names) = m /\ \A a \in 1 .. m : names[a] = d[st[a]].name
  BY DEF NamesAre, IsList
<1>2. names # <<>> /\ m \in Nat
  BY <1>1, TopIs, LenProperties
<1>3. Len(tt) = m - 1 /\ \A a \in 1 .. m - 1 : tt[a] = st[a]
  BY FrontIs
<1>4. mm \in Seq(ToSet(names)) /\ Len(mm) = m - 1 /\ \A a \in 1 .. m - 1 : mm[a] = names[a]
  BY <1>1, <1>2, FrontIs
<1> HIDE DEF tt, mm, m
<1>5. \A a \in 1 .. m - 1 : a \in 1 .. m
  BY <1>2
<1>6. \A a \in 1 .. m - 1 : mm[a] = d[tt[a]].name
  BY <1>1, <1>3, <1>4, <1>5
<1>7. IsList(mm)
  BY <1>4, ListIs
<1>8. NamesAre(d, tt, mm)
  BY <1>3, <1>4, <1>6, <1>7 DEF NamesAre
<1> QED BY <1>8 DEF tt, mm

-----------------------------------------------------------------------------
(* The parser after n items of d, with the elements st open.                 *)

After(d, st, n, s) ==
  /\ Nested(d, st, n) /\ Shape(s) /\ NamesAre(d, st, s.stack)
  /\ Body(d, st, n, s) /\ TextIs(d, n, s)

ParserInv ==
  \/ nzb = Rejected
  \/ document = NoDocument /\ next = 1 /\ nzb = Start
  \/ /\ document # NoDocument /\ document \in Documents
     /\ \/ \E st, n : next = n + 1 /\ After(document, st, n, nzb)
        \/ next = Len(document) + 2 /\ IsDocument(document, nzb)

LEMMA NestedIs ==
  ASSUME NEW d, NEW st, NEW n, Nested(d, st, n)
  PROVE  st \in Seq(Nat) /\ n \in Nat /\ Len(d) \in Nat /\ n <= Len(d)
BY DEF Nested

(* Nothing ends: only the slot of what opens may change.                     *)
LEMMA BodyMoves ==
  ASSUME NEW d, NEW st, NEW n, Nested(d, st, n), NEW tt, Moves(d, st, n, tt, {}),
         NEW s, Body(d, st, n, s), NEW t, t.files = s.files, t.meta = s.meta,
         IF Starts(d, n + 1, "file") THEN FileSlot(d, tt, n + 1, t.file) ELSE t.file = s.file,
         IF Starts(d, n + 1, "segment") THEN SegmentSlot(d, tt, n + 1, t.segment) ELSE t.segment = s.segment,
         IF Starts(d, n + 1, "meta") THEN MetaSlot(d, tt, n + 1, t.metaType) ELSE t.metaType = s.metaType
  PROVE  Body(d, tt, n + 1, t)
<1>1. n \in Nat /\ 1 \in 1 .. n + 1
  BY NestedIs
<1>2. /\ Done(d, tt, "file", 1, n + 1) = Done(d, st, "file", 1, n)
      /\ Done(d, tt, "meta", 1, n + 1) = Done(d, st, "meta", 1, n)
  BY <1>1, DoneStays
<1>3. FileSlot(d, tt, n + 1, t.file)
  <2>1. FileSlot(d, st, n, s.file)
    BY DEF Body
  <2> QED BY <2>1, FileStays
<1>4. SegmentSlot(d, tt, n + 1, t.segment)
  <2>1. SegmentSlot(d, st, n, s.segment)
    BY DEF Body
  <2> QED BY <2>1, SegmentStays
<1>5. MetaSlot(d, tt, n + 1, t.metaType)
  <2>1. MetaSlot(d, st, n, s.metaType)
    BY DEF Body
  <2> QED BY <2>1, MetaStays
<1>6. NoneOutside(d, tt, n + 1)
  <2>1. NoneOutside(d, st, n)
    BY DEF Body
  <2> QED BY <2>1, NoneOutsideStays
<1> QED BY <1>2, <1>3, <1>4, <1>5, <1>6 DEF Body

(* Nothing of what starts at n + 1 is over before it.                        *)
LEMMA NoneBefore ==
  ASSUME NEW d, NEW st, NEW n \in Nat, NEW name
  PROVE  Done(d, st, name, n + 1, n) = {}
<1>1. \A k \in n + 1 .. n : FALSE
  OBVIOUS
<1> QED BY <1>1 DEF Done, Elements

LEMMA FreshFile ==
  ASSUME NEW d, NEW st, NEW n \in Nat, NEW i,
         Done(d, st, "group", i, n) = {}, Done(d, st, "segment", i, n) = {},
         NEW f, f = [subject |-> d[i].attributes["subject"], groups |-> <<>>, segments |-> <<>>]
  PROVE  FileFrom(d, st, n, i, f)
<1>1. Fields(f, d[i].attributes["subject"], <<>>, <<>>)
  BY FieldsAre
<1> QED BY <1>1, NothingKept DEF Fields, FileFrom

LEMMA TextItem ==
  ASSUME NEW d, WellFormed(d), NEW st, NEW n, NEW s, After(d, st, n, s), n < Len(d), ~IsTag(d, n + 1)
  PROVE  /\ (~InElement(s, Text) \/ PieceOf(d, n + 1) = <<>>) => After(d, st, n + 1, s)
         /\ \A t : t = [s EXCEPT !.text = @ \o PieceOf(d, n + 1)] => After(d, st, n + 1, t)
<1>1. /\ Nested(d, st, n) /\ Shape(s) /\ NamesAre(d, st, s.stack)
      /\ Body(d, st, n, s) /\ TextIs(d, n, s)
  BY DEF After
<1>2. n \in Nat
  BY <1>1, NestedIs
<1>3. Moves(d, st, n, st, {})
  BY <1>1, MovesPast DEF IsTag
<1>4. Nested(d, st, n + 1)
  BY <1>3 DEF Moves
<1>5. \A name : ~Starts(d, n + 1, name)
  BY DEF Starts, IsTag
<1>6. ASSUME ~InElement(s, Text) \/ PieceOf(d, n + 1) = <<>>
      PROVE  After(d, st, n + 1, s)
  <2>1. Body(d, st, n + 1, s)
    BY <1>1, <1>3, <1>5, BodyMoves
  <2>2. TextIs(d, n + 1, s)
    <3>1. ASSUME InElement(s, Text) PROVE s.text = s.text \o PieceOf(d, n + 1)
      <4>1. PICK m : LastTag(d, m, n) /\ s.text = SinceTag(d, m, n)
        BY <1>1, <3>1 DEF TextIs
      <4>2. m \in Nat /\ m <= n /\ n <= Len(d)
        BY <1>2, <4>1 DEF LastTag, WellFormed
      <4>3. PICK X : s.text \in Seq(X)
        BY <1>2, <4>1, <4>2, SinceIs
      <4>4. s.text \o <<>> = s.text
        BY <4>3, ConcatEmptySeq
      <4> QED BY <1>6, <3>1, <4>4
    <3> QED BY <1>1, <1>2, <3>1, TextGrows
  <2> QED BY <1>1, <1>4, <2>1, <2>2 DEF After
<1>7. ASSUME NEW t, t = [s EXCEPT !.text = @ \o PieceOf(d, n + 1)]
      PROVE  After(d, st, n + 1, t)
  <2> DEFINE x == s.text \o PieceOf(d, n + 1)
  <2>1. t = [s EXCEPT !.text = x]
    BY <1>7
  <2> HIDE DEF x
  <2>2. t = [meta |-> s.meta, files |-> s.files, stack |-> s.stack, sawRoot |-> s.sawRoot,
             file |-> s.file, segment |-> s.segment, metaType |-> s.metaType, text |-> x]
    BY <1>1, <2>1 DEF Shape
  <2>3. /\ Shape(t) /\ t.stack = s.stack /\ t.text = x /\ t.files = s.files /\ t.meta = s.meta
        /\ t.file = s.file /\ t.segment = s.segment /\ t.metaType = s.metaType
    BY <2>2 DEF Shape
  <2>4. Body(d, st, n + 1, t)
    BY <1>1, <1>3, <1>5, <2>3, BodyMoves
  <2>5. TextIs(d, n + 1, t)
    <3>1. InElement(t, Text) => InElement(s, Text)
      BY <2>3 DEF InElement
    <3> QED BY <1>1, <1>2, <2>3, <3>1, TextGrows DEF x
  <2> QED BY <1>1, <1>4, <2>3, <2>4, <2>5 DEF After
<1> QED BY <1>6, <1>7

(* A start tag opens an element.                                             *)
LEMMA ElementOpens ==
  ASSUME NEW d, NEW st, NEW n, NEW s, After(d, st, n, s), n < Len(d), Opens(d, n + 1),
         ~OpenFails(s, d[n + 1]), NEW o, Opened(s, d[n + 1], o),
         NEW t, t = [o EXCEPT !.stack = Append(@, d[n + 1].name)]
  PROVE  After(d, Append(st, n + 1), n + 1, t)
<1> DEFINE tt == Append(st, n + 1)
           Y == d[n + 1].name
           x == Append(s.stack, Y)
<1>1. /\ Nested(d, st, n) /\ Shape(s) /\ NamesAre(d, st, s.stack) /\ Body(d, st, n, s)
  BY DEF After
<1>2. n \in Nat /\ n + 1 \in Nat /\ st \in Seq(Nat)
  BY <1>1, NestedIs
<1>3. Moves(d, st, n, tt, {}) /\ Newest(d, tt, n + 1, Y, n + 1)
  BY <1>1, MovesDeeper
<1>4. Nested(d, tt, n + 1)
  BY <1>3 DEF Moves
<1>5. NamesAre(d, tt, x)
  BY <1>1, <1>2, NamesPushed
<1>6. \A name : Starts(d, n + 1, name) => name = Y
  BY DEF Starts
<1>7. /\ Shape(o) /\ o.text = <<>> /\ o.stack = s.stack /\ o.meta = s.meta /\ o.files = s.files
      /\ o.file = IF Y = "file"
                  THEN [subject |-> d[n + 1].attributes["subject"], groups |-> <<>>, segments |-> <<>>]
                  ELSE s.file
      /\ o.segment = IF Y = "segment"
                     THEN [number |-> d[n + 1].attributes["number"], bytes |-> d[n + 1].attributes["bytes"]]
                     ELSE s.segment
      /\ o.metaType = IF Y = "meta" THEN [type |-> d[n + 1].attributes["type"]] ELSE s.metaType
  BY DEF Opened
<1>8. t = [o EXCEPT !.stack = x]
  BY <1>7
<1> HIDE DEF tt, x
<1>9. t = [meta |-> o.meta, files |-> o.files, stack |-> x, sawRoot |-> o.sawRoot,
           file |-> o.file, segment |-> o.segment, metaType |-> o.metaType, text |-> o.text]
  BY <1>7, <1>8 DEF Shape
<1>10. /\ Shape(t) /\ t.stack = x /\ t.text = o.text /\ t.files = o.files /\ t.meta = o.meta
       /\ t.file = o.file /\ t.segment = o.segment /\ t.metaType = o.metaType
  <2>1. Holds(t, o.meta, o.files, x, o.sawRoot, o.file, o.segment, o.metaType, o.text)
    BY <1>9, HoldsIs
  <2> QED BY <2>1 DEF Holds
<1>11. \A name : Done(d, tt, name, n + 1, n + 1) = {}
  <2>1. ASSUME NEW name PROVE Done(d, tt, name, n + 1, n + 1) = {}
    <3>1. n + 1 \in 1 .. n + 1
      BY <1>2
    <3>2. Done(d, tt, name, n + 1, n + 1) = Done(d, st, name, n + 1, n)
      BY <1>3, <3>1, DoneStays
    <3> QED BY <1>2, <3>2, NoneBefore
  <2> QED BY <2>1
<1>12. ASSUME Starts(d, n + 1, "file") PROVE FileSlot(d, tt, n + 1, t.file)
  <2>1. Y = "file"
    BY <1>6, <1>12
  <2>2. FileFrom(d, tt, n + 1, n + 1, t.file)
    BY <1>2, <1>7, <1>10, <1>11, <2>1, FreshFile
  <2> QED BY <1>3, <2>1, <2>2 DEF FileSlot
<1>13. ASSUME Starts(d, n + 1, "segment") PROVE SegmentSlot(d, tt, n + 1, t.segment)
  <2>1. Y = "segment"
    BY <1>6, <1>13
  <2>2. d[n + 1].attributes["number"] \in Int
    BY <2>1 DEF OpenFails, IntegerAttribute
  <2>3. SegmentFrom(d, n + 1, t.segment)
    BY <1>7, <1>10, <2>1, <2>2 DEF SegmentFrom, NumberOf
  <2> QED BY <1>3, <2>1, <2>3 DEF SegmentSlot
<1>14. ASSUME Starts(d, n + 1, "meta") PROVE MetaSlot(d, tt, n + 1, t.metaType)
  <2>1. Y = "meta"
    BY <1>6, <1>14
  <2>2. MetaFrom(d, n + 1, t.metaType)
    BY <1>7, <1>10, <2>1 DEF MetaFrom
  <2> QED BY <1>3, <2>1, <2>2 DEF MetaSlot
<1>15. \A name : name = Y => Starts(d, n + 1, name)
  BY DEF Starts, Opens
<1>16. Body(d, tt, n + 1, t)
  <2>1. IF Starts(d, n + 1, "file") THEN FileSlot(d, tt, n + 1, t.file) ELSE t.file = s.file
    BY <1>7, <1>10, <1>12, <1>15
  <2>2. IF Starts(d, n + 1, "segment") THEN SegmentSlot(d, tt, n + 1, t.segment) ELSE t.segment = s.segment
    BY <1>7, <1>10, <1>13, <1>15
  <2>3. IF Starts(d, n + 1, "meta") THEN MetaSlot(d, tt, n + 1, t.metaType) ELSE t.metaType = s.metaType
    BY <1>7, <1>10, <1>14, <1>15
  <2>4. t.files = s.files /\ t.meta = s.meta
    BY <1>7, <1>10
  <2> QED BY <1>1, <1>3, <2>1, <2>2, <2>3, <2>4, BodyMoves
<1>17. TextIs(d, n + 1, t)
  BY <1>2, <1>7, <1>10, TextAtTag DEF IsTag, Opens
<1>18. After(d, tt, n + 1, t)
  BY <1>4, <1>5, <1>10, <1>16, <1>17 DEF After
<1> QED BY <1>18 DEF tt

LEMMA SelfClosedText ==
  ASSUME NEW d, NEW i, d[i].selfClosing = TRUE
  PROVE  TextOf(d, i) = <<>>
<1>1. ClosedAt(d, i) = i
  BY DEF ClosedAt
<1> QED BY <1>1 DEF TextOf

(* A tag opens an element and closes it.                                     *)
LEMMA ElementPasses ==
  ASSUME NEW d, NEW st, NEW n, NEW s, After(d, st, n, s), n < Len(d), d[n + 1].kind = "start",
         d[n + 1].selfClosing = TRUE,
         ~OpenFails(s, d[n + 1]), NEW o, Opened(s, d[n + 1], o), ~CloseFails(o, d[n + 1].name),
         NEW c, Closed(o, d[n + 1].name, c)
  PROVE  After(d, st, n + 1, c)
<1> DEFINE Y == d[n + 1].name
<1>1. /\ Nested(d, st, n) /\ Shape(s) /\ NamesAre(d, st, s.stack) /\ Body(d, st, n, s)
  BY DEF After
<1>2. n \in Nat /\ n + 1 \in Nat
  BY <1>1, NestedIs
<1>3. Moves(d, st, n, st, {n + 1}) /\ Shadowed(d, st, n + 1, Y)
  BY <1>1, MovesBy
<1>4. Nested(d, st, n + 1)
  BY <1>3 DEF Moves
<1>5. /\ Shape(o) /\ o.text = <<>> /\ o.stack = s.stack /\ o.meta = s.meta /\ o.files = s.files
      /\ o.file = IF Y = "file"
                  THEN [subject |-> d[n + 1].attributes["subject"], groups |-> <<>>, segments |-> <<>>]
                  ELSE s.file
      /\ o.segment = IF Y = "segment"
                     THEN [number |-> d[n + 1].attributes["number"], bytes |-> d[n + 1].attributes["bytes"]]
                     ELSE s.segment
      /\ o.metaType = IF Y = "meta" THEN [type |-> d[n + 1].attributes["type"]] ELSE s.metaType
  BY DEF Opened
<1>6. Shape(c) /\ c.text = o.text /\ c.stack = o.stack
  BY DEF Closed
<1>7. /\ FilesAre(d, Done(d, st, "file", 1, n), s.files) /\ MetaAre(d, Done(d, st, "meta", 1, n), s.meta)
      /\ FileSlot(d, st, n, s.file) /\ SegmentSlot(d, st, n, s.segment) /\ MetaSlot(d, st, n, s.metaType)
      /\ NoneOutside(d, st, n)
  BY <1>1 DEF Body
<1>8. ClosingFile(d, st, n, st, n + 1, o)
  <2>1. CASE Y = "file"
    <3>1. /\ Done(d, st, "group", n + 1, n) = {} /\ Done(d, st, "segment", n + 1, n) = {}
      BY <1>2, NoneBefore
    <3>2. FileFrom(d, st, n, n + 1, o.file)
      BY <1>2, <1>5, <2>1, <3>1, FreshFile
    <3> QED BY <1>3, <2>1, <3>2 DEF ClosingFile
  <2>2. CASE Y # "file"
    BY <1>5, <1>7, <2>2 DEF ClosingFile
  <2> QED BY <2>1, <2>2
<1>9. ClosingSegment(d, st, n, st, n + 1, o)
  <2>1. CASE Y = "segment"
    <3>1. d[n + 1].attributes["number"] \in Int
      BY <2>1 DEF OpenFails, IntegerAttribute
    <3>2. SegmentFrom(d, n + 1, o.segment)
      BY <1>5, <2>1, <3>1 DEF SegmentFrom, NumberOf
    <3> QED BY <1>3, <2>1, <3>2 DEF ClosingSegment
  <2>2. CASE Y # "segment"
    BY <1>5, <1>7, <2>2 DEF ClosingSegment
  <2> QED BY <2>1, <2>2
<1>10. ClosingMeta(d, st, n, st, n + 1, o)
  <2>1. CASE Y = "meta"
    <3>1. MetaFrom(d, n + 1, o.metaType)
      BY <1>5, <2>1 DEF MetaFrom
    <3> QED BY <1>3, <2>1, <3>1 DEF ClosingMeta
  <2>2. CASE Y # "meta"
    BY <1>5, <1>7, <2>2 DEF ClosingMeta
  <2> QED BY <2>1, <2>2
<1>11. \A name : name # Y => ~Starts(d, n + 1, name)
  BY DEF Starts
<1>12. Trim(o.text) = TextOf(d, n + 1)
  BY <1>5, TrimNothing, SelfClosedText
<1>13. Closing(d, st, n, st, n + 1, o)
  BY <1>5, <1>7, <1>8, <1>9, <1>10, <1>11, <1>12 DEF Closing
<1>14. Body(d, st, n + 1, c)
  BY <1>1, <1>3, <1>13, CloseKeeps
<1>15. TextIs(d, n + 1, c)
  BY <1>2, <1>5, <1>6, TextAtTag DEF IsTag
<1> QED BY <1>1, <1>4, <1>5, <1>6, <1>14, <1>15 DEF After

(* An end tag closes the innermost element.                                  *)
LEMMA ElementEnds ==
  ASSUME NEW d, WellFormed(d), NEW st, NEW n, NEW s, After(d, st, n, s), n < Len(d), Closes(d, n + 1),
         InElement(s, {d[n + 1].name}),
         NEW p, p = [s EXCEPT !.stack = Front(@)], ~CloseFails(p, d[n + 1].name),
         NEW c, Closed(p, d[n + 1].name, c), NEW t, t = [c EXCEPT !.text = <<>>]
  PROVE  After(d, Front(st), n + 1, t)
<1> DEFINE tt == Front(st)
           i == Last(st)
           Y == d[n + 1].name
           x == Front(s.stack)
<1>1. /\ Nested(d, st, n) /\ Shape(s) /\ NamesAre(d, st, s.stack) /\ Body(d, st, n, s) /\ TextIs(d, n, s)
  BY DEF After
<1>2. n \in Nat /\ n + 1 \in Nat /\ st \in Seq(Nat)
  BY <1>1, NestedIs
<1>3. st # <<>> /\ d[i].name = Y /\ Last(s.stack) = Y
  BY <1>1, <1>2, TopIs DEF InElement
<1>4. /\ Moves(d, st, n, tt, {i}) /\ i \in Held(st) /\ Opens(d, i) /\ i <= n
      /\ \A l : Newest(d, st, n, Y, l) => l = i /\ Shadowed(d, tt, n + 1, Y)
  <2>1. d[Last(st)].name = Y
    BY <1>3
  <2> HIDE DEF Y
  <2> QED BY <1>1, <1>3, <2>1, MovesLess
<1>5. Nested(d, tt, n + 1) /\ i \in 1 .. n + 1 /\ ClosedAt(d, i) = n + 1
  BY <1>4 DEF Moves
<1>6. NamesAre(d, tt, x)
  BY <1>1, <1>2, <1>3, NamesPopped
<1>7. p = [s EXCEPT !.stack = x]
  OBVIOUS
<1> HIDE DEF tt, i, x
<1>8. p = [meta |-> s.meta, files |-> s.files, stack |-> x, sawRoot |-> s.sawRoot,
           file |-> s.file, segment |-> s.segment, metaType |-> s.metaType, text |-> s.text]
  BY <1>1, <1>7 DEF Shape
<1>9. /\ Shape(p) /\ p.stack = x /\ p.text = s.text /\ p.files = s.files /\ p.meta = s.meta
      /\ p.file = s.file /\ p.segment = s.segment /\ p.metaType = s.metaType
  <2>1. Holds(p, s.meta, s.files, x, s.sawRoot, s.file, s.segment, s.metaType, s.text)
    BY <1>8, HoldsIs
  <2> QED BY <2>1 DEF Holds
<1>10. Shape(c) /\ c.text = p.text /\ c.stack = p.stack
  BY DEF Closed
<1>11. t = [meta |-> c.meta, files |-> c.files, stack |-> c.stack, sawRoot |-> c.sawRoot,
           file |-> c.file, segment |-> c.segment, metaType |-> c.metaType, text |-> <<>>]
  BY <1>10 DEF Shape
<1>12. /\ Shape(t) /\ t.stack = c.stack /\ t.text = <<>> /\ t.files = c.files /\ t.meta = c.meta
       /\ t.file = c.file /\ t.segment = c.segment /\ t.metaType = c.metaType
  <2>1. Holds(t, c.meta, c.files, c.stack, c.sawRoot, c.file, c.segment, c.metaType, <<>>)
    BY <1>11, HoldsIs
  <2> QED BY <2>1 DEF Holds
<1>13. /\ FilesAre(d, Done(d, st, "file", 1, n), s.files) /\ MetaAre(d, Done(d, st, "meta", 1, n), s.meta)
       /\ FileSlot(d, st, n, s.file) /\ SegmentSlot(d, st, n, s.segment) /\ MetaSlot(d, st, n, s.metaType)
       /\ NoneOutside(d, st, n)
  BY <1>1 DEF Body
<1>14. ClosingFile(d, st, n, tt, i, p)
  <2>1. ASSUME Y = "file", p.file # None
        PROVE  FileFrom(d, st, n, i, p.file) /\ Shadowed(d, tt, n + 1, "file")
    <3>1. PICK l : Newest(d, st, n, "file", l) /\ FileFrom(d, st, n, l, p.file)
      BY <1>9, <1>13, <2>1 DEF FileSlot
    <3>2. Newest(d, st, n, Y, l)
      BY <2>1, <3>1
    <3>3. l = i /\ Shadowed(d, tt, n + 1, Y)
      BY <1>4, <3>2
    <3> QED BY <2>1, <3>1, <3>3
  <2> QED BY <1>3, <1>9, <1>13, <2>1 DEF ClosingFile
<1>15. ClosingSegment(d, st, n, tt, i, p)
  <2>1. ASSUME Y = "segment", p.segment # None
        PROVE  SegmentFrom(d, i, p.segment) /\ Shadowed(d, tt, n + 1, "segment")
    <3>1. PICK l : Newest(d, st, n, "segment", l) /\ SegmentFrom(d, l, p.segment)
      BY <1>9, <1>13, <2>1 DEF SegmentSlot
    <3>2. Newest(d, st, n, Y, l)
      BY <2>1, <3>1
    <3>3. l = i /\ Shadowed(d, tt, n + 1, Y)
      BY <1>4, <3>2
    <3> QED BY <2>1, <3>1, <3>3
  <2> QED BY <1>3, <1>9, <1>13, <2>1 DEF ClosingSegment
<1>16. ClosingMeta(d, st, n, tt, i, p)
  <2>1. ASSUME Y = "meta", p.metaType # None
        PROVE  MetaFrom(d, i, p.metaType) /\ Shadowed(d, tt, n + 1, "meta")
    <3>1. PICK l : Newest(d, st, n, "meta", l) /\ MetaFrom(d, l, p.metaType)
      BY <1>9, <1>13, <2>1 DEF MetaSlot
    <3>2. Newest(d, st, n, Y, l)
      BY <2>1, <3>1
    <3>3. l = i /\ Shadowed(d, tt, n + 1, Y)
      BY <1>4, <3>2
    <3> QED BY <2>1, <3>1, <3>3
  <2> QED BY <1>3, <1>9, <1>13, <2>1 DEF ClosingMeta
<1>17. \A name : ~Starts(d, n + 1, name)
  BY DEF Starts, Closes
<1>18. Y \in Text => Trim(p.text) = TextOf(d, i)
  <2>1. ASSUME Y \in Text PROVE Trim(p.text) = TextOf(d, i)
    <3>1. InElement(s, Text)
      BY <1>3, <2>1 DEF InElement
    <3>2. PICK m : LastTag(d, m, n) /\ s.text = SinceTag(d, m, n)
      BY <1>1, <3>1 DEF TextIs
    <3>3. i \in 1 .. n
      BY <1>2, <1>4, <1>5
    <3>4. TextOf(d, i) = Trim(SinceTag(d, m, n))
      BY <1>2, <1>4, <1>5, <3>2, <3>3, TextIsSince
    <3> QED BY <1>9, <3>2, <3>4
  <2> QED BY <2>1
<1>19. Closing(d, st, n, tt, i, p)
  BY <1>3, <1>9, <1>13, <1>14, <1>15, <1>16, <1>17, <1>18 DEF Closing
<1>20. Body(d, tt, n + 1, c)
  <2>1. Closed(p, d[i].name, c)
    BY <1>3
  <2> QED BY <1>1, <1>4, <1>19, <2>1, CloseKeeps
<1>21. Body(d, tt, n + 1, t)
  BY <1>12, <1>20 DEF Body
<1>22. TextIs(d, n + 1, t)
  BY <1>2, <1>12, TextAtTag DEF IsTag, Closes
<1>23. After(d, tt, n + 1, t)
  BY <1>5, <1>6, <1>9, <1>10, <1>12, <1>21, <1>22 DEF After
<1> QED BY <1>23 DEF tt

-----------------------------------------------------------------------------
(* The end of the document, and the theorem.                                 *)

LEMMA WholeDocument ==
  ASSUME NEW d, WellFormed(d), NEW st, NEW s, After(d, st, Len(d), s), s.stack = <<>>
  PROVE  IsDocument(d, s)
<1> DEFINE n == Len(d)
           All(name) == Elements(d, name, 1, n)
<1>1. Nested(d, st, n) /\ NamesAre(d, st, s.stack) /\ Body(d, st, n, s)
  BY DEF After
<1>2. st \in Seq(Nat) /\ n \in Nat /\ DOMAIN d = 1 .. n
  BY <1>1, NestedIs DEF WellFormed
<1>3. st = <<>> /\ Len(st) = 0
  BY <1>1, <1>2, TopIs, EmptySeq
<1>4. Held(st) = {}
  BY <1>3 DEF Held
<1>5. \A name : Done(d, st, name, 1, n) = All(name)
  BY <1>4 DEF Done
<1>6. (\A i \in DOMAIN d : DepthAfter(d, i) >= 0) /\ DepthAfter(d, n) = 0
  BY <1>1, <1>2, <1>3 DEF Nested
<1>7. /\ Len(s.files) = Cardinality(All("file"))
      /\ \A i \in All("file") : IsFileAt(d, i, s.files[Place(d, All("file"), i)])
  <2>1. FilesAre(d, All("file"), s.files)
    BY <1>1, <1>5 DEF Body
  <2> HIDE DEF All
  <2> QED BY <2>1 DEF FilesAre
<1>8. /\ Len(s.meta) = Cardinality(All("meta"))
      /\ \A i \in All("meta") :
           s.meta[Place(d, All("meta"), i)] = <<d[i].attributes["type"], TextOf(d, i)>>
  <2>1. MetaAre(d, All("meta"), s.meta)
    BY <1>1, <1>5 DEF Body
  <2> HIDE DEF All
  <2> QED BY <2>1 DEF MetaAre, Said
<1>9. ASSUME NEW i \in All("group") \cup All("segment") PROVE Inside(d, i)
  <2>1. InAFile(d, st, n, i)
    BY <1>1, <1>5, <1>9 DEF Body, NoneOutside
  <2> QED BY <1>4, <2>1 DEF InAFile, Inside
<1> QED BY <1>6, <1>7, <1>8, <1>9 DEF IsDocument

LEMMA ParserInitInv == ParserInit => ParserInv
BY DEF ParserInit, ParserInv

LEMMA AtFirst ==
  ASSUME NEW d, WellFormed(d)
  PROVE  After(d, <<>>, 0, Start)
<1>1. Nested(d, <<>>, 0)
  BY NestedAtFirst DEF WellFormed
<1>2. Holds(Start, <<>>, <<>>, <<>>, FALSE, None, None, None, <<>>)
  BY HoldsIs DEF Start
<1>3. Held(<<>>) = {} /\ Len(<<>>) = 0
  BY EmptySeq DEF Held
<1>4. NamesAre(d, <<>>, <<>>)
  BY <1>3, NoList DEF NamesAre
<1>5. \A name : Done(d, <<>>, name, 1, 0) = {} /\ Shadowed(d, <<>>, 0, name)
  <2>1. \A k \in 1 .. 0 : FALSE
    OBVIOUS
  <2> QED BY <1>3, <2>1 DEF Done, Elements, Shadowed
<1>6. Body(d, <<>>, 0, Start)
  BY <1>2, <1>5, NothingKept DEF Holds, Body, FileSlot, SegmentSlot, MetaSlot, NoneOutside
<1>7. TextIs(d, 0, Start)
  BY <1>2 DEF Holds, TextIs, InElement
<1> QED BY <1>1, <1>2, <1>4, <1>6, <1>7 DEF After, Holds

LEMMA WhileReading ==
  ASSUME ParserInv, Reading
  PROVE  /\ document \in Documents /\ WellFormed(document)
         /\ \E st, n : next = n + 1 /\ n \in Nat /\ n < Len(document) /\ After(document, st, n, nzb)
<1>1. document # NoDocument /\ nzb # Rejected /\ next <= Len(document)
  BY DEF Reading
<1>2. document \in Documents
  BY <1>1 DEF ParserInv
<1>3. WellFormed(document) /\ Len(document) \in Nat
  BY <1>2, DocumentsAre DEF WellFormed
<1>4. next # Len(document) + 2
  BY <1>1, <1>3
<1>5. PICK st, n : next = n + 1 /\ After(document, st, n, nzb)
  BY <1>1, <1>4 DEF ParserInv
<1>6. n \in Nat
  BY <1>5, NestedIs DEF After
<1> QED BY <1>1, <1>2, <1>3, <1>5, <1>6

LEMMA OneItemOn ==
  ASSUME document # NoDocument, document \in Documents, NEW n \in Nat, next = n + 1,
         NEW st, NEW t, After(document, st, n + 1, t), Accept(t)
  PROVE  ParserInv'
<1>1. nzb' = t /\ next' = (n + 1) + 1 /\ document' = document
  BY DEF Accept
<1>2. \E tt, m : next' = m + 1 /\ After(document', tt, m, nzb')
  BY <1>1
<1> QED BY <1>1, <1>2 DEF ParserInv

LEMMA ParserNextInv == ParserInv /\ [ParserNext]_parserVars => ParserInv'
<1> SUFFICES ASSUME ParserInv, [ParserNext]_parserVars PROVE ParserInv'
  OBVIOUS
<1>0. Reading => document # NoDocument
  BY DEF Reading
<1>1. CASE ParseNzb
  <2>1. document = NoDocument /\ document' \in Documents /\ next' = next /\ nzb' = nzb
    BY <1>1 DEF ParseNzb
  <2>2. CASE nzb = Rejected
    BY <2>1, <2>2 DEF ParserInv
  <2>3. CASE nzb # Rejected
    <3>1. next = 1 /\ nzb = Start
      BY <2>1, <2>3 DEF ParserInv
    <3>2. After(document', <<>>, 0, nzb')
      BY <2>1, <3>1, DocumentsAre, AtFirst
    <3>3. next' = 0 + 1
      BY <2>1, <3>1
    <3>4. nzb' = Start /\ next' = 1
      BY <2>1, <3>1
    <3>5. \E st, n : next' = n + 1 /\ After(document', st, n, nzb')
      BY <3>2, <3>3
    <3> QED BY <2>1, <3>4, <3>5 DEF ParserInv
  <2> QED BY <2>2, <2>3
<1>2. CASE RefuseMarkup
  BY <1>2 DEF RefuseMarkup, Reject, ParserInv
<1>3. CASE SkipMarkup
  <2>1. Reading /\ Ignored(Item) /\ Accept(nzb)
    BY <1>3 DEF SkipMarkup
  <2>2. PICK st, n : next = n + 1 /\ n \in Nat /\ n < Len(document) /\ After(document, st, n, nzb)
    BY <2>1, WhileReading
  <2>3. document[n + 1].kind \in {"comment", "instruction", "declaration"}
    BY <2>1, <2>2 DEF Ignored, Item
  <2>4. ~IsTag(document, n + 1) /\ PieceOf(document, n + 1) = <<>>
    BY <2>3 DEF IsTag, PieceOf
  <2>5. After(document, st, n + 1, nzb)
    <3>1. WellFormed(document)
      BY <2>1, WhileReading
    <3> QED BY <2>2, <2>4, <3>1, TextItem
  <2> QED BY <1>0, <2>1, <2>2, <2>5, WhileReading, OneItemOn
<1>4. CASE ReadText
  <2>1. /\ Reading /\ Item.kind \in {"text", "cdata"}
        /\ Accept(IF InElement(nzb, Text) THEN [nzb EXCEPT !.text = @ \o Characters(Item)] ELSE nzb)
    BY <1>4 DEF ReadText
  <2>2. PICK st, n : next = n + 1 /\ n \in Nat /\ n < Len(document) /\ After(document, st, n, nzb)
    BY <2>1, WhileReading
  <2>3. document[n + 1].kind \in {"text", "cdata"} /\ Item = document[n + 1]
    BY <2>1, <2>2 DEF Item
  <2>4. ~IsTag(document, n + 1) /\ PieceOf(document, n + 1) = Characters(Item)
    BY <2>3 DEF IsTag, PieceOf
  <2> DEFINE t == IF InElement(nzb, Text) THEN [nzb EXCEPT !.text = @ \o Characters(Item)] ELSE nzb
  <2>5. After(document, st, n + 1, t)
    <3>1. WellFormed(document)
      BY <2>1, WhileReading
    <3>2. CASE InElement(nzb, Text)
      <4>1. t = [nzb EXCEPT !.text = @ \o PieceOf(document, n + 1)]
        BY <2>4, <3>2
      <4> HIDE DEF t
      <4> QED BY <2>2, <2>4, <3>1, <4>1, TextItem
    <3>3. CASE ~InElement(nzb, Text)
      <4>1. t = nzb
        BY <3>3
      <4> HIDE DEF t
      <4> QED BY <2>2, <2>4, <3>1, <3>3, <4>1, TextItem
    <3> QED BY <3>2, <3>3
  <2>6. Accept(t)
    BY <2>1
  <2> HIDE DEF t
  <2> QED BY <1>0, <2>1, <2>2, <2>5, <2>6, WhileReading, OneItemOn
<1>5. CASE ReadStartTag
  <2> DEFINE o == [OpenElement(nzb, Item) EXCEPT !.text = <<>>]
             pushed == [o EXCEPT !.stack = Append(@, Item.name)]
             c == CloseElement(o, Item.name)
  <2>1. /\ Reading /\ Item.kind = "start"
        /\ IF OpenFails(nzb, Item) THEN Reject
           ELSE IF ~Item.selfClosing THEN Accept(pushed)
           ELSE IF CloseFails(o, Item.name) THEN Reject
           ELSE Accept(c)
    BY <1>5 DEF ReadStartTag
  <2>2. PICK st, n : next = n + 1 /\ n \in Nat /\ n < Len(document) /\ After(document, st, n, nzb)
    BY <2>1, WhileReading
  <2>3. Item = document[n + 1] /\ document \in Documents /\ WellFormed(document) /\ document # NoDocument
    BY <1>0, <2>1, <2>2, WhileReading DEF Item
  <2>4. Item.selfClosing \in BOOLEAN
    BY <2>1, <2>2, <2>3 DEF WellFormed
  <2>5. Shape(nzb)
    BY <2>2 DEF After
  <2>6. Opened(nzb, Item, o)
    BY <2>5, OpenedIs
  <2> HIDE DEF o
  <2>7. CASE Reject
    BY <2>7 DEF Reject, ParserInv
  <2>8. CASE ~OpenFails(nzb, Item) /\ ~Item.selfClosing /\ Accept(pushed)
    <3>1. Opens(document, n + 1)
      BY <2>1, <2>3, <2>8 DEF Opens
    <3>2. pushed = [o EXCEPT !.stack = Append(@, document[n + 1].name)]
      BY <2>3
    <3> HIDE DEF pushed
    <3>3. After(document, Append(st, n + 1), n + 1, pushed)
      BY <2>2, <2>3, <2>6, <2>8, <3>1, <3>2, ElementOpens
    <3> QED BY <2>2, <2>3, <2>8, <3>3, OneItemOn
  <2>9. CASE ~OpenFails(nzb, Item) /\ Item.selfClosing /\ ~CloseFails(o, Item.name) /\ Accept(c)
    <3>1. Closed(o, Item.name, c)
      <4>1. Shape(o)
        BY <2>6 DEF Opened
      <4> QED BY <4>1, ClosedIs
    <3> HIDE DEF c
    <3>2. document[n + 1].selfClosing = TRUE /\ document[n + 1].kind = "start"
      BY <2>1, <2>3, <2>4, <2>9
    <3>3. After(document, st, n + 1, c)
      BY <2>2, <2>3, <2>6, <2>9, <3>1, <3>2, ElementPasses
    <3> QED BY <2>2, <2>3, <2>9, <3>3, OneItemOn
  <2> HIDE DEF pushed, c
  <2> QED BY <2>1, <2>7, <2>8, <2>9
<1>6. CASE ReadEndTag
  <2> DEFINE p == [nzb EXCEPT !.stack = Front(@)]
             c == CloseElement(p, Item.name)
             t == [c EXCEPT !.text = <<>>]
  <2>1. /\ Reading /\ Item.kind = "end"
        /\ IF ~InElement(nzb, {Item.name}) THEN Reject
           ELSE IF CloseFails(p, Item.name) THEN Reject
           ELSE Accept(t)
    BY <1>6 DEF ReadEndTag
  <2>2. PICK st, n : next = n + 1 /\ n \in Nat /\ n < Len(document) /\ After(document, st, n, nzb)
    BY <2>1, WhileReading
  <2>3. Item = document[n + 1] /\ document \in Documents /\ WellFormed(document) /\ document # NoDocument
    BY <1>0, <2>1, <2>2, WhileReading DEF Item
  <2>4. CASE Reject
    BY <2>4 DEF Reject, ParserInv
  <2>5. CASE InElement(nzb, {Item.name}) /\ ~CloseFails(p, Item.name) /\ Accept(t)
    <3>1. Closes(document, n + 1)
      BY <2>1, <2>3 DEF Closes
    <3>2. Shape(p)
      <4> DEFINE x == Front(nzb.stack)
      <4>1. Shape(nzb) /\ p = [nzb EXCEPT !.stack = x]
        BY <2>2 DEF After
      <4> HIDE DEF x, p
      <4>2. p = [meta |-> nzb.meta, files |-> nzb.files, stack |-> x, sawRoot |-> nzb.sawRoot,
                 file |-> nzb.file, segment |-> nzb.segment, metaType |-> nzb.metaType, text |-> nzb.text]
        BY <4>1 DEF Shape
      <4>3. Holds(p, nzb.meta, nzb.files, x, nzb.sawRoot, nzb.file, nzb.segment, nzb.metaType, nzb.text)
        BY <4>2, HoldsIs
      <4> QED BY <4>3 DEF Holds
    <3>3. Closed(p, Item.name, c)
      <4> HIDE DEF p
      <4> QED BY <3>2, ClosedIs
    <3>4. p = [nzb EXCEPT !.stack = Front(@)] /\ t = [c EXCEPT !.text = <<>>]
      OBVIOUS
    <3> HIDE DEF p, c, t
    <3>5. After(document, Front(st), n + 1, t)
      BY <2>2, <2>3, <2>5, <3>1, <3>3, <3>4, ElementEnds
    <3> QED BY <2>2, <2>3, <2>5, <3>5, OneItemOn
  <2> HIDE DEF p, c, t
  <2> QED BY <2>1, <2>4, <2>5
<1>7. CASE EndOfDocument
  <2>1. /\ nzb # Rejected /\ document # NoDocument /\ next = Len(document) + 1
        /\ IF nzb.stack # <<>> \/ ~nzb.sawRoot THEN Reject ELSE Accept(nzb)
    BY <1>7 DEF EndOfDocument
  <2>2. CASE Reject
    BY <2>2 DEF Reject, ParserInv
  <2>3. CASE nzb.stack = <<>> /\ Accept(nzb)
    <3>1. document \in Documents
      BY <2>1 DEF ParserInv
    <3>2. WellFormed(document) /\ Len(document) \in Nat
      BY <3>1, DocumentsAre DEF WellFormed
    <3>3. PICK st, n : next = n + 1 /\ After(document, st, n, nzb)
      BY <2>1, <3>2 DEF ParserInv
    <3>4. n = Len(document)
      <4>1. n \in Nat
        BY <3>3, NestedIs DEF After
      <4> QED BY <2>1, <3>2, <3>3, <4>1
    <3>5. IsDocument(document, nzb)
      BY <2>3, <3>2, <3>3, <3>4, WholeDocument
    <3>6. nzb' = nzb /\ document' = document /\ next' = Len(document) + 2
      BY <2>1, <2>3, <3>2 DEF Accept
    <3> QED BY <2>1, <3>1, <3>5, <3>6 DEF ParserInv
  <2> QED BY <2>1, <2>2, <2>3
<1>8. CASE UNCHANGED parserVars
  <2>1. document' = document /\ next' = next /\ nzb' = nzb
    BY <1>8 DEF parserVars
  <2> QED BY <2>1 DEF ParserInv
<1> QED BY <1>1, <1>2, <1>3, <1>4, <1>5, <1>6, <1>7, <1>8 DEF ParserNext

LEMMA ParserSays == ParserInv => ParsedAsWritten
<1> SUFFICES ASSUME ParserInv, nzb # Rejected, document # NoDocument, next = Len(document) + 2
             PROVE  IsDocument(document, nzb)
  BY DEF ParsedAsWritten
<1>1. document \in Documents
  BY DEF ParserInv
<1>2. Len(document) \in Nat
  BY <1>1, DocumentsAre DEF WellFormed
<1>3. ASSUME NEW st, NEW n, next = n + 1, After(document, st, n, nzb) PROVE FALSE
  <2>1. n \in Nat /\ n <= Len(document)
    BY <1>3, NestedIs DEF After
  <2> QED BY <1>2, <1>3, <2>1
<1> QED BY <1>3 DEF ParserInv

(* A document that is accepted is read as it is written, whatever documents *)
(* there are: see ParsedAsWritten.                                          *)
THEOREM ReadAsWritten == ParserSpec => []ParsedAsWritten
<1>1. ParserInv /\ [ParserNext]_parserVars => ParserInv'
  BY ParserNextInv
<1> QED BY <1>1, ParserInitInv, ParserSays, PTL DEF ParserSpec
=============================================================================
