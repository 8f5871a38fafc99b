-------------------------------- MODULE Par2 --------------------------------
(***************************************************************************)
(* `nzb verify` (packages/nzb-cli/src/commands/verify.ts) over a PAR2 set  *)
(* scanned out of damaged volumes (packages/par2/src/packets.ts, parse.ts) *)
(* and a file checked as its chunks arrive (verify.ts).                    *)
(*                                                                         *)
(* A volume is a sequence of cells, each a header or a byte.  A hash is    *)
(* the very data it covers: of a packet, its identity and its body, not    *)
(* the magic or the length before them.  A packet's fields are read from   *)
(* its header cell; its body is only what the hash covers.  Of a volume it *)
(* is also known which packets survived, and where they start.             *)
(***************************************************************************)
EXTENDS Integers, Sequences, FiniteSets, SequencesExt

CONSTANTS
  Releases,  \* what `nzb verify` may be run on: its volumes, what was posted, the disk
  NoRelease, \* before one is chosen
  MaxPacket, \* MAX_PACKET, in cells
  Unreadable \* a packet body, a volume or a set nothing can be read from

ASSUME MaxPacketAssumption == MaxPacket \in Nat \ {0}

VARIABLES
  release,
  step,     \* "fetching", "scanning", "choosing", "hashing", "verified", "damaged", "refused"
  volumes,  \* those read so far
  tried,    \* how many candidates were tried
  at,       \* scanPackets: <<volume, cell>> to search from
  packets,  \* yielded so far
  set,      \* of parsePar2
  row,      \* which of its files is checked
  pending,  \* bytes of the chunk given to update() and not yet copied
  whole,    \* the bytes seen: #whole, #length
  slice,    \* #slice up to #inSlice
  damaged,  \* #damaged, with #sliceIndex
  results   \* of the files checked

par2Vars == <<release, step, volumes, tried, at, packets, set, row, pending, whole, slice,
              damaged, results>>
verifier == <<pending, whole, slice, damaged>>

Fresh == [index |-> 0, slices |-> {}]

Par2Init ==
  /\ release = NoRelease /\ step = "idle" /\ volumes = <<>> /\ tried = 0 /\ at = <<1, 1>>
  /\ packets = <<>> /\ set = Unreadable /\ row = 0
  /\ pending = <<>> /\ whole = <<>> /\ slice = <<>> /\ damaged = Fresh /\ results = <<>>

VerifyCommand ==
  /\ step = "idle"
  /\ release' \in Releases /\ step' = "fetching"
  /\ UNCHANGED <<volumes, tried, at, packets, set, row, verifier, results>>

-----------------------------------------------------------------------------
(* loadSet: the next candidate, smallest first, or none is usable. *)

FetchVolume ==
  /\ step = "fetching" /\ tried < Len(release.volumes)
  /\ tried' = tried + 1
  /\ LET v == release.volumes[tried + 1] IN
       IF v.lost THEN UNCHANGED <<step, volumes, at, packets>>
       ELSE /\ volumes' = Append(volumes, v) /\ step' = "scanning"
            /\ at' = <<1, 1>> /\ packets' = <<>>
  /\ UNCHANGED <<release, set, row, verifier, results>>

(* The first volume that nothing can be read from ends it. *)
BugGivesUp == tried = Len(release.volumes) \/ volumes # <<>>

GivesUp == tried = Len(release.volumes)

NoVolumeLeft ==
  /\ step = "fetching" /\ GivesUp
  /\ step' = "refused"
  /\ UNCHANGED <<release, volumes, tried, at, packets, set, row, verifier, results>>

IsHeader(cell) == "length" \in DOMAIN cell

(* readPacket *)
IsPacket(cells, i) ==
  /\ cells[i].length \in 1 .. MaxPacket
  /\ i + cells[i].length - 1 <= Len(cells)
  /\ cells[i].sum = <<cells[i].packet, SubSeq(cells, i + 1, i + cells[i].length - 1)>>

(* Past the k-th packet that survived. *)
EndOf(v, k) == v.starts[k] + v.cells[v.starts[k]].length

(* What survived is intact and lies one packet after the other, and nothing *)
(* else in the volume passes for a packet, but for what is inside one.      *)
Laid(v) ==
  /\ v.cells \in Seq(ToSet(v.cells)) /\ v.starts \in Seq(DOMAIN v.cells)
  /\ v.survivors = [k \in DOMAIN v.starts |-> v.cells[v.starts[k]].packet]
  /\ \A k \in DOMAIN v.starts : IsHeader(v.cells[v.starts[k]]) /\ IsPacket(v.cells, v.starts[k])
  /\ \A k, l \in DOMAIN v.starts : k < l => EndOf(v, k) <= v.starts[l]
  /\ \A i \in DOMAIN v.cells :
       IsHeader(v.cells[i]) /\ IsPacket(v.cells, i) =>
         \E k \in DOMAIN v.starts : v.starts[k] <= i /\ i < EndOf(v, k)

ASSUME VolumesAssumption ==
  \A r \in Releases :
    r.volumes \in Seq(ToSet(r.volumes)) /\ \A v \in ToSet(r.volumes) : Laid(v)

(* Past the claimed length even of a packet that failed. *)
BugResume(cells, i) == i + cells[i].length

Resume(cells, i) == IF IsPacket(cells, i) THEN i + cells[i].length ELSE i + 1

(* scanPackets: one magic found, or the volume has no more. *)
Scan ==
  /\ step = "scanning" /\ at[1] <= Len(volumes)
  /\ LET cells == volumes[at[1]].cells
         found == SelectInSubSeq(cells, at[2], Len(cells), IsHeader)
     IN IF found = 0 THEN at' = <<at[1] + 1, 1>> /\ UNCHANGED packets
        ELSE /\ at' = <<at[1], Resume(cells, found)>>
             /\ packets' = IF IsPacket(cells, found) THEN Append(packets, cells[found].packet)
                           ELSE packets
  /\ UNCHANGED <<release, step, volumes, tried, set, row, verifier, results>>

(* readMain, readDescription, readSliceChecksums: too short a body, a slice *)
(* size of no use, fewer ids than announced.                                *)
Readable(p) == p.body # Unreadable

(* collect and absorb: the first Main packet names the set; of it, the      *)
(* first Main that can be read, and the last description and slices of each *)
(* file.                                                                    *)
ParsePar2(found) ==
  LET IsMain(p) == p.type = "main"
      first == SelectInSeq(found, IsMain)
      Ours(p) == p.set = found[first].set /\ Readable(p)
      ours  == IF first = 0 THEN <<>> ELSE SelectSeq(found, Ours)
      main  == SelectInSeq(ours, IsMain)
      LastOf(type, id) == SelectLastInSeq(ours, LAMBDA p : p.type = type /\ p.body.id = id)
      Described(id) == LastOf("description", id) # 0
      Sliced(id) == LastOf("slices", id) # 0
      FileOf(id) == [content |-> ours[LastOf("description", id)].body.content, id |-> id,
                     slices  |-> IF Sliced(id) THEN ours[LastOf("slices", id)].body.slices
                                 ELSE <<>>]
      ids == IF main = 0 THEN <<>> ELSE SelectSeq(ours[main].body.ids, Described)
  IN IF main = 0 THEN Unreadable
     ELSE [sliceSize |-> ours[main].body.sliceSize,
           files     |-> [i \in DOMAIN ids |-> FileOf(ids[i])]]

(* The k-th slice of some bytes, from 0; an empty file has one. *)
Padded(s, size) == s \o [i \in 1 .. size - Len(s) |-> 0]
Reaches(bytes, size, k) == k = 0 \/ k * size < Len(bytes)
SliceAt(bytes, size, k) ==
  Padded(SubSeq(bytes, k * size + 1,
                IF (k + 1) * size < Len(bytes) THEN (k + 1) * size ELSE Len(bytes)), size)

(* The slices a set has of a file: none, or each of what was posted. *)
Cover(slices, bytes, size) ==
  slices # <<>> =>
    /\ \A k \in 0 .. Len(slices) : k < Len(slices) <=> Reaches(bytes, size, k)
    /\ \A k \in DOMAIN slices : slices[k] = SliceAt(bytes, size, k - 1)

Describes(s, r) ==
  /\ s.sliceSize \in Nat \ {0} /\ s.files \in Seq(ToSet(s.files))
  /\ \A f \in ToSet(s.files) :
       /\ f.content = r.posted[f.id] /\ f.content \in Seq(Int)
       /\ r.disk[f.id] = Unreadable \/ r.disk[f.id] \in Seq(Int)
       /\ f.slices \in Seq(ToSet(f.slices)) /\ Cover(f.slices, f.content, s.sliceSize)

Gathered(vs) == FlattenSeq([j \in DOMAIN vs |-> vs[j].survivors])

(* Whichever volumes are read, in whatever order, a set that can be parsed  *)
(* of them describes what was posted.                                       *)
ASSUME SetsAssumption ==
  \A r \in Releases : \A n \in 0 .. Len(r.volumes) : \A vs \in [1 .. n -> ToSet(r.volumes)] :
    LET s == ParsePar2(Gathered(vs)) IN s = Unreadable \/ Describes(s, r)

Parse ==
  /\ step = "scanning" /\ at[1] > Len(volumes)
  /\ set' = ParsePar2(packets)
  /\ step' = IF set' = Unreadable THEN "fetching" ELSE "choosing"
  /\ UNCHANGED <<release, volumes, tried, at, packets, row, verifier, results>>

-----------------------------------------------------------------------------
(* checkOne, and Par2FileVerifier. *)

File == set.files[row]
OnDisk == release.disk[File.id]

CheckNext ==
  /\ step = "choosing" /\ row < Len(set.files)
  /\ row' = row + 1
  /\ IF release.disk[set.files[row + 1].id] = Unreadable
       THEN results' = Append(results, [state |-> "absent", damaged |-> {}]) /\ UNCHANGED step
       ELSE step' = "hashing" /\ UNCHANGED results
  /\ pending' = <<>> /\ whole' = <<>> /\ slice' = <<>> /\ damaged' = Fresh
  /\ UNCHANGED <<release, volumes, tried, at, packets, set>>

(* update: a chunk of n bytes from the disk. *)
Update(n) ==
  /\ step = "hashing" /\ pending = <<>> /\ Len(whole) + n <= Len(OnDisk)
  /\ pending' = SubSeq(OnDisk, Len(whole) + 1, Len(whole) + n)
  /\ whole' = whole \o pending'
  /\ UNCHANGED <<release, step, volumes, tried, at, packets, set, row, slice, damaged, results>>

BugClose(s) ==
  [index  |-> damaged.index + 1,
   slices |-> IF damaged.index < Len(File.slices) /\ File.slices[damaged.index + 1] # s
              THEN damaged.slices \cup {damaged.index} ELSE damaged.slices]

(* #closeSlice; a slice the set does not describe is no damage. *)
Close(s) ==
  [index  |-> damaged.index + 1,
   slices |-> IF damaged.index < Len(File.slices) /\ File.slices[damaged.index + 1] # Padded(s, set.sliceSize)
              THEN damaged.slices \cup {damaged.index} ELSE damaged.slices]

(* One turn of update's loop: as much of the chunk as the slice has room for. *)
Copy ==
  /\ step = "hashing" /\ pending # <<>>
  /\ LET room == set.sliceSize - Len(slice)
         take == IF room < Len(pending) THEN room ELSE Len(pending)
         filled == slice \o SubSeq(pending, 1, take)
     IN /\ pending' = SubSeq(pending, take + 1, Len(pending))
        /\ IF Len(filled) = set.sliceSize
             THEN slice' = <<>> /\ damaged' = Close(filled)
             ELSE slice' = filled /\ UNCHANGED damaged
  /\ UNCHANGED <<release, step, volumes, tried, at, packets, set, row, whole, results>>

Finish ==
  /\ step = "hashing" /\ pending = <<>> /\ Len(whole) = Len(OnDisk)
  /\ LET closed == IF slice # <<>> \/ damaged.index = 0 THEN Close(slice) ELSE damaged
         ok == whole = File.content /\ closed.slices = {}
     IN results' = Append(results, [state |-> IF ok THEN "ok" ELSE "bad", damaged |-> closed.slices])
  /\ step' = "choosing"
  /\ UNCHANGED <<release, volumes, tried, at, packets, set, row, verifier>>

Report ==
  /\ step = "choosing" /\ row = Len(set.files)
  /\ step' = IF \A i \in DOMAIN results : results[i].state = "ok" THEN "verified" ELSE "damaged"
  /\ UNCHANGED <<release, volumes, tried, at, packets, set, row, verifier, results>>

Par2Next ==
  \/ VerifyCommand \/ FetchVolume \/ NoVolumeLeft \/ Scan \/ Parse
  \/ CheckNext \/ Copy \/ Finish \/ Report
  \/ step = "hashing" /\ \E n \in 1 .. Len(OnDisk) - Len(whole) : Update(n)

Par2Spec == Par2Init /\ [][Par2Next]_par2Vars

-----------------------------------------------------------------------------
(* A damaged or truncated volume still yields every packet that survived,   *)
(* and no packet that did not, whatever a corrupted length claims           *)
(* (packets.ts:8-16, 58-63).                                                *)
SurvivorsAreFound ==
  step \notin {"idle", "fetching", "scanning"} => packets = Gathered(volumes)

(* A volume that is lost or that nothing can be read from costs nothing     *)
(* while another holds the set (commands/verify.ts:123-127).                *)
OneVolumeIsEnough ==
  step = "refused" =>
    \A v \in ToSet(release.volumes) : ~v.lost => ParsePar2(v.survivors) = Unreadable

(* However the chunks of a file fall, and whatever else the volumes held,   *)
(* a file is `ok` exactly if its bytes are those that were posted, and the  *)
(* damaged slices are exactly those whose zero-padded bytes differ, where   *)
(* the set has checksums to tell (verify.ts:37-42, 108-113; par2            *)
(* README:54-60).                                                           *)
VerdictIsTheBytes ==
  \A i \in DOMAIN results :
    LET f == set.files[i]
        size == set.sliceSize
        disk == release.disk[f.id]
        posted == release.posted[f.id]
    IN IF disk = Unreadable THEN results[i].state = "absent"
       ELSE /\ results[i].state = "ok" <=> disk = posted
            /\ Cover(f.slices, posted, size)
            /\ results[i].damaged =
                 {k \in 0 .. Len(f.slices) - 1 :
                    Reaches(disk, size, k) /\ SliceAt(disk, size, k) # SliceAt(posted, size, k)}
=============================================================================
