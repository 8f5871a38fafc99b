----------------------------- MODULE FileHandle -----------------------------
(***************************************************************************)
(* A file of an NZB opened, sliced and read (packages/nzb/src/handle.ts),  *)
(* and `nzb get` on one file (packages/nzb-cli/src/commands/get.ts with    *)
(* its sink).                                                              *)
(*                                                                         *)
(* A byte is its true offset in the file: an article holds the bytes its   *)
(* =ypart line says, whatever place the geometry predicted for it.  That   *)
(* fetches overlap and fail is ArticleRead's matter; here each article     *)
(* arrives, in the order the consumer needs.                               *)
(***************************************************************************)
EXTENDS FileRange, Sequences, FiniteSets, FiniteSetsExt

CONSTANTS
  Posts,      \* the files: sequences of articles
  Bounds,     \* the arguments slice() is called with
  MaxSlices,  \* how deep slices nest
  Gets        \* the --range and --sparse options of `nzb get`

(* What decode-article.ts makes of an article: parseHeader and parsePart *)
(* refuse anything else.                                                 *)
Articles == [size : Nat, part : [start : Nat, end : Nat] \cup {NoPart}, length : Nat]

(* What parseRange makes of --range: START-END, START- or, negative, -N. *)
RangeOptions == [start : Int, end : Nat \cup {Omitted}]

ASSUME PostsAssumption == Posts \subseteq Seq(Articles) /\ <<>> \notin Posts
ASSUME BoundsAssumption == Bounds \subseteq Int \cup {Omitted, NotANumber}
ASSUME GetsAssumption ==
  \A o \in Gets :
    /\ o.ranges \in Seq(RangeOptions)
    /\ \A i \in DOMAIN o.ranges : o.ranges[i].start < 0 => o.ranges[i].end = Omitted

VARIABLES
  post,
  use,       \* "bytes" (and stream), "writeTo", or "get"
  options,   \* of get: [ranges, sparse]
  stage,     \* closed, refused, open, skipped, getting, reading, done, failed
  geometry,  \* HandleContext.geometry
  window,    \* #window of the handle in use
  cut,       \* the last slice(): of which window, with which arguments
  todo,      \* get: the ranges whose windows are not yet written
  shift,     \* of the sink
  left,      \* the segments the current read still needs
  out,       \* what was handed over: <<offset, byte>>
  planned,   \* the ARTICLES column of get's report
  fetched    \* how many articles were used

vars == <<post, use, options, stage, geometry, window, cut, todo, shift, left, out,
          planned, fetched>>

NoGeometry == Predict([size |-> 0, part |-> NoPart, length |-> 0], 1)

Init ==
  /\ post \in Posts
  /\ \/ use \in {"bytes", "writeTo"} /\ options = [ranges |-> <<>>, sparse |-> FALSE]
     \/ use = "get" /\ options \in Gets
  /\ stage = "closed" /\ geometry = NoGeometry
  /\ window = ByteRange(0, 0)
  /\ cut = [depth |-> 0, of |-> ByteRange(0, 0), start |-> Omitted, end |-> Omitted]
  /\ todo = {} /\ shift = 0 /\ left = {} /\ out = {}
  /\ planned = 0 /\ fetched = 0

-----------------------------------------------------------------------------
(* openNzbFile: article 1 predicts the layout, or nothing can. *)

OpenNzbFile ==
  /\ stage = "closed"
  /\ \/ /\ CanPredict(post[1], Len(post))
        /\ stage' = "open"
        /\ geometry' = Predict(post[1], Len(post))
        /\ window' = ByteRange(0, post[1].size)
     \/ /\ ~CanPredict(post[1], Len(post))
        /\ stage' = "refused"
        /\ UNCHANGED <<geometry, window>>
  /\ UNCHANGED <<post, use, options, cut, todo, shift, left, out, planned, fetched>>

Slice(start, end) ==
  /\ stage = "open" /\ use # "get" /\ cut.depth < MaxSlices
  /\ LET local == NormalizeSlice(Length(window), start, end) IN
       window' = ByteRange(window.start + local.start, window.start + local.end)
  /\ cut' = [depth |-> cut.depth + 1, of |-> window, start |-> start, end |-> end]
  /\ UNCHANGED <<post, use, options, stage, geometry, todo, shift, left, out, planned, fetched>>

(* #resolve, for the handle whose window is w. *)
BeginRead(w) ==
  /\ window' = w
  /\ IF Unresolvable(geometry, w)
       THEN stage' = "failed" /\ UNCHANGED left
       ELSE stage' = "reading" /\ left' = Segments(geometry, w)

Read ==
  /\ stage = "open" /\ use # "get"
  /\ BeginRead(window)
  /\ cut' = [cut EXCEPT !.depth = 0, !.of = ByteRange(0, 0), !.start = Omitted, !.end = Omitted]
  /\ UNCHANGED <<post, use, options, geometry, todo, shift, out, planned, fetched>>

(***************************************************************************)
(* #articleFor and the hand-over: bytes() fills its array from the left,   *)
(* writeTo() states the offset in the file, from which get's sink          *)
(* subtracts where the range began.                                        *)
(***************************************************************************)
Offset(s) ==
  IF use = "bytes" THEN Cardinality(out)
  ELSE (s.number - 1) * geometry.segmentSize + s.offsetInSegment - shift

ByteAt(article, i) == i + (IF article.part = NoPart THEN 0 ELSE article.part.start)

HandOver(s) ==
  /\ stage = "reading" /\ s \in left
  /\ use = "bytes" => \A t \in left : s.number <= t.number
  /\ IF VerifyPlacement(post[s.number], s.number, geometry)
       THEN /\ out' = out \cup
                 {<<Offset(s) + i, ByteAt(post[s.number], s.offsetInSegment + i)>> :
                    i \in 0 .. s.byteLength - 1}
            /\ left' = left \ {s}
            /\ fetched' = fetched + 1
            /\ UNCHANGED stage
       ELSE /\ stage' = "failed"
            /\ UNCHANGED <<left, out, fetched>>
  /\ UNCHANGED <<post, use, options, geometry, window, cut, todo, shift, planned>>

EndRead ==
  /\ stage = "reading" /\ left = {}
  /\ stage' = IF use = "get" THEN "getting" ELSE "done"
  /\ UNCHANGED <<post, use, options, geometry, window, cut, todo, shift, left, out, planned, fetched>>

-----------------------------------------------------------------------------
(* get: apply, offsetOf and countArticles for each --range, then download. *)

Whole == [start |-> 0, end |-> Omitted]

Apply(r) == NormalizeSlice(geometry.totalSize, r.start, r.end)

OffsetOf(r) ==
  IF r.start < 0 THEN AtLeast(0, geometry.totalSize + r.start)
  ELSE AtMost(r.start, geometry.totalSize)

(* One article too many when a range ends where an article does. *)
BugCountArticles(offset, length) ==
  IF ~geometry.uniform \/ geometry.segmentSize <= 0 \/ length = 0 THEN 0
  ELSE LET first == offset \div geometry.segmentSize
           last  == AtMost((offset + length) \div geometry.segmentSize,
                           geometry.segmentCount - 1)
       IN last - first + 1

CountArticles(offset, length) ==
  IF ~geometry.uniform \/ geometry.segmentSize <= 0 \/ length = 0 THEN 0
  ELSE LET first == offset \div geometry.segmentSize
           last  == AtMost((offset + length - 1) \div geometry.segmentSize,
                           geometry.segmentCount - 1)
       IN last - first + 1

Ranges == IF options.ranges = <<>> THEN <<Whole>> ELSE options.ranges

(* The ranges with something in them, one window for each. *)
Windows == {i \in DOMAIN Ranges : Length(Apply(Ranges[i])) > 0}

Select ==
  /\ stage = "open" /\ use = "get"
  /\ todo' = Windows
  /\ IF Windows = {}
       THEN stage' = "skipped" /\ UNCHANGED <<shift, planned>>
       ELSE /\ stage' = "getting"
            /\ shift' = IF options.sparse THEN 0 ELSE OffsetOf(Ranges[Min(Windows)])
            /\ planned' = MapThenSumSet(
                 LAMBDA i : CountArticles(OffsetOf(Ranges[i]), Length(Apply(Ranges[i]))), Windows)
  /\ UNCHANGED <<post, use, options, geometry, window, cut, left, out, fetched>>

(* The windows are written in turn, to one sink. *)
NextWindow ==
  /\ stage = "getting" /\ todo # {}
  /\ BeginRead(Apply(Ranges[Min(todo)]))
  /\ todo' = todo \ {Min(todo)}
  /\ UNCHANGED <<post, use, options, geometry, cut, shift, out, planned, fetched>>

EndGet ==
  /\ stage = "getting" /\ todo = {}
  /\ stage' = "done"
  /\ UNCHANGED <<post, use, options, geometry, window, cut, todo, shift, left, out, planned, fetched>>

Next ==
  \/ OpenNzbFile
  \/ \E start, end \in Bounds : Slice(start, end)
  \/ Read \/ EndRead
  \/ \E s \in left : HandOver(s)
  \/ Select \/ NextWindow \/ EndGet

Spec == Init /\ [][Next]_vars

-----------------------------------------------------------------------------
(* Properties. *)

(* What `--range` asks for: START-END, START- or the last N bytes. *)
Asked(r) ==
  {b \in 0 .. geometry.totalSize - 1 :
     IF r.start < 0 THEN b >= geometry.totalSize + r.start
     ELSE b >= r.start /\ (r.end = Omitted \/ b < r.end)}

Wanted ==
  IF use # "get" THEN BytesOf(window)
  ELSE UNION {Asked(Ranges[i]) : i \in DOMAIN Ranges}

(* Where the bytes asked for belong: bytes() and a contiguous get start at  *)
(* the first of them, writeTo() and a sparse get at the start of the file.  *)
Base == IF use = "bytes" THEN window.start ELSE shift

(* No byte is ever handed over in the wrong place, from whatever post,      *)
(* uniform or not, truncated or mixed up, and even by a read that fails     *)
(* half way; and a read that ends has handed over exactly the bytes asked   *)
(* for: "byte-identical to slicing the whole file" (models.ts:87-92).       *)
ReadIsExact ==
  /\ \A w \in out : w[1] + Base = w[2] /\ w[2] \in Wanted
  /\ stage = "done" => {w[2] : w \in out} = Wanted

(* slice() takes the bytes Blob.slice() would, of the handle's own window   *)
(* and not of the file: a nested slice cannot reach outside its parent      *)
(* (range.ts:11-26, models.ts:139-151).                                     *)
SliceIsLocal ==
  LET size == Length(cut.of)
      After(i, v)  == v \in {Omitted, NotANumber} \/ i >= (IF v < 0 THEN size + v ELSE v)
      Before(i, v) == v = Omitted \/ (v # NotANumber /\ i < (IF v < 0 THEN size + v ELSE v))
  IN cut.depth > 0 =>
       BytesOf(window) =
         {cut.of.start + i : i \in {j \in 0 .. size - 1 : After(j, cut.start) /\ Before(j, cut.end)}}

(* The number of articles get announces is the number the windows take:     *)
(* one for each article a range overlaps.                                   *)
AnnouncedIsFetched == use = "get" /\ stage = "done" => fetched = planned
=============================================================================
