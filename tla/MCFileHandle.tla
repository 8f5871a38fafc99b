---------------------------- MODULE MCFileHandle ----------------------------
(***************************************************************************)
(* Files of up to three articles of one or two bytes, each file sound or   *)
(* with one article spoilt, or with two of its articles swapped.           *)
(***************************************************************************)
EXTENDS FileHandle, TLC

Sizes == UNION {[1 .. n -> {1, 2}] : n \in 1 .. 3}
Until(sizes, n) == MapThenSumSet(LAMBDA i : sizes[i], 1 .. n)

Sound(sizes) ==
  [n \in DOMAIN sizes |->
     [size   |-> Until(sizes, Len(sizes)),
      part   |-> ByteRange(Until(sizes, n - 1), Until(sizes, n)),
      length |-> sizes[n]]]

Spoilt(sound) ==
  UNION {{[sound EXCEPT ![n].part = NoPart],
          [sound EXCEPT ![n].length = @ - 1],
          [sound EXCEPT ![n].size = @ + 1]} : n \in DOMAIN sound}
  \cup {[sound EXCEPT ![n] = sound[m], ![m] = sound[n]] : n, m \in DOMAIN sound}

MCPosts ==
  UNION {{Sound(sizes)} \cup Spoilt(Sound(sizes)) : sizes \in Sizes}
  \cup {<<[size |-> 0, part |-> NoPart, length |-> 0]>>}

MCBounds == {Omitted, NotANumber} \cup {-3, -1, 0, 1, 2, 9}

MCRanges ==
  {[start |-> s, end |-> e] : s \in {0, 1, 3}, e \in {Omitted, 2, 4}}
    \cup {[start |-> -n, end |-> Omitted] : n \in {1, 2, 9}}

Valid(r) == r.end = Omitted \/ r.start < r.end

MCGets ==
  {[ranges |-> rs, sparse |-> sp] :
     rs \in {<<>>} \cup {<<r>> : r \in {q \in MCRanges : Valid(q)}}, sp \in BOOLEAN}
  \cup {[ranges |-> <<r, q>>, sparse |-> TRUE] :
           r, q \in {v \in MCRanges : Valid(v)}}
=============================================================================
