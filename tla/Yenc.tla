-------------------------------- MODULE Yenc --------------------------------
(***************************************************************************)
(* yEnc articles (packages/yenc/src/decode-bytes.ts, decode-article.ts).   *)
(*                                                                         *)
(* A byte is a number.  A control line is one element of the body where it *)
(* stands (Ybegin, Ypart, Yend), its fields are kept beside the body, each *)
(* a number, Absent, or Malformed.  The checksum of some bytes is those    *)
(* bytes: CRC-32 collisions are left out.                                  *)
(***************************************************************************)
EXTENDS Integers, Sequences, SequencesExt

CONSTANTS
  Ybegin, Ypart, Yend,  \* the three control lines
  Absent, Malformed,    \* a field that is not there, or not a number
  Failed                \* YencDecodeError, YencChecksumError

ASSUME ControlsAssumption ==
  /\ Ybegin # Ypart /\ Ybegin # Yend /\ Ypart # Yend
  /\ \A control \in {Ybegin, Ypart, Yend} : control \notin Int

ASSUME AbsentAssumption == Absent \notin BOOLEAN

CR == 13
LF == 10
Escape == 61

(* A CR, an LF or both together end a line. *)
Breaks(text) ==
  {i \in DOMAIN text :
     text[i] = CR \/ (text[i] = LF /\ ~(i > 1 /\ text[i - 1] = CR))}

AfterBreak(text, i) ==
  IF text[i] = CR /\ i < Len(text) /\ text[i + 1] = LF THEN i + 2 ELSE i + 1

(* Where each line starts; what stands there tells the control lines. *)
LineStarts(text) == {1} \cup {AfterBreak(text, i) : i \in Breaks(text)}

LinesWith(text, control) ==
  {s \in LineStarts(text) : s \in DOMAIN text /\ text[s] = control}

NextLine(text, line) ==
  LET later == {s \in LineStarts(text) : s > line}
  IN IF later = {} THEN 0 ELSE Min(later)

(* An escape takes the next byte whatever it is; an unescaped CR or LF is  *)
(* line structure.                                                         *)
DecodeStep(s, b) ==
  IF b \in {Ybegin, Ypart, Yend} THEN [s EXCEPT !.out = Append(@, b)]
  ELSE IF s.escaped THEN [out |-> Append(s.out, (b - 106) % 256), escaped |-> FALSE]
  ELSE CASE b \in {CR, LF} -> s
         [] b = Escape -> [out |-> s.out, escaped |-> TRUE]
         [] OTHER -> [out |-> Append(s.out, (b - 42) % 256), escaped |-> FALSE]

Decoding(encoded) ==
  LET upTo[i \in 0 .. Len(encoded)] ==
        IF i = 0 THEN [out |-> <<>>, escaped |-> FALSE]
        ELSE DecodeStep(upTo[i - 1], encoded[i])
  IN upTo

DecodeBytes(encoded) ==
  LET all == Decoding(encoded)[Len(encoded)]
  IN IF all.escaped THEN Failed ELSE all.out

OptionalInteger(v) == v # Malformed
RequiredInteger(v) == v \notin {Absent, Malformed}
OptionalHex(v) == IF v = Malformed THEN Absent ELSE v

(* A part's own checksum covers what was decoded; the whole file's only    *)
(* does when the article is the whole file.                                *)
BugCovering(f, multipart) ==
  IF OptionalHex(f.crc32) # Absent THEN OptionalHex(f.crc32) ELSE OptionalHex(f.pcrc32)

Covering(f, multipart) ==
  IF multipart \/ OptionalHex(f.crc32) = Absent THEN OptionalHex(f.pcrc32)
  ELSE OptionalHex(f.crc32)

(* f holds the fields of the control lines; `total` stands for the optional *)
(* numbers.                                                                 *)
HeaderFails(f) ==
  ~RequiredInteger(f.name) \/ ~RequiredInteger(f.size) \/ ~OptionalInteger(f.total)

PartFails(f) ==
  \/ ~RequiredInteger(f.begin) \/ ~RequiredInteger(f.end)
  \/ f.begin < 1 \/ f.end < f.begin

(* On the wire from 1 and inclusive, from here on from 0 and half-open. *)
PartRange(f) == <<f.begin - 1, f.end>>

TrailerFails(f) == ~RequiredInteger(f.trailerSize)

(* One slice across the payload's lines, breaks and all. *)
DecodePayload(raw, header, end) ==
  LET lines == {s \in LineStarts(raw) : header < s /\ s < end}
  IN IF lines = {} THEN <<>> ELSE DecodeBytes(SubSeq(raw, Min(lines), end - 1))

Compare(f, multipart, data) ==
  IF Covering(f, multipart) = Absent THEN Absent ELSE Covering(f, multipart) = data

Decoded(data, part, matches, sizeMatches) ==
  [data |-> data, part |-> part, matches |-> matches, sizeMatches |-> sizeMatches]

DecodeArticle(raw, f, verify) ==
  LET begin == Min(LinesWith(raw, Ybegin))
      end   == Min(LinesWith(raw, Yend))
      multipart == NextLine(raw, begin) \in LinesWith(raw, Ypart)
      data  == DecodePayload(raw, IF multipart THEN NextLine(raw, begin) ELSE begin, end)
      matches == Compare(f, multipart, data)
  IN IF \/ LinesWith(raw, Ybegin) = {} \/ LinesWith(raw, Yend) = {}
        \/ HeaderFails(f) \/ (multipart /\ PartFails(f)) \/ TrailerFails(f)
        \/ data = Failed
        \/ verify /\ matches = FALSE
     THEN Failed
     ELSE Decoded(data, IF multipart THEN PartRange(f) ELSE Absent, matches,
                  f.trailerSize = Len(data))

-----------------------------------------------------------------------------
(* What a poster writes: every byte moved by 42, and those that would be   *)
(* taken for structure, or that some posters escape as well, moved again   *)
(* behind an escape; a line may end after any of them.                     *)

Critical == {0, CR, LF, Escape}
Escapable == Critical \cup {9, 32, 46}

Codes(d) ==
  LET c == (d + 42) % 256
      e == (c + 64) % 256
  IN (IF c \in Critical THEN {} ELSE {<<c>>, <<c, CR, LF>>}) \cup
     (IF c \in Escapable THEN {<<Escape, e>>, <<Escape, e, CR, LF>>} ELSE {})

ControlLine(control) == <<control, CR, LF>>

(* An article: `place` is that of a part, or Absent. *)
Written(preamble, place, codes) ==
  preamble \o ControlLine(Ybegin)
    \o (IF place = Absent THEN <<>> ELSE ControlLine(Ypart))
    \o FlattenSeq(codes) \o ControlLine(Yend)
=============================================================================
