------------------------------ MODULE NzbParser ------------------------------
(***************************************************************************)
(* parseNzb (packages/nzb-parser/src/parse.ts) over the items its scanner  *)
(* cuts a document into (scanner.ts, entities.ts).                         *)
(*                                                                         *)
(* Character data is a sequence of tokens: a character reference is one    *)
(* token, a word another.  An attribute is an integer or other text.  The  *)
(* subject, the poster and the date are one text each.  null is the record *)
(* without fields.                                                         *)
(***************************************************************************)
EXTENDS Integers, Sequences, FiniteSets, SequencesExt

CONSTANTS
  Documents,   \* sequences of items
  NoDocument,  \* before one is chosen
  Lt, Gt, Space,      \* characters
  RefLt, RefGt,       \* &lt; and &gt;
  RefOther,           \* a reference that is unknown or unterminated
  Rejected            \* NzbParseError

(* A tag ends itself or does not; character data is a sequence.             *)
ASSUME DocumentsAssumption ==
  \A d \in Documents :
    /\ d \in Seq(ToSet(d))
    /\ \A i \in DOMAIN d :
         /\ d[i].kind = "start" => d[i].selfClosing \in BOOLEAN
         /\ d[i].kind \in {"text", "cdata"} => d[i].value \in Seq(ToSet(d[i].value))

VARIABLES
  document,
  next,   \* the item the scanner reads next
  nzb     \* ParserState; Rejected, or the finished document, at the end

parserVars == <<document, next, nzb>>

None == <<>>
Text == {"meta", "group", "segment"}
Start == [meta |-> <<>>, files |-> <<>>, stack |-> <<>>, sawRoot |-> FALSE,
          file |-> None, segment |-> None, metaType |-> None, text |-> <<>>]

ParserInit == document = NoDocument /\ next = 1 /\ nzb = Start

ParseNzb ==
  /\ document = NoDocument
  /\ document' \in Documents
  /\ UNCHANGED <<next, nzb>>

-----------------------------------------------------------------------------
(* scanner.ts *)

Expand(t) == IF t = RefLt THEN Lt ELSE IF t = RefGt THEN Gt ELSE t
DecodeEntities(value) == [i \in DOMAIN value |-> Expand(value[i])]
BadReference(value) == RefOther \in ToSet(value)

(* Markup the scanner refuses: unterminated, malformed, an attribute twice. *)
Refused(item) ==
  \/ item.kind = "broken"
  \/ item.kind = "text" /\ BadReference(item.value)
  \/ item.kind = "start" /\ item.twice

Ignored(item) == item.kind \in {"comment", "instruction", "declaration"}

(* CDATA is literal. *)
Characters(item) == IF item.kind = "cdata" THEN item.value ELSE DecodeEntities(item.value)

-----------------------------------------------------------------------------
(* parse.ts *)

InElement(s, names) == s.stack # <<>> /\ Last(s.stack) \in names

Trim(text) ==
  LET ink == {i \in DOMAIN text : text[i] # Space}
  IN IF ink = {} THEN <<>> ELSE SubSeq(text, Min(ink), Max(ink))

StripAngleBrackets(id) ==
  IF Len(id) > 1 /\ id[1] = Lt /\ id[Len(id)] = Gt THEN SubSeq(id, 2, Len(id) - 1) ELSE id

RequiredAttribute(tag, a) == a \in DOMAIN tag.attributes
IntegerAttribute(tag, a) == RequiredAttribute(tag, a) /\ tag.attributes[a] \in Int

OpenFails(s, tag) ==
  \/ tag.name = "nzb" /\ s.stack # <<>>
  \/ tag.name = "file" /\ ~(RequiredAttribute(tag, "subject") /\ IntegerAttribute(tag, "date"))
  \/ tag.name = "meta" /\ ~RequiredAttribute(tag, "type")
  \/ tag.name = "segment" /\ ~(IntegerAttribute(tag, "number") /\ IntegerAttribute(tag, "bytes"))

OpenElement(s, tag) ==
  LET a == tag.attributes IN
  CASE tag.name = "nzb"  -> [s EXCEPT !.sawRoot = TRUE]
    [] tag.name = "file" -> [s EXCEPT !.file = [subject |-> a["subject"], groups |-> <<>>,
                                                segments |-> <<>>]]
    [] tag.name = "meta" -> [s EXCEPT !.metaType = [type |-> a["type"]]]
    [] tag.name = "segment" -> [s EXCEPT !.segment = [number |-> a["number"], bytes |-> a["bytes"]]]
    [] OTHER -> s

(* Stable, as toSorted is. *)
SortedByNumber(segments) ==
  LET Before(i, j) == \/ segments[i].number < segments[j].number
                      \/ segments[i].number = segments[j].number /\ i < j
      Rank(i) == Cardinality({j \in DOMAIN segments : Before(j, i)}) + 1
  IN [k \in DOMAIN segments |-> segments[CHOOSE i \in DOMAIN segments : Rank(i) = k]]

FinalizeFile(f) ==
  LET sorted == SortedByNumber(f.segments) IN
  [subject |-> f.subject, groups |-> f.groups, segments |-> sorted,
   totalEncodedBytes |-> FoldLeft(LAMBDA sum, g : sum + g.bytes, 0, sorted),
   contiguous |-> \A i \in DOMAIN sorted : sorted[i].number = i]

CloseFails(s, name) ==
  \/ name \in {"file", "group", "segment"} /\ s.file = None
  \/ name = "meta" /\ s.metaType = None
  \/ name = "segment" /\ s.segment = None
  \/ name \in {"group", "segment"} /\ Trim(s.text) = <<>>

(* The segment stays open, for the next </segment> to use again. *)
BugCloseElement(s, name) ==
  CASE name = "file" -> [s EXCEPT !.files = Append(@, FinalizeFile(s.file))]
    [] name = "meta" -> [s EXCEPT !.meta = Append(@, <<s.metaType.type, Trim(s.text)>>), !.metaType = None]
    [] name = "group" -> [s EXCEPT !.file.groups = Append(@, Trim(s.text))]
    [] name = "segment" ->
         [s EXCEPT !.file.segments = Append(@, [number |-> s.segment.number,
                                                bytes |-> s.segment.bytes,
                                                messageId |-> StripAngleBrackets(Trim(s.text))])]
    [] OTHER -> s

CloseElement(s, name) ==
  CASE name = "file" -> [s EXCEPT !.files = Append(@, FinalizeFile(s.file)), !.file = None]
    [] name = "meta" -> [s EXCEPT !.meta = Append(@, <<s.metaType.type, Trim(s.text)>>), !.metaType = None]
    [] name = "group" -> [s EXCEPT !.file.groups = Append(@, Trim(s.text))]
    [] name = "segment" ->
         [s EXCEPT !.file.segments = Append(@, [number |-> s.segment.number,
                                                bytes |-> s.segment.bytes,
                                                messageId |-> StripAngleBrackets(Trim(s.text))]),
                   !.segment = None]
    [] OTHER -> s

Reject == nzb' = Rejected /\ UNCHANGED <<document, next>>
Accept(s) == nzb' = s /\ next' = next + 1 /\ UNCHANGED document

Reading == nzb # Rejected /\ document # NoDocument /\ next <= Len(document)
Item == document[next]

RefuseMarkup == Reading /\ Refused(Item) /\ Reject

SkipMarkup == Reading /\ Ignored(Item) /\ Accept(nzb)

ReadText ==
  /\ Reading /\ Item.kind \in {"text", "cdata"} /\ ~Refused(Item)
  /\ Accept(IF InElement(nzb, Text) THEN [nzb EXCEPT !.text = @ \o Characters(Item)] ELSE nzb)

ReadStartTag ==
  /\ Reading /\ Item.kind = "start" /\ ~Item.twice
  /\ LET open == [OpenElement(nzb, Item) EXCEPT !.text = <<>>] IN
       IF OpenFails(nzb, Item) THEN Reject
       ELSE IF ~Item.selfClosing THEN Accept([open EXCEPT !.stack = Append(@, Item.name)])
       ELSE IF CloseFails(open, Item.name) THEN Reject
       ELSE Accept(CloseElement(open, Item.name))

ReadEndTag ==
  /\ Reading /\ Item.kind = "end"
  /\ IF ~InElement(nzb, {Item.name}) THEN Reject
     ELSE LET popped == [nzb EXCEPT !.stack = Front(@)] IN
          IF CloseFails(popped, Item.name) THEN Reject
          ELSE Accept([CloseElement(popped, Item.name) EXCEPT !.text = <<>>])

EndOfDocument ==
  /\ nzb # Rejected /\ document # NoDocument /\ next = Len(document) + 1
  /\ IF nzb.stack # <<>> \/ ~nzb.sawRoot THEN Reject ELSE Accept(nzb)

ParserNext ==
  \/ ParseNzb \/ RefuseMarkup \/ SkipMarkup \/ ReadText \/ ReadStartTag \/ ReadEndTag \/ EndOfDocument

ParserSpec == ParserInit /\ [][ParserNext]_parserVars

-----------------------------------------------------------------------------
(* What the document d says, read as a tree rather than as a stream. *)

Opens(d, i) == d[i].kind = "start" /\ ~d[i].selfClosing
Closes(d, i) == d[i].kind = "end"
DepthAfter(d, i) ==
  Cardinality({j \in 1 .. i : Opens(d, j)}) - Cardinality({j \in 1 .. i : Closes(d, j)})
ClosedAt(d, i) ==
  IF d[i].selfClosing THEN i
  ELSE Min({j \in i + 1 .. Len(d) : DepthAfter(d, j) < DepthAfter(d, i)})

Elements(d, name, from, to) == {i \in from .. to : d[i].kind = "start" /\ d[i].name = name}

(* How many of S are over when i is. *)
Place(d, S, i) == Cardinality({j \in S : ClosedAt(d, j) <= ClosedAt(d, i)})

(* The character data of an element, after the last tag inside it. *)
TextOf(d, i) ==
  LET end  == ClosedAt(d, i)
      tags == {j \in i .. end - 1 : d[j].kind \in {"start", "end"}}
      Piece(k) == IF d[k].kind \in {"text", "cdata"} THEN Characters(d[k]) ELSE <<>>
  IN IF end = i THEN <<>>
     ELSE Trim(FlattenSeq([n \in 1 .. end - Max(tags) |-> Piece(Max(tags) + n)]))

(* f is the file written at i: the texts of its groups in the order they    *)
(* end, its segments by their numbers.                                      *)
IsFileAt(d, i, f) ==
  LET groups   == Elements(d, "group", i, ClosedAt(d, i))
      segments == Elements(d, "segment", i, ClosedAt(d, i))
      Number(j) == d[j].attributes["number"]
  IN /\ f.subject = d[i].attributes["subject"]
     /\ Len(f.groups) = Cardinality(groups)
     /\ \A j \in groups : f.groups[Place(d, groups, j)] = TextOf(d, j)
     /\ Len(f.segments) = Cardinality(segments)
     /\ \A j \in segments :
          [number |-> Number(j), bytes |-> d[j].attributes["bytes"],
           messageId |-> StripAngleBrackets(TextOf(d, j))] \in ToSet(f.segments)
     /\ \A k, l \in DOMAIN f.segments : k < l => f.segments[k].number <= f.segments[l].number
     /\ f.contiguous <=> {Number(j) : j \in segments} = 1 .. Cardinality(segments)

Inside(d, i) ==
  \E e \in Elements(d, "file", 1, Len(d)) : e < i /\ i < ClosedAt(d, e)

IsDocument(d, parsed) ==
  LET All(name) == Elements(d, name, 1, Len(d)) IN
  /\ \A i \in DOMAIN d : DepthAfter(d, i) >= 0
  /\ DepthAfter(d, Len(d)) = 0
  /\ Len(parsed.files) = Cardinality(All("file"))
  /\ \A i \in All("file") : IsFileAt(d, i, parsed.files[Place(d, All("file"), i)])
  /\ \A i \in All("group") \cup All("segment") : Inside(d, i)
  /\ Len(parsed.meta) = Cardinality(All("meta"))
  /\ \A i \in All("meta") :
       parsed.meta[Place(d, All("meta"), i)] = <<d[i].attributes["type"], TextOf(d, i)>>

(* A document is accepted only if its tags nest, and then every <file> in   *)
(* it is one file, with the groups and the segments written inside it, each *)
(* segment's Message-ID the text of that very element, and every <meta> one *)
(* pair, in the order they end: nothing is taken from a neighbour, dropped  *)
(* or read twice, no group or segment stands outside a file, and            *)
(* `contiguous` says whether the articles are numbered 1 to n.  "The        *)
(* failure mode of a permissive parser is silently fetching the wrong       *)
(* articles" (scanner.ts:8-11, parse.ts:190-217).                           *)
ParsedAsWritten ==
  nzb # Rejected /\ document # NoDocument /\ next = Len(document) + 2 =>
    IsDocument(document, nzb)
=============================================================================
