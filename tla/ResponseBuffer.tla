--------------------------- MODULE ResponseBuffer ---------------------------
(***************************************************************************)
(* Replies cut out of the byte stream of a connection                      *)
(* (packages/nntp/src/response-buffer.ts), under the client that awaits    *)
(* them (client.ts #wait, #drain), and the article decoded from the block. *)
(*                                                                         *)
(* The server sends a status line, a multi-line block and the status line  *)
(* of the next reply; the bytes arrive in chunks of any size, before or    *)
(* after the client asks for what they hold.                               *)
(***************************************************************************)
EXTENDS Yenc

CONSTANTS
  Status,  \* the text of a status line
  Bodies,  \* what the server sends: the body, the fields, and how it was made
  NoBody   \* before one is chosen

ASSUME StatusAssumption == Status \notin {CR, LF}

VARIABLES
  sent,     \* the member of Bodies under way
  arrived,  \* how many bytes of the stream have been pushed
  buffer,   \* #buffer
  searched, \* #searched
  waiter,   \* the kind of reply awaited
  taken,    \* what the client was given, in order
  article   \* what the block decoded to

wireVars == <<sent, arrived, buffer, searched, waiter, taken, article>>

Dot == 46
CRLF == <<CR, LF>>
Terminator == <<Dot, CR, LF>>
Expected == <<"line", "block", "line">>

StartsLine(text, i) == i = 1 \/ (i > 2 /\ text[i - 1] = LF /\ text[i - 2] = CR)

(* A body is lines with their ends, none or some: after it a line may start. *)
ASSUME BodiesAssumption ==
  /\ NoBody \notin Bodies
  /\ \A b \in Bodies : b.body \in Seq(Int \cup {Ybegin, Ypart, Yend}) /\ StartsLine(b.body, Len(b.body) + 1)

(* What an article's fields say of the post: its place and length, and the *)
(* checksum of the part or, where there are no parts, of the file.         *)
FieldsSay(f, p) ==
  /\ ~HeaderFails(f) /\ ~TrailerFails(f) /\ f.trailerSize = Len(p.data)
  /\ p.part # Absent => ~PartFails(f) /\ PartRange(f) = p.part

(* A checksum is left out, malformed, or right; and if it is the whole     *)
(* file's, nothing that is left of one part decodes to that file.          *)
SumsAreRight(b) ==
  LET right == {Absent, Malformed, b.post.data} IN
  /\ b.fields.pcrc32 \in right
  /\ \/ b.fields.crc32 \in right
     \/ /\ b.post.part # Absent
        /\ \A i, j \in 0 .. Len(b.body) :
             DecodeBytes(SubSeq(b.body, i + 1, j)) # b.fields.crc32

(* Whatever was not spoilt on the way is as the poster wrote it. *)
ArticleIsSound(b) ==
  LET p == b.post IN
  /\ p.data \in Seq(0 .. 255) /\ p.preamble \in Seq(Int)
  /\ StartsLine(p.preamble, Len(p.preamble) + 1)
  /\ p.codes \in Seq(Seq(Int)) /\ Len(p.codes) = Len(p.data)
  /\ \A i \in 1 .. Len(p.data) : p.codes[i] \in Codes(p.data[i])
  /\ StartsLine(FlattenSeq(p.codes), Len(FlattenSeq(p.codes)) + 1)
  /\ b.body = Written(p.preamble, p.part, p.codes)
  /\ FieldsSay(b.fields, p)

ASSUME ArticlesAssumption ==
  \A b \in Bodies : b.fields # Absent =>
    /\ SumsAreRight(b) /\ b.post.data # Failed
    /\ \A m \in {TRUE, Absent} : Decoded(b.post.data, b.post.part, m, TRUE) # Failed
    /\ ~b.spoilt => ArticleIsSound(b)

(* The server's side: every line that starts with a dot gets another. *)
Stuff(body) ==
  FlattenSeq([i \in DOMAIN body |->
                IF body[i] = Dot /\ StartsLine(body, i) THEN <<Dot, Dot>> ELSE <<body[i]>>])

Stream == <<Status>> \o CRLF \o Stuff(sent.body) \o Terminator \o <<Status>> \o CRLF

WireInit ==
  /\ sent = NoBody
  /\ arrived = 0 /\ buffer = <<>> /\ searched = 0
  /\ waiter = "none" /\ taken = <<>> /\ article = Absent

ServerReplies ==
  /\ sent = NoBody
  /\ sent' \in Bodies
  /\ UNCHANGED <<arrived, buffer, searched, waiter, taken, article>>

-----------------------------------------------------------------------------
(* ResponseBuffer. *)

OccursAt(text, part, i) ==
  i + Len(part) - 1 <= Len(text) /\ SubSeq(text, i, i + Len(part) - 1) = part

(* The first CRLF at or after i, or one past the last byte. *)
LineEnd(text, i) ==
  LET ends == {j \in i .. Len(text) : OccursAt(text, CRLF, j)}
  IN IF ends = {} THEN Len(text) + 1 ELSE Min(ends)

(* The client searches for a terminator only where it has not looked yet.  *)
FindTerminator(text, from) ==
  LET found == {i \in from + 1 .. Len(text) : OccursAt(text, Terminator, i) /\ StartsLine(text, i)}
  IN IF found = {} THEN 0 ELSE Min(found)

(* One byte of a straddling terminator fewer than the next search needs. *)
BugNotFound(text) == IF Len(text) < 2 THEN 0 ELSE Len(text) - 1
NotFound(text) == IF Len(text) < 3 THEN 0 ELSE Len(text) - 3

(* One leading dot goes from every line that has one. *)
Unstuff(raw) ==
  LET Stuffed == {i \in DOMAIN raw : raw[i] = Dot /\ StartsLine(raw, i)}
  IN FlattenSeq([i \in DOMAIN raw |-> IF i \in Stuffed THEN <<>> ELSE <<raw[i]>>])

Consume(text, count) ==
  /\ buffer' = SubSeq(text, count + 1, Len(text))
  /\ searched' = 0

TakeLine(text) ==
  LET end == LineEnd(text, 1) IN
  IF end > Len(text)
    THEN buffer' = text /\ UNCHANGED <<searched, taken>>
    ELSE /\ taken' = Append(taken, SubSeq(text, 1, end - 1))
         /\ Consume(text, end + 1)

TakeBlock(text) ==
  LET end == FindTerminator(text, searched) IN
  IF end = 0
    THEN buffer' = text /\ searched' = NotFound(text) /\ UNCHANGED taken
    ELSE /\ taken' = Append(taken, Unstuff(SubSeq(text, 1, end - 1)))
         /\ Consume(text, end + 2)

(* #drain, with text in the buffer and a waiter of this kind. *)
Drain(text, kind) ==
  /\ CASE kind = "line"  -> TakeLine(text)
       [] kind = "block" -> TakeBlock(text)
       [] kind = "none"  -> buffer' = text /\ UNCHANGED <<searched, taken>>
  /\ waiter' = IF taken' = taken THEN kind ELSE "none"

(* push: a chunk of n bytes, cut anywhere. *)
ChunkArrives(n) ==
  /\ sent # NoBody /\ arrived + n <= Len(Stream)
  /\ arrived' = arrived + n
  /\ Drain(buffer \o SubSeq(Stream, arrived + 1, arrived + n), waiter)
  /\ UNCHANGED <<sent, article>>

Wait ==
  /\ sent # NoBody /\ waiter = "none" /\ Len(taken) < Len(Expected)
  /\ Drain(buffer, Expected[Len(taken) + 1])
  /\ UNCHANGED <<sent, arrived, article>>

Decode ==
  /\ Len(taken) >= 2 /\ article = Absent /\ sent.fields # Absent
  /\ article' = DecodeArticle(taken[2], sent.fields, sent.verify)
  /\ UNCHANGED <<sent, arrived, buffer, searched, waiter, taken>>

WireNext ==
  \/ ServerReplies
  \/ sent # NoBody /\ \E n \in 1 .. Len(Stream) - arrived : ChunkArrives(n)
  \/ Wait \/ Decode

WireSpec == WireInit /\ [][WireNext]_wireVars

-----------------------------------------------------------------------------
(* However the stream is cut, the client is given the lines and the block   *)
(* that were sent, in order, and once everything has arrived nothing is     *)
(* held back: a terminator that straddles chunks is found, a dot inside a   *)
(* body never ends it (response-buffer.ts:68-102).                          *)
RepliesAsSent ==
  sent # NoBody =>
    /\ IsPrefix(taken, <<<<Status>>, sent.body, <<Status>>>>)
    /\ arrived = Len(Stream) => waiter = "none"
    /\ arrived = Len(Stream) /\ Len(taken) = 3 => buffer = <<>>

(* An article that decodes is the part that was posted, bytes and place;    *)
(* one that was spoilt on the way is never returned as verified, and a      *)
(* checksum that does not cover the part condemns no sound article          *)
(* (decode-article.ts:49-66, 166-184).                                      *)
DecodedAsPosted ==
  article # Absent =>
    LET p == sent.post IN
    /\ article # Failed /\ article.matches = TRUE => article.data = p.data
    /\ ~sent.spoilt =>
         /\ article # Failed
         /\ article.data = p.data
         /\ article.part = p.part
         /\ article.sizeMatches /\ article.matches # FALSE
=============================================================================
