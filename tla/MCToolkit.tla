------------------------------ MODULE MCToolkit ------------------------------
(***************************************************************************)
(* Six parts that share no state with each other, checked in one run: a    *)
(* behaviour starts one of them and stays with it.  Nothing is assumed     *)
(* about scheduling, so this is their safety only.                         *)
(***************************************************************************)
EXTENDS ResponseBuffer, Par2, NzbParser, Credentials, NzbCli, BootstrapPackage, TLC

Init == WireInit /\ Par2Init /\ ParserInit /\ CredentialsInit /\ CliInit /\ BootstrapInit

WireIdle == sent = NoBody
Par2Idle == step = "idle"
ParserIdle == document = NoDocument
CredentialsIdle == ttl = -1
CliIdle == stage = "idle"
BootstrapIdle == runs = 0

Next ==
  \/ /\ Par2Idle /\ ParserIdle /\ CredentialsIdle /\ CliIdle /\ BootstrapIdle
     /\ WireNext
     /\ UNCHANGED <<par2Vars, parserVars, credentialVars, cliVars, bootstrapVars>>
  \/ /\ WireIdle /\ ParserIdle /\ CredentialsIdle /\ CliIdle /\ BootstrapIdle
     /\ Par2Next
     /\ UNCHANGED <<wireVars, parserVars, credentialVars, cliVars, bootstrapVars>>
  \/ /\ WireIdle /\ Par2Idle /\ CredentialsIdle /\ CliIdle /\ BootstrapIdle
     /\ ParserNext
     /\ UNCHANGED <<wireVars, par2Vars, credentialVars, cliVars, bootstrapVars>>
  \/ /\ WireIdle /\ Par2Idle /\ ParserIdle /\ CliIdle /\ BootstrapIdle
     /\ CredentialsNext
     /\ UNCHANGED <<wireVars, par2Vars, parserVars, cliVars, bootstrapVars>>
  \/ /\ WireIdle /\ Par2Idle /\ ParserIdle /\ CredentialsIdle /\ BootstrapIdle
     /\ CliNext
     /\ UNCHANGED <<wireVars, par2Vars, parserVars, credentialVars, bootstrapVars>>
  \/ /\ WireIdle /\ Par2Idle /\ ParserIdle /\ CredentialsIdle /\ CliIdle
     /\ BootstrapNext
     /\ UNCHANGED <<wireVars, par2Vars, parserVars, credentialVars, cliVars>>

toolkitVars == <<wireVars, par2Vars, parserVars, credentialVars, cliVars, bootstrapVars>>
Spec == Init /\ [][Next]_toolkitVars

-----------------------------------------------------------------------------
(* Replies: short blocks of dots and line breaks, and the articles of a    *)
(* poster who escapes what must be escaped, with every sort of checksum,   *)
(* whole or with a byte gone or a field spoilt.                            *)

PlainBodies ==
  {[body |-> b, fields |-> Absent, verify |-> FALSE, post |-> Absent, spoilt |-> FALSE] :
     b \in {<<>>} \cup {s \o CRLF : s \in BoundedSeq({Dot, CR, LF, 120}, 3)}}

(* A dot at the start of a line is escaped only by some posters. *)
EncodeByte(d, first, dots) ==
  LET c == (d + 42) % 256 IN
  IF c \in {0, CR, LF, Escape} \/ (dots /\ first /\ c = Dot) THEN <<Escape, (c + 64) % 256>>
  ELSE <<c>>

Encode(data, width, dots) ==
  [i \in DOMAIN data |->
     EncodeByte(data[i], i % width = 1 % width, dots)
       \o (IF i % width = 0 \/ i = Len(data) THEN CRLF ELSE <<>>)]

Posted(preamble, data, place, codes, c) ==
  [body |-> Written(preamble, place, codes), verify |-> TRUE, spoilt |-> FALSE,
   post |-> [data |-> data, part |-> place, preamble |-> preamble, codes |-> codes],
   fields |-> [name |-> 1, size |-> 9, total |-> Absent, trailerSize |-> Len(data),
               begin |-> 3, end |-> 2 + Len(data), crc32 |-> c[1], pcrc32 |-> c[2]]]

Part(data, width, dots, c) ==
  Posted(<<>>, data, <<2, 2 + Len(data)>>, Encode(data, width, dots), c)
Single(data, width, dots, c) ==
  Posted(<<120>> \o CRLF, data, Absent, Encode(data, width, dots), c)

(* <<crc32, pcrc32>>: of a part, the former is that of the whole file. *)
PartSums(data) == {Absent, data \o <<0>>} \X {data, Absent, Malformed}
SingleSums(data) == {<<data, Absent>>, <<Absent, data>>, <<Malformed, Absent>>}

SoundArticles ==
  UNION {{Part(d, w, dots, c) : w \in 1 .. 2, dots \in BOOLEAN, c \in PartSums(d)} \cup
         {Single(d, w, dots, c) : w \in 1 .. 2, dots \in BOOLEAN, c \in SingleSums(d)} :
            d \in BoundedSeq({4, 224, 19}, 2) \ {<<>>}}

Spoil(s) ==
  {[s EXCEPT !.body = RemoveAt(@, i), !.spoilt = TRUE, !.verify = v] :
     i \in 1 .. Len(s.body) - 2, v \in BOOLEAN}
  \cup {[s EXCEPT !.fields[k] = x, !.spoilt = TRUE] :
          k \in {"begin", "trailerSize", "name"}, x \in {Malformed, Absent}}
  \cup {[s EXCEPT !.fields.end = 2, !.spoilt = TRUE]}

MCBodies ==
  PlainBodies \cup SoundArticles
    \cup UNION {Spoil(Part(<<4, 224>>, 1, FALSE, c)) : c \in PartSums(<<4, 224>>)}
    \cup UNION {Spoil(Single(<<19, 4>>, 2, FALSE, c)) : c \in SingleSums(<<19, 4>>)}

-----------------------------------------------------------------------------
(* PAR2: an index and a volume of the same set beside packets of another,  *)
(* each volume whole, lost, or with one packet damaged in its body, its    *)
(* identity or its length; and small files, as posted or not.              *)

Byte(n) == [byte |-> n]
Pad(s) == s \o [i \in 1 .. 2 - Len(s) |-> 0]
SlicesOf(c) ==
  IF c = <<>> THEN <<Pad(<<>>)>>
  ELSE [k \in 1 .. (Len(c) + 1) \div 2 |->
          Pad(SubSeq(c, 2 * k - 1, IF 2 * k < Len(c) THEN 2 * k ELSE Len(c)))]

Packet(type, s, body) == [type |-> type, set |-> s, body |-> body]
Main(s, ids) == Packet("main", s, [sliceSize |-> 2, ids |-> ids, id |-> "none"])
Description(s, id, c) == Packet("description", s, [id |-> id, content |-> c])
SlicePacket(s, id, c) == Packet("slices", s, [id |-> id, slices |-> SlicesOf(c)])

Cells(p) ==
  LET body == [i \in 1 .. (IF p.type = "main" THEN 1 ELSE 2) |-> Byte(i)]
  IN <<[length |-> Len(body) + 1, packet |-> p, sum |-> <<p, body>>]>> \o body

Headers(cells) == SetToSortSeq({i \in DOMAIN cells : IsHeader(cells[i])}, <)

Volume(ps) ==
  LET cells == <<Byte(9)>> \o FlattenSeq([i \in DOMAIN ps |-> Cells(ps[i])])
  IN [lost |-> FALSE, survivors |-> ps, cells |-> cells, starts |-> Headers(cells)]

Damages(v, k) ==
  LET h == v.starts[k] IN
  {[v EXCEPT !.survivors = RemoveAt(@, k), !.cells = d, !.starts = RemoveAt(Headers(d), k)] :
     d \in {[v.cells EXCEPT ![h + 1] = Byte(7)], [v.cells EXCEPT ![h].packet.set = "other"],
            RemoveAt(v.cells, h + 1)} \cup
        {[v.cells EXCEPT ![h].length = n] : n \in {0, 1, v.cells[h].length + 1, 6, 9}}}
Hurt(v) == UNION {Damages(v, k) : k \in 1 .. Len(v.survivors)}
Lost(v) == [v EXCEPT !.lost = TRUE]

A == <<1, 0, 1>>
B == <<1>>
Set == <<Main("S", <<"a", "b">>), Description("S", "a", A), SlicePacket("S", "a", A),
         Description("S", "b", B)>>
Index == Volume(Set)
Other == Volume(<<Description("T", "a", B)>> \o Set \o <<Packet("recovery", "S", Unreadable)>>)
NoMain == Volume(<<Description("S", "b", B), Packet("main", "S", Unreadable)>>)

Files2(c, d) == [a |-> c, b |-> d]
SetReleases ==
  {[volumes |-> <<v, w>>, posted |-> Files2(A, B), disk |-> Files2(A, Unreadable)] :
     v \in {Index, Lost(Index), NoMain} \cup Hurt(Index), w \in {Lost(Index), Other} \cup Hurt(Other)}
FileReleases ==
  {[volumes |-> <<Volume(<<Main("S", <<"a">>), Description("S", "a", c)>> \o more)>>,
    posted |-> Files2(c, c), disk |-> Files2(d, d)] :
     more \in {<<>>}, c \in BoundedSeq({0, 1}, 3), d \in BoundedSeq({0, 1}, 4)}
  \cup
  {[volumes |-> <<Volume(<<Main("S", <<"a">>), Description("S", "a", c), SlicePacket("S", "a", c)>>)>>,
    posted |-> Files2(c, c), disk |-> Files2(d, d)] :
     c \in BoundedSeq({0, 1}, 3), d \in BoundedSeq({0, 1}, 4)}
MCReleases == SetReleases \cup FileReleases

-----------------------------------------------------------------------------
(* NZB: two documents, each with an item removed, added or exchanged with  *)
(* its neighbour, or with an element wrapped round any of its items.       *)

CONSTANTS w1, w2

Tag(name, attributes) ==
  [kind |-> "start", name |-> name, attributes |-> attributes, twice |-> FALSE, selfClosing |-> FALSE]
EndTag(name) == [kind |-> "end", name |-> name]
Chars(v) == [kind |-> "text", value |-> v]
CData(v) == [kind |-> "cdata", value |-> v]
FileTag == Tag("file", [subject |-> w1, date |-> 5])
Segment(n) == Tag("segment", [number |-> n, bytes |-> 10 * n])
Plain(name) == Tag(name, <<>>)
Meta == Tag("meta", [type |-> w1])

One ==
  <<Plain("nzb"), Meta, Chars(<<w1>>), EndTag("meta"), FileTag,
    Plain("group"), Chars(<<Space, w1>>), EndTag("group"), Plain("segments"),
    Segment(2), Chars(<<RefLt, w2, RefGt>>), EndTag("segment"),
    Segment(1), Chars(<<w1, Space>>), EndTag("segment"),
    EndTag("segments"), EndTag("file"), EndTag("nzb")>>
Two ==
  <<Plain("nzb"), FileTag, Segment(1), CData(<<w1>>), EndTag("segment"), EndTag("file"),
    FileTag, Segment(1), Chars(<<w2>>), Chars(<<w1>>), EndTag("segment"),
    Segment(3), Chars(<<w1>>), EndTag("segment"), EndTag("file"), EndTag("nzb")>>

Inserted ==
  {FileTag, Segment(1), Plain("nzb"), Plain("group"), Plain("b"), Meta,
   EndTag("file"), EndTag("segment"), EndTag("nzb"), EndTag("group"), EndTag("meta"), EndTag("b"),
   Chars(<<w2>>), Chars(<<RefOther>>), Chars(<<Space>>), CData(<<RefLt>>),
   [kind |-> "comment"], [kind |-> "broken"], [FileTag EXCEPT !.twice = TRUE],
   [Segment(2) EXCEPT !.attributes["bytes"] = w1], Tag("file", [subject |-> w1]), Tag("meta", <<>>)}
  \cup {[t EXCEPT !.selfClosing = TRUE] : t \in {FileTag, Segment(1), Meta, Plain("group"), Plain("b")}}

Wrapped(d, i, j, tag) == InsertAt(InsertAt(d, j, EndTag(tag.name)), i, tag)

Edits(d) ==
  {RemoveAt(d, i) : i \in DOMAIN d}
  \cup {InsertAt(d, i, e) : i \in 1 .. Len(d) + 1, e \in Inserted}
  \cup {[d EXCEPT ![i] = d[i + 1], ![i + 1] = d[i]] : i \in 1 .. Len(d) - 1}
  \cup {Wrapped(d, p[1], p[2], tag) :
          p \in {q \in (2 .. Len(d)) \X (2 .. Len(d)) : q[1] <= q[2]},
          tag \in {FileTag, Segment(3), Plain("group")}}

(* A group in a group, which ends before the one it is in. *)
Three == InsertAt(Wrapped(One, 6, 9, Plain("group")), 10, Chars(<<w2>>))

MCDocuments == {One, Two, Three} \cup Edits(One) \cup Edits(Two)

-----------------------------------------------------------------------------
(* Command lines: wherever a host and a user, or a password, may be named; *)
(* numbers in range and out of it; releases of up to two files; all the    *)
(* samples of files of up to eight articles; up to two parts to decode.    *)

MCTtls == {0, 2, Forever}
MCWithExtension == {"a.bin", "b.bin"}
MCEnvironmentVariables == {"NNTP_USERNAME", "NNTP_PASSWORD", "VAR"}

NoFlags ==
  [known |-> TRUE, message |-> FALSE, config |-> Unset, host |-> Unset, port |-> Unset,
   security |-> Unset, connections |-> Unset, user |-> "me", passEnv |-> Unset, passFile |-> Unset,
   ttl |-> Unset, all |-> FALSE, sample |-> Unset, ranges |-> 0, sparse |-> FALSE,
   include |-> Unset, dryRun |-> FALSE]
SoundFile ==
  [state |-> "sound",
   settings |-> [host |-> "news.example", port |-> Unset, connections |-> Unset, security |-> Unset,
                 user |-> Unset, password |-> Unset, ttl |-> Unset]]
AFile ==
  [header |-> "a.bin", hint |-> Unset, opens |-> "opens", outside |-> FALSE, articles |-> 1,
   breaks |-> 0, held |-> {1}]
Bare ==
  [name |-> "get", paths |-> <<"x.nzb">>, flags |-> NoFlags, file |-> SoundFile, env |-> Unset,
   secrets |-> "prompt" :> "typed", readable |-> TRUE, files |-> <<AFile>>, verdict |-> "verified"]

FileStates == {"sound", "missing", "writable"}
SecretSets ==
  {"prompt" :> "typed", "NNTP_PASSWORD" :> "mine" @@ "prompt" :> "typed",
   "VAR" :> "theirs" @@ "NNTP_PASSWORD" :> "mine", "/file" :> "kept" @@ "prompt" :> "typed",
   "NNTP_USERNAME" :> "you" @@ "NNTP_PASSWORD" :> "mine", "other" :> "secret"}
Passwords ==
  {[Bare EXCEPT !.flags.passEnv = v, !.flags.passFile = f, !.flags.config = c, !.secrets = s,
                !.file.state = t, !.file.settings.password = p] :
     v \in {Unset, "VAR"}, f \in {Unset, "/file"}, c \in {Unset, "mine.json"}, s \in SecretSets,
     t \in FileStates, p \in {Unset, Bad, "/file"}}
Accounts ==
  {[Bare EXCEPT !.flags.host = h, !.flags.user = u, !.flags.config = c, !.secrets = s,
                !.file.state = t, !.file.settings.host = k, !.file.settings.user = w] :
     h \in {Unset, "other.example"}, u \in {Unset, "me"}, c \in {Unset, "mine.json"},
     s \in SecretSets, t \in FileStates, k \in {Unset, "news.example"}, w \in {Unset, "them"}}

Numbered ==
  {[Bare EXCEPT !.flags.connections = c, !.env = e, !.file.settings.connections = k] :
     c \in {Unset, Bad, 0, 2}, e \in {Unset, Bad, 0, 3}, k \in {Unset, 0, 5}}
  \cup {[Bare EXCEPT !.file.settings.port = k, !.flags.port = p] :
          p \in {Unset, 119}, k \in {0, 119, 65536, Bad}}

Kinds ==
  {k \in [header : {"a.bin", "x7"}, hint : {Unset, "b.bin"}, opens : {"opens"}, outside : BOOLEAN,
          articles : {1, 2}, breaks : {0, 2}, held : {{}}] :
     k.breaks <= k.articles /\ (k.outside => k.articles = 1)}
  \cup {[AFile EXCEPT !.opens = o] : o \in {"gone", "refused"}}
Gets ==
  {[Bare EXCEPT !.files = fs, !.flags.include = i, !.flags.dryRun = d] :
     fs \in BoundedSeq(Kinds, 2), i \in {Unset, {"a.bin"}}, d \in BOOLEAN}

Stats ==
  {[Bare EXCEPT !.name = "stat", !.flags.all = a, !.flags.sample = s, !.files = <<f, g>>] :
     a \in BOOLEAN, s \in {Unset, Bad, 0, 1, 2, 3, 5, 8, 9},
     f \in {[AFile EXCEPT !.articles = n, !.held = (1 .. n) \ gone] :
              n \in {1, 2, 3, 5, 8}, gone \in {{}, {1}, {4}}},
     g \in {[AFile EXCEPT !.opens = o] : o \in {"opens", "refused"}}}
  \cup {[Bare EXCEPT !.name = "stat", !.secrets = "other" :> "secret"]}

(* Secrets kept, or asked for again after a while, from sources that stay   *)
(* and sources that may fall silent.                                        *)
ExpiringSecrets ==
  {"/file" :> "kept" @@ "prompt" :> "typed", "NNTP_PASSWORD" :> "mine" @@ "prompt" :> "typed",
   "/run/secret/nntp_password" :> "kept" @@ "prompt" :> "typed"}
Expiring ==
  {[Bare EXCEPT !.flags.ttl = t, !.file.settings.ttl = k, !.flags.passFile = p, !.flags.sparse = z,
                !.flags.include = i, !.secrets = s, !.files = fs] :
     t \in {Unset, 1}, k \in {Unset, 2}, p \in {Unset, "/file"}, z \in BOOLEAN,
     i \in {Unset, {"a.bin"}}, s \in ExpiringSecrets,
     fs \in {<<[AFile EXCEPT !.articles = n, !.breaks = b], [AFile EXCEPT !.header = "x7", !.hint = h]>> :
               n \in 2 .. 3, b \in {0, 2}, h \in {"a.bin", "b.bin"}}}
  \cup {[Bare EXCEPT !.name = n, !.flags.ttl = t, !.flags.passFile = "/file", !.secrets = s,
                     !.files = <<[AFile EXCEPT !.articles = 4, !.held = 1 .. 4], AFile>>] :
          n \in {"stat", "verify"}, t \in {Unset, 0}, s \in ExpiringSecrets}

Decodes ==
  {[Bare EXCEPT !.name = "decode", !.paths = ps] :
     ps \in BoundedSeq([state : {"sound", "unreadable", "undecodable"}, name : {"a", "b"},
                        begin : {0, 4}], 2)}

Usages ==
  {[Bare EXCEPT !.name = n, !.paths = p, !.readable = r] :
     n \in {"get", "stat", "verify", "inspect", "completion", Bad},
     p \in {<<>>, <<"x.nzb">>, <<Bad>>, <<"x.nzb", "y">>}, r \in BOOLEAN}
  \cup {[Bare EXCEPT !.flags.known = k, !.flags.message = m, !.flags.ranges = r, !.flags.sparse = s,
                     !.flags.security = y] :
          k, m, s \in BOOLEAN, r \in {0, 1, 2, Bad}, y \in {Unset, Bad, "none"}}
  \cup {[Bare EXCEPT !.file.state = "unreadable"]}
  \cup {[Bare EXCEPT !.name = "verify", !.verdict = v] : v \in {"verified", "damaged", "refused"}}

MCInvocations ==
  Passwords \cup Accounts \cup Numbered \cup Gets \cup Stats \cup Expiring \cup Decodes \cup Usages
=============================================================================
