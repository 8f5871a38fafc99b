# nzb-utils, specified in TLA+

nzb-utils downloads files from Usenet. An NZB lists the articles of each file;
`@chad3814/nntp` fetches articles over a pool of connections to one or several
servers, `@chad3814/yenc` decodes them, `@chad3814/nzb` presents a file made of
them, and `nzb-cli` drives it all. This directory models the parts of it that
are hard to test and checks them with TLC. With TLAPS it proves every safety
property it checks but two, for every size: of the pool and its contract, the
multi-server pool, the client and its replies, yEnc articles, the reader of
articles, the file handle, PAR2, the credential cache, the command line and the
release script. `PROJECT.json` lists the runs, the mutants that show each
property can fail, the theorems, the source lines behind every definition, the
hazards and the findings.

## The system

```
nzb-cli  get / stat / verify
   |  openNzbFile, writeTo, bytes          parsePar2, Par2FileVerifier
nzb      Handle -> resolveRange -> prefetch | asCompleted -> fetchArticle -> writeParts
   |  ArticleSource.body(id, {exclude})    decodeArticle (yenc)
nntp     NntpMultiPool -> NntpPool (one per server) -> NntpClient -> socket
```

| part | state it keeps | operations | what is hard | what makes it correct |
|---|---|---|---|---|
| `nntp/pool.ts` | idle connections, waiting callers, count of open ones, the learned limit, `destroyed`, failure records | body/head/article/stat, destroy; internally acquire, release, discard, replaceFor | every `await` lets other calls, releases, refusals and `destroy()` in | no connection shared or miscounted, limit respected, nobody waits for ever |
| `nntp/multi-pool.ts`, `multi-pool-failure.ts` | per server: down and why, strikes; a fatal error; per walk: attempts, overflow | the same calls over an ordered list of servers, destroy | walks interleave and share the servers' health | order and opt-in of overflow, honest verdicts, downing on evidence only |
| `nntp/client.ts`, `auth.ts`, `response-buffer.ts`, `socket.ts` | socket, one waiter, the lock chain, the failure, buffered bytes | connect, authenticate, commands, quit, destroy; data, close, error, timer | replies have no request id: only order ties them to commands | one command at a time, replies to their own command, every call settles |
| `nzb/fetch.ts` | servers tried, the mismatch | fetchArticle | retry without a counter | ends, and reports the mismatch |
| `nzb/prefetch.ts`, `write.ts`, `mutex.ts` | the window; the pending write; the queue's tail | generators, writeParts, Mutex.run | promises settle in any order, consumers are slow, fail or leave | bounded memory, order, completeness, a sink entered once at a time |
| `nzb/handle.ts`, `range.ts`, `geometry.ts` | the window of a handle; the layout predicted from article 1 | slice, bytes, stream, writeTo | boundaries, short last articles, non-uniform posts | the bytes asked for, or a refusal |
| `nntp/auth.ts` | the cached value and its time, a lookup under way | memoizeCredentials, runAuthInfo | slow sources, logins at once, expiry | no stale secret, no needless trip |
| `yenc` | none | decodeArticle, decodeBytes | escapes, trailers, sizes, two checksums | what was posted, or an error |
| `par2` | slice buffer, offsets, digests | scanPackets, parsePar2, update, finish | damaged volumes; chunks against slices, zero padding | every surviving packet; a verdict that does not depend on chunking |
| `nzb-parser` | the element stack, the open file, segment and meta, the text | parseNzb | malformed input | records that mirror the document |
| `nzb-cli` | settings, sinks, windows, the report | get, stat, verify, inspect, decode | precedence of settings, several files, partial failure | the named account, bytes at their offsets, honest exit statuses |
| `scripts/bootstrap-package.mjs` | the registry's, from outside | publish, deprecate, drop the tag | every call may fail, the registry lags | success only when all is deprecated |
| other scripts, completion, help | none | - | - | - |

Interactions. A client belongs to one pool. `NntpMultiPool` calls each server's
`NntpPool` and looks at nothing but its answer; `NntpPool` and `NntpMultiPool`
both serve as the `ArticleSource` of `nzb`, the first ignoring `exclude`. A
`Handle` shares one context among its slices. Everything runs on one JavaScript
thread: code between two awaits is atomic, and everything else interleaves.
That is the granularity of all the modules: **one step is what runs between two
awaits**, with every synchronous call it makes.

## Modules

| module | models | is checked by |
|---|---|---|
| `NntpPool` | `pool.ts`, whole | `pool`, `pool_destroy` |
| `PoolContract` | what a pool promises, without connections | `NntpPool!ContractSpec` in `pool` |
| `NntpPool_proofs` | the pool's inductive invariant and theorems; that it implements `PoolContract`; that the provider's cap is learned and costs no call | TLAPS |
| `ProviderCap` | `NntpPool` against a provider with a session cap | `provider_cap`, `provider_churn` |
| `NntpMultiPool` | `multi-pool.ts`, `multi-pool-failure.ts` | `multi_pool`, `multi_fatal`, `multi_missing` |
| `NntpMultiPool_proofs` | the inductive invariant of the walks and theorems | TLAPS |
| `NntpClient` | `client.ts`, the exchange of `auth.ts` | `client`, `client_shared` |
| `NntpClient_proofs` | the lock and the replies, for any number of calls | TLAPS |
| `ArticleRead` | `fetch.ts`, `prefetch.ts`, `write.ts`, `mutex.ts` | `read` |
| `ArticleRead_proofs` | the window, the order and the sink, for any length and depth | TLAPS |
| `FileRange` | `range.ts`, `geometry.ts`, as operators | `files` |
| `FileHandle` | `handle.ts`, and one file of `nzb get` (`get.ts`, `sink.ts`) | `files` |
| `FileHandle_proofs` | the arithmetic of ranges, that reads are exact, and the number announced | TLAPS |
| `ResponseBuffer` | `response-buffer.ts`, with `client.ts`'s `#wait` and `#drain` | `toolkit` |
| `Yenc` | `decode-bytes.ts`, `decode-article.ts`, as operators | `toolkit` |
| `Par2` | `packets.ts`, `parse.ts`, `verify.ts` and `commands/verify.ts` | `toolkit` |
| `NzbParser` | `nzb-parser`'s `parse.ts`, `scanner.ts`, `entities.ts` | `toolkit` |
| `Credentials` | `auth.ts`: the cache and the logins that use it | `toolkit` |
| `NzbCli` | `run.ts`, `parse-args.ts`, `config.ts`, `credentials.ts`, and the commands | `toolkit` |
| `BootstrapPackage` | `bootstrap-package.mjs --publish` against a registry | `toolkit` |
| `Toolkit_proofs` | theorems about `Credentials`, `BootstrapPackage`, `ResponseBuffer` and `Yenc` | TLAPS |
| `Formats_proofs` | that the packets found are the survivors, the verdicts true, and documents read as written | TLAPS |
| `NzbCli_proofs` | where a secret goes, and what an exit status says | TLAPS |
| `MC...` | the instances for TLC; `MCToolkit` joins the six of `toolkit` | |

Operators named `Bug...` are not part of any specification. Each stands just
before the definition it distorts, and PROJECT.json names the property that
must fail when it takes that definition's place.

### NntpPool

`pc` says where a request is: `opening` (in `#acquire`, awaiting
`#openConnection`), `parked` (its waiter in `#waiting`), `replacing` (its waiter
held by `#replaceFor`), `holding` (its command running), then `done` or
`failed`. `open`, `limit`, `idle`, `waiting`, `destroyed` are the fields of the
same names. The actions are the entry of a call (`CallOpens`, `CallWaits`,
`CallAfterDestroy`), the settling of an open (`AcquireOpened`, `AcquireShrinks`,
`AcquireFails`, `ReplaceOpened`, `ReplaceFails` with its four outcomes
`ReplaceTakesIdle`, `ReplaceGivesUp`, `ReplaceRequeues` and the rejection of
all), of a command (`CommandSucceeds` with `#release`, `CommandFails` with
`#discard`), and `Destroy`. `#idle` is a stack in the code and a set here: which
idle client is popped makes no difference to anyone. The records of `failures()`
are reduced to the kinds of error seen.

`PoolContract` is the abstraction `NntpMultiPool` relies on: a caller waits, is
admitted while there is room, leaves exactly once; refusals of parked callers,
or for capacity, happen only while nobody is served; permits shrink and never
vanish. The refinement maps opening, parked and replacing to waiting.

### ProviderCap

Composes `NntpPool` with the one thing outside the repository whose timing
matters: the provider decides a login when it arrives, counts sessions whose
connection it has not yet noticed to be closed, and its answer travels back.
`SteadySpec` has no failing command; `ChurnSpec` has.

### NntpMultiPool

A walk asks servers in order. `Begin` is the start of `#run`; `Answered` and
`Refused` are an answer with everything that follows it without an await: the
ruling of `rule` (`Gap`, `AtCapacity`, `PrimaryAuth`, `BackupAuth`, `Fault`), the
search for the next candidate, and the verdict when there is none. A server's
pool is reduced to what `PoolContract` says of it: it answers once, with any
answer. `DownAfter` stands for `DOWN_AFTER`. `statAll` and `serverStates` change
nothing and are left out.

### NntpClient

Lines carry the number of the command they answer, which the client cannot see;
`heard` records whose lines each call was given. `order` is the `#lock` chain,
`waiter` is `#waiter`, `wire` what the server has sent or will send in answer to
what was written, `buffer` the lines that arrived. A client is either *pooled*
(logged in, one command at a time, none after a failure: `NntpPool`'s
discipline) or *shared*. `Eager` says whether a sharer may call while `connect()`
still awaits the greeting (`client`); without it calls begin after the greeting
(`client_shared`). Left out: connecting one client twice (in the code the
old socket's `close` event would then fail the new connection), `destroy()` and
`quit()` while `connect()` is opening or upgrading, lines the server sends
unasked, and the bytes of a line or block.

### ArticleRead

A range of `K` articles read with `prefetch` (`bytes`, `stream`) or with
`asCompleted` and `writeParts` (`writeTo`), from a source that excludes
(`several`), ignores exclusions (`single`) or does not say who answered
(`unnamed`). `gen` is the generator, `user` its consumer, `task` the writes
queued on the mutex. I/O settles only when no continuation is ready, so a
resumed generator runs before the next result arrives. `BodyFails`,
`BodyDecodes`, `BodyCorrupt` are the outcomes of one attempt of `fetchArticle`
with the placement check of `#articleFor`; article 1 is the one the probe kept.

### FileRange, FileHandle

`FileRange` is arithmetic: what article 1 predicts (`Predict`), whether an
article is where it was predicted (`VerifyPlacement`), `slice()`'s arguments
(`NormalizeSlice`) and the segments of a range (`Segments`). `FileHandle` opens a
post, slices the handle, and reads it with `bytes()` or `writeTo()`; or it is
one file of `nzb get`, with its windows (`Windows`: those of its ranges that are
not empty; `todo` holds the ones not yet written) and the shift of its sink. A
byte is its true offset in the file, as the article's own header states it, so
that handing over a wrong one shows. Fetches overlap in `ArticleRead`; here an
article arrives when it is needed, in file order for `bytes()` and in any order
for `writeTo()`.

### ResponseBuffer, Yenc

The server's bytes arrive in chunks of any length (`ChunkArrives`), the client
waits for a line, a block and a line (`Wait`), and `Drain` is what `#drain` does
with the buffer at either moment. `buffer` and `searched` are `#buffer` and
`#searched`; an index `i` of the code is `i + 1` here. The block is then decoded
(`Decode`) by `Yenc`. A byte is its number, so that escapes, dots and line
breaks meet as they do on the wire; a control line is one element where it
stands, and its fields are kept beside it, each a number, absent or malformed.
The CRC-32 of some bytes is those bytes: only the choice of which one to
compare, and with what, is in question. The lines of a text are the set of
positions where one starts. What a poster may write is no code of this
repository and is marked external: each byte as itself shifted or, always where
it would be a NUL, a CR, an LF or the escape, as an escape and its code
(`Codes`), between control lines (`Written`). `ArticlesAssumption` says what a
member of `Bodies` records of how it was made.

### Par2

`nzb verify` from the first candidate to the verdict: `FetchVolume` takes the
next one, `Scan` is one turn of `scanPackets`, `Parse` is `parsePar2` over all
volumes read so far, `CheckNext` takes a file, `Update` and `Copy` are a chunk
and one turn of the loop that cuts it into slices, `Finish` the rest. A volume
is a sequence of cells, a header or a byte of a body; a hash is what it covers.
The set's fields are read from the header cell, the cells after it are only what
the hash covers. `md5`, `length` and the two hashes of a slice are the bytes.
`starts` and `survivors` of a volume are no part of the program: they say which
packets were left whole by the damage, and where, for the properties to compare
with.

### NzbParser

`nzb` is `ParserState`, field by field; each action takes one item of the
scanner and does what `consume` does with it, errors included. Markup the
scanner refuses for its own reasons is one kind of item (`broken`), attributes
are a record of integers and other text. `null` is the record without fields
(`None`). `poster`, `groups` of the document and the subject's hints are
conversions of one text and are left out.

`IsDocument` reads the same items as a tree: how deep each lies, where an element
ends (`ClosedAt`), which character data is its text (`TextOf`). It has none of the
parser's fields, so the property compares two readings of one document.

### Credentials

Logins of a pool with a literal user name and a password from a provider. A
login that needs the password takes it from the cache, joins the lookup under
way or begins one (`PasswordRequired`). `trips` and `given` are history. The
clock is `Date.now()`, in any unit. `memoize` belongs to `secret-provider`: it is
modelled as the repository's tests of it say. A user name from a provider has a
second cache of its own.

### NzbCli

`Invoke` chooses flags, environment, config file, what each secret source holds,
and what the release has; `ParseCommandLine` refuses or settles, and from there
each file of `get`, `stat` or `decode` is a step. `disk` says which parts of
which file each name holds. What the article says is left to `ArticleRead` and
`FileHandle`, so an article here is written or breaks.

Every request takes an idle connection or opens one and logs in (`LogsIn`);
`logins` is the history of that. The first login asks the sources of a secret,
and so does any later one once the secret has expired (`MayAsk`), which with a
`--credential-ttl` may be in the middle of a download. A file or a prompt may
have nothing to say at that moment (`Silences`), the environment always has what
it had. Then the source is missing: nothing that has a named source falls back
on another, and the `ProviderError` that `authenticate` lets through skips a file
at its probe, or ends the command with status 2 (`LogInFails`, `LosesLogIn`). Which
secret a source holds does not change during a run: it stands for whatever the
source holds when it is asked.

The sink cannot always be opened, nor, with `--sparse`, given its length
(`OpenSink`). An article that cannot be written is one that breaks. A user named in
the config file by reference is taken as a literal; the windows of one file are
in `FileHandle`, the order of its writes in `ArticleRead`; a failing `close()` is
left out.

### BootstrapPackage

The registry (`versions`, `visible`, `latest`, `tagged`, `deprecated`) is outside
the repository: a call may fail before or after it is carried out, `npm view` may
fail or not show yet what was accepted, and CI may publish the release at any
time after the placeholder. The script is started up to `MaxRuns` times. The dry
run writes nothing and is left out.

## Runs

| run | instance | what it shows |
|---|---|---|
| `pool` | 4 requests, 3 connections, 4 client names | connections exclusive and counted, limit respected, no lost wake-up, every call settles while the pool lives, `PoolContract` implemented |
| `pool_destroy` | 3 requests, 2 connections, 3 client names | **violated**: a caller can be parked for ever after `destroy()` |
| `provider_cap` | 4 requests, 3 connections, 4 client names, cap 2 | over-configuring costs no request and the limit stays at or above the cap |
| `provider_churn` | the same, commands may fail | **violated**: the limit can end below the cap, for good |
| `multi_pool` | 3 walks, 3 servers (3 takes overflow), exclude {} or {1}, DownAfter 2 | opt-in overflow, honest verdicts among ready servers, downing on evidence, nothing new after fatal or down |
| `multi_fatal` | the same | **violated**: a walk in progress goes on to backups after the primary's login was refused |
| `multi_missing` | the same | **violated**: "no such article on any configured server" although a server that is down was never asked |
| `client` | 3 calls | commands do not interleave, every call settles, a pooled client never hears another's reply and is clean when idle |
| `client_shared` | 3 calls, none before the greeting | **violated**: after a timeout the late reply answers the next command |
| `read` | 4 articles, window 2, 2 servers | bounded memory, serial sink, completeness, order of errors, every read ends |
| `toolkit` | described below | replies and articles as sent, surviving packets found, another volume tried when one is of no use, verdicts that are the bytes, documents parsed as written or refused, fresh secrets sent where named, exit statuses that tell the truth, success only when deprecated |
| `files` | every file of 1 to 3 articles of 1 or 2 bytes, sound, spoilt or swapped; two nested slices; every form of `--range` | bytes at their offsets or a refusal, slices that shrink, and the number of articles announced |

`toolkit` is one run over six machines that share no variable. A behaviour starts
one of them and never touches the others (`MCToolkit!Next`), so its states are
the sum of theirs and not the product; it states no fairness, since none of its
properties is about progress. It stops where a machine has finished, and so
does not check for deadlock. Of the type invariants only the pool's is a
property of a run of its own; the others are part of the inductive invariants
that are proved (`MultiTypeOK`, `ClientTypeOK`, `ReadTypeOK`, `HandleTypeOK`).

### Bounds, and why they are enough

- Pool: the code distinguishes an idle connection, a waiting caller and the last
  connection. With three connections and four callers one can be idle, opening
  and in use at once while one is parked, and two can be parked behind a
  shrunken limit. A fourth request is what lets `#replaceFor` requeue behind
  another parked caller. There is a client name more than there are connections
  (`ClientsAssumption`): the request that a dead connection failed still holds
  it when its replacement is constructed, so a pool at its full limit needs the
  extra name for `#discard` with a caller parked (`pool.ts:243-256`). `NameToSpare`
  proves that one is always free, so that names never hold up a step.
- ProviderCap: three connections over a cap of two is the smallest case with a
  refusal while others live; a second refusal shrinks further.
- Multi-pool: three servers give a primary, a backup without and one with
  overflow; three walks let two strike while one is in progress. DownAfter is 2
  where the code has 3: with three walks a server can then go down and be found
  down by the third.
- Client: a login and two commands, or three commands, is what it takes for one
  to time out and two to hear replies that are not theirs.
- Read: four articles over a window of two: the window is refilled twice, one
  article is kept and two writes can queue behind a running one.

- Files: three articles give a first, a middle and a last one. Of sizes 1 and 2,
  the last can be short, full or too long, and every boundary falls on or inside
  an article. Slices nest twice, with bounds beyond either end.

- Replies: bodies of up to three bytes out of dot, CR, LF and another, which is
  every way a terminator, a false one and a stuffed dot can meet the end of a
  chunk, cut everywhere. Articles of one or two bytes whose code is CR, a dot or
  the escape, with one or two to a line, every pair of checksums, and each with
  any byte gone or a field spoilt.
- PAR2: two volumes of a set, one behind packets of another set, either lost or
  with any one packet damaged in body, identity, or length, which then claims
  less, more, the next packet or the rest of the volume; files of up to four
  bytes in slices of two, so that every file ends before, on or after a
  boundary, against every posted file of up to three.
- NZB: two documents with every element and text the parser knows, and each
  with one item removed, inserted, exchanged or wrapped in another element; a
  third with a group inside a group.
- Credentials: three logins, lifetimes of 0, 2 or none, five ticks: a lookup can
  outlast a lifetime, be shared by two and follow an expired one.
- Command lines: every place a host, a user, a password or a connection count
  can be named, alone and against the others; one or two files that open, are
  gone, refused, break at an article or share a name; files of 1 to 8 articles
  with samples from 0 to 9; with and without a lifetime, secrets from sources
  that stay and sources that may fall silent, for two files of one name or two,
  sparse or not, and for `stat` and `verify`.
- Bootstrap: two packages and two runs: one can fail while the other succeeds,
  and a second run finds what the first left.

### Fairness, and why the code justifies it

No one is obliged to call anything, and nothing is assumed of a server's will to
answer: every reply is guarded by a timeout (`client.ts:194`), so commands settle
(`NntpPool`: `CommandSettles`; `NntpClient`: `Timeout`). The event loop runs what
is ready (`Start`, `TakeLine`, `Begin`, `Yield`, ...).

Three assumptions go beyond the code, and are its users' to keep. The TCP
connect and the TLS handshake have no deadline (`socket.ts:18-55`): `NntpPool`
assumes that they settle (`AcquireSettles`, `ReplaceSettles`), as the operating
system makes a connect do. Credential providers have none (`auth.ts:142`):
`NntpClient` assumes that they answer or fail. A sink and a source answer
(`ArticleRead`). `NntpClient` assumes nothing of `connect()` itself.

## Proofs

Each theorem holds for every value of the constants that its module's named
assumptions allow. TLC evaluates the assumptions in the runs of the modules that
state them. They are of four kinds.

- Counts are natural numbers (or, for the configured connections, any integer),
  and lists are lists (`InvocationsAssumption`; `DocumentsAssumption` for items and
  their character data, well-formed or not). There is one
  name for a client more than connections (`ClientsAssumption`).
- The names made up for "nobody", "no client", an argument left out, NaN, a
  control line and the like are no member of what they stand beside
  (`UnsetAssumption`, `ControlsAssumption`, `AbsentAssumption`).
- What the code upstream has refused already: `PostsAssumption` (`parseHeader`,
  `parsePart`, a file with no segments), `GetsAssumption` (`parseRange` gives a
  suffix range no end), `ExclusionsAssumption` and `KeptAssumption` (article 1 is
  the only one a handle keeps), `sample` in `InvocationsAssumption`
  (`integerOption`).
- What the world outside is supposed to have done. `BodiesAssumption`: a block is
  bytes and its last line has its end, as the protocol has it. `ArticlesAssumption`:
  an article that was not spoilt is as a poster writes it and its fields state
  its place, its length and the sums; of a spoilt one nothing is assumed but its
  sums, each of which is left out, malformed or right, or else is the whole
  file's, to which no piece of the body decodes. `VolumesAssumption`: what
  survived in a volume is intact and lies one packet after the other, and nothing
  else in it passes for a packet, except inside one. `SetsAssumption`: a set
  parsed of the packets that survived in some volumes, in any order, describes
  what was posted. The bytes are the checksums in these models, so the last three
  are what a checksum is trusted for, and none of them speaks of the program's
  own choices: which packets it finds, which sum it compares and with what.

The theorems about the machines of `toolkit` are about each one by itself
(`WireSpec`, `Par2Spec`, `ParserSpec`, `CredentialsSpec`, `CliSpec`,
`BootstrapSpec`), which is how that run runs it.

Every proof has the same shape: an inductive invariant, a lemma per action that
keeps it, lemmas on the operators those share, one temporal step, and then each
property from the invariant.

| module | for every | theorems | run |
|---|---|---|---|
| `NntpPool_proofs` | set of requests and clients, configured connections, cap | `TypeCorrect`, `NameToSpare`, `CapRespected`, `ConnectionsExclusive`, `OpenIsTheCount`, `QueueHoldsTheParked`, `NobodyWaitsBesideIdle`, `NoLostWakeUp`; of steps `LimitLearnedDown`, `FailsOnlyWithNothingLive`; the refinement `PoolKeepsContract`; under a provider `LimitStaysAtCap`, `CapFailsNobody` | `pool`, `provider_cap` |
| `NntpMultiPool_proofs` | list of servers, overflow servers, walks, DownAfter | `OverflowOnlyWhereAllowed`, `MissingOnlyAfterAll`, `BlameIsTheFirst`, `RotationIsLostOnEvidence`; of steps `NothingNewWhenOver` | `multi_pool` |
| `NntpClient_proofs` | number of calls, pooled or shared, eager or not | `CommandsAreSerialized`, `PooledReadsItsOwn`, `IdleConnectionIsClean` | `client` |
| `ArticleRead_proofs` | number of articles, depth, servers, kind of source | `MemoryStaysBounded`, `SinkTakesOneAtATime`, `SuccessIsComplete`, `FailureIsInFileOrder`, `MismatchIsNotErased` | `read` |
| `FileHandle_proofs` | posts, arguments of `slice()`, ranges | `ReadsAreExact`, `SlicesAreLocal`, `AnnouncedIsTrue` | `files` |
| `NzbCli_proofs` | flags, config, sources; number of files, articles, paths | `SecretStaysWithItsOwner`, `ExitIsTrue` | `toolkit` |
| `Toolkit_proofs` | logins, lifetimes, bound on the clock; packages and runs; bodies, articles and ways to cut the stream | `SecretAlwaysFresh`; `SuccessIsTrue`; `RepliesAreAsSent`, `DecodesAsPosted` | `toolkit` |
| `Formats_proofs` | volumes, damage, files, slice sizes, chunks; documents | `SurvivorsAreAllFound`, `VerdictIsTrue`; `ReadAsWritten` | `toolkit` |

`LimitLearnedDown` is proved and not run: the runs keep one property for each
question, and `LimitStaysAtCap` asks more.

No proof uses induction over data as such, since the library's induction
theorems cannot be instantiated here. Where one is needed (what a flattened
sequence holds, what a decoder has put out after `k` bytes, what a sum over a
set of ranges is) the set of numbers for which the claim fails is taken: were it
not empty, it would have a least member (`WFMin`, `NatLessThanWellFounded`), and
the member before it gives the contradiction. That a recursive function is what
its equation says is proved by exhibiting one that satisfies the equation.

### The pool

No part of `PoolInv` is inductive alone. That `#open` counts the
live connections (`OpenCountsLive`) needs that each is owned once
(`OneOwnerPerClient`), or one discard would remove two. That the limit is at
least 1 when it shrinks to `#open` needs the count to be right. That live
connections stay within the limit even after `destroy()` zeroed the count needs
`DestroyedCountsDown` (it only goes down from there). That a shift or unshift keeps the queue
without repetition needs that it holds exactly the parked (`QueueIsParked`), and
that a parked caller will be woken (`ParkedWillBeWoken`) needs that nobody is
parked beside an idle connection, since a command may end with the queue empty
and leave its connection idle. Lemmas on queues (`PushFacts`, `ShiftFacts`,
`UnshiftFacts`) and on the set of live connections (`LiveFacts`, `DropFacts`,
`OneLessCounts`) carry each of the actions, one lemma per action that also says
what happens to `Live`, and `NextPoolInv` joins them.

`PoolKeepsContract` maps each step of the pool to one of `PoolContract`'s or to
a stutter, under `PoolInv`: the phases of the contract are those of the calls,
and its count of holders never exceeds the connections because each holder has
one of its own.

### The provider's cap

`SteadyInv` adds the provider to `PoolInv`: while no connection is lost, what it
has accepted and what it is refusing are disjoint sets of live connections, and
it refuses only beside `Cap` others. So a refusal finds `#open` above the cap
(`RefusedIsBeyondCap`), and learning `#open - 1` leaves the limit no lower; and
the refused caller is parked again and not failed, since others live. Where
connections may be lost (`provider_churn`) the property is false, and that run
shows how.

### The multi-server pool

A walk's verdict depends on servers that other walks take down meanwhile. The
invariant (`MultiInv`) says of each walk, at the position it has come to, that
its attempts are in list order, that it has passed nobody over who was up, not
excluded and allowed (`Covered`: servers only ever go down, so this keeps),
and that `requireSpillover` and `firstCapacity` sum its attempts up. Of each
server it says that its strikes are at most as many as the walks that recorded a
fault there (`StrikesEarned`).

### The client

`Core` is the lock: the chain holds the calls under way, each once, all but the
first still queued, and `#waiter` belongs to the one that awaits a reply. It
holds shared or pooled, and gives `CommandsAreSerialized`. `PooledUse` is about
replies, and holds only as the pool uses a client: until something fails, what
is buffered followed by what is under way is exactly what the waiting command
has yet to hear (`OwnReply`), and after a failure nobody waits. Used otherwise it
is false (`client_shared`).

### The read

`ReadInv` relates four histories: articles started (`WindowOK`: each is in the
window or was handed over, once), settled (`StatusOK`), handed over (`OrderedOK`:
in file order for `prefetch`) and written (`SinkOK`: writes start in the order
they were queued, and all but the last two are over). Two things keep the sink
serial: a write starts only when the one before it is over, and `writeParts`
awaits the pending one before it queues another, so that a failed write is
noticed before a third is queued. Memory is then the window, the article in the
consumer's hands and the write still running.

### The file

Two lemmas say what a range needs: the segments of a range inside a uniform file
cover it (`SegmentsCover`), and in the order of their numbers lie one after the
other (`SegmentsApart`). They rest on the places of the layout (`Places`), which
follow from multiplication and division alone. `SliceTakes` says which bytes
`NormalizeSlice` takes. `HandleInv` then says that the window is in the file and
is what the last slice made of its parent; that every byte of the window was
handed over or is in a segment left (`ReadingOK`); that `bytes()` has filled a
prefix of its array, which the first segment left continues (`PrefixOK`), without
which `Cardinality(out)` would say nothing of where the next one goes; and that
every byte asked for was written, is being read or belongs to a range still to do
(`AccountedOK`). An article that passes `VerifyPlacement` holds the bytes its
segment is for (`SegmentHolds`), whatever the rest of the post is like.

`AnnouncedIsTrue` compares a count made in advance, range by range, with the
articles the windows take. A ticket is a range with one of its segments:
`SumIsTickets` says that the announced sum is the number of tickets, for any
finite set of ranges, and `CountOK` that the tickets are those taken and those
left.

### The secrets

`SecretIsFresh` is not inductive: that the cached value is the last trip's and
stamped with its end (`TimesInOrder`) is what ties the expiry test to it, and
that nobody has been given more than was brought, or asked in the future
(`GivenIsPast`), is what keeps old logins out of a new trip's way.

`SecretGoesWhereNamed` follows from `CliInv`: whoever has come as far as to use a
pool has settings that nothing refused, taken from the invocation alone, and each
login of the run, whichever sources were silent at it, is made of those settings
(`LoggedIn`, `AsNamed`). `ResolvedFirst` says that a chain of sources gives what the
first of them has that answers.

### The exit status

`ExitInv` follows each command. For `get`, `SelectedUpTo` says that the files
chosen so far are wanted, in order, each once, and that every other wanted one
was skipped because a lookup failed at its probe (`Unread`); `DownloadingOK` that
of the files begun, the last of each name has on disk what was written of it,
which is as much as can be said when names collide. `OfWanted` goes through every
way a download can end, and says that a name holds parts of one wanted file and
of no other. For `stat`, `Pick` is shown to choose
as many segments as the sample asks for, with the first and the last among them:
its rounding is strictly increasing when there are at least as many articles as
samples. For `decode`, every path so far has left its part in a sink that is still
open. Each way out then has to give the status that `Left` allows.

A connected command that exits with 2 has written nothing, with one exception: a
`get` with a lifetime whose secret expired between two articles and could not be
had again leaves what it wrote so far. A sink is left open in one case, a sparse
file that could not be given its length. Both are listed below.

### The release script

`SuccessIsTrue` needs to know where every package is: once the second phase is
under way each is still to come, under way, failed or deprecated, and one about
to be deprecated has its placeholder (`ScriptOK`). The registry never takes a
version back, so what was seen once stays so, and a call that took effect and yet
failed does no harm: a package is deprecated only if it has a placeholder, and
one with a placeholder keeps its tag until a release is the latest (`RegistryOK`).

### The replies

`WireInv` says that some `k` of the three replies have been handed over and are
what was sent, that `buffer` is what arrived behind them, that a reply awaited
has not arrived in full, and that `searched` stays within the block. What is
hard is where a block ends: nothing inside a stuffed block looks like a
terminator at the start of a line, because a line's first dot is followed by
another, wherever the search resumes. Unstuffing gives the body back because
stuffing puts each of its bytes at a place that depends only on the bytes before
it, with the dot it adds in front.

### The articles

What is decoded is the block that was taken (`ArticleOK`), so the rest is about
one body. `Looks` says where the control lines of a sound article stand. A line
starts after a break and only there (`LineStartsAre`), and the codes hold no bare
break or control line but those that end a line, so header, payload and trailer
are found where the poster put them. The decoder has then put out the first `k`
bytes posted after the codes of `k` (`Takes`), whether or not a code is followed
by the end of a line. A spoilt article is another matter: nothing is known of
where its lines are, but what the decoder is given is a piece of the body, and if
a sum that covers it matches, it is what was posted. So no article decodes, with
its sum verified, to anything else.

That proof found a fault of the model and not of the code: the decoder's cases
overlapped where an escaped byte is a CR or an LF, and TLC had always taken the
first.

### PAR2

`ScannedTo` says that the scan stands past `m` of the packets of its volume and
not past the next, and has yielded those before. Between survivors there may be
anything that looks like a header, with any length it claims; none of it is a
packet, and so the scan goes on one cell behind it and not at the end it claims,
which may lie beyond the next survivor. What passes for a packet inside a
survivor is never looked at.

The verifier is followed by two counts (`Hashed`): `w` bytes were read and `c` of
them copied, `whole` is the first `w` on disk, `pending` those from `c` to `w` and
`slice` those from the last multiple of the slice size to `c`. Whatever the
chunks, a slice is closed exactly when `c` comes to a multiple, so `#damaged` is
the slices before it that differ. At the end an unfinished slice is padded as
the poster's was, and the slices of the two files that differ are told by their
number even if one file is longer. A result stays `Judged` because the set does
not change once it is read.

### The parser

`After` says what the parser holds after `n` items, by the list `st` of the starts
of the elements that are open then. `Nested`: each lies one deeper than the one
before and has not ended, and the depth is their number. The stack is their
names. `file`, `segment` and `metaType` are of the last of their name to start, if
that one is still open (`Newest`), and null if it is not (`Shadowed`): an element
inside another of its name takes the slot and leaves it empty, so the outer one
fails at its end, and what is accepted never has two. `text` is the character data
since the last tag (`SinceTag`), which at an element's end is its own. What is
listed are the elements that are over (`Done`), each at the place its end has
among the ends (`Place`), since an end is always behind those before it. And
every group or segment that is over lies in a file that is over or is open
(`InAFile`). With nothing open, this is the document.

`SortedByNumber` gives each segment the rank it has among the others. Ranks of
different segments differ (`Ranked`), and as many different numbers out of `1..n`
are all of them, so nothing is lost or doubled by sorting (`SortedIs`). Sorted
numbers are contiguous exactly if the set of them is `1..n` (`ContiguousIs`).

The proof found a fault of the property and not of the code: it had the groups in
the order they start, which does not hold for a group inside a group. No document
of the run had one; now one has.

### Checked by TLC and not proved

- Liveness (`CallsSettle`, `EveryCallServed`, `EveryCallSettles`, `ReadSettles`),
  which the prover's backends do not reach under fairness.
- `OneVolumeIsEnough`, which is not true of all releases: the first Main packet
  found names the set (`parse.ts:108-110`), so a Main of another set whose body
  cannot be read, in a volume that was read before, keeps the right one from being
  used. `SetsAssumption` does not exclude that, and whoever damages a volume does
  not make such a packet, whose hash would have to be right.

## Findings

The five violated runs, with the lines they contradict, are in PROJECT.json. In
short: a hang after `destroy()`; a limit that shrinks below the account's cap;
a fatal login that does not stop walks in progress; a 430 verdict on servers
that were not asked; a late reply given to the next command of a shared client.

Smaller disagreements met on the way, without a run:

- `fetch.ts:63-64` says a plain single pool never gets to the retry's catch. It
  does: `NntpPool` reports its server's name, and the second question can fail.
  The outcome is the right one, the mismatch.
- `handle.ts:227-231` says no more than `prefetch` articles are held. One more
  is: the one just handed over, while the refilled window completes.
  `MemoryIsBounded` states the bound the code keeps.
- `prefetch.ts:88-91` says `asCompleted` fails with whichever request failed
  first. Among those that settled while the consumer was busy it is the earliest
  in the file.
- `multi-pool-failure.ts:8-10` wants three separate bad moments. One failed open
  in a server's pool rejects every caller parked there, and each walk strikes.
- `pool.ts:279-280` leaves a requeued waiter to "the caller's own timeout"; no
  caller has one while it waits for a connection.
- A greeting of 502 is a protocol error (`client.ts:64-69`), so a provider that
  refuses at the greeting instead of at login does not teach the pool its limit;
  nor does a refusal met by `#replaceFor`.
- `connect()` awaits the greeting outside the lock (`client.ts:63`), so a command
  issued meanwhile is written (`client.ts:161`) and only then refused, "a command
  is already awaiting a response" (`client.ts:189`). Its reply is left for the next
  command of the chain, against `client.ts:47`. `client_shared` with `Eager = TRUE`
  shows it, with no command timing out; a pool, which awaits `connect()` before
  anything else (`pool.ts:224-226`), is not affected.
- A 430 closes the connection it came on (`pool.ts:140-147`), although it is a
  complete answer.
- After `writeTo()` has rejected, a write already queued still runs
  (`write.ts:41-47`), while `get.ts:270-272` closes the file.
- `run.ts:127-130` gives a `ProviderError` status 2, a mistake in the invocation. One
  that a new connection meets in the middle of a `get`, when the cached secret
  has expired (`auth.ts:58-77`, `auth.ts:142`), does the same after files were
  truncated and written (`get.ts:242`).
- `openSink` does not close its file when `truncate` fails (`sink.ts:46-52`), and
  `get.ts:239-242` opens it outside the `try` that would.
- `nzb-cli/src/range.ts` documents `-N` as "the last `N` bytes". `-0` is carried
  as a start of minus zero, which is not negative, so it means the whole file.
- Two files of a release with one output name are written to one path in turn
  (`get.ts:242`): the later truncates the earlier, both are reported and the exit
  status is 0. `ExitTellsTheTruth` excuses the earlier.
- `stat.ts:81` takes any error whose message contains "430" for a missing
  article, one on a connection to a port or a host with those digits included.
- `stat --sample 0` asks for nothing and reports success.
- `config.ts:241-244` says that flag, environment, config file is "the same
  ordering the password chain uses". It is not: a `password` in the config file
  replaces the chain, and with it `NNTP_PASSWORD`.
- The user name and the password are cached apart and expire apart
  (`auth.ts:48-51`), so a pair that is rotated together can be sent half old.
- `bootstrap-package.mjs:177-178` says a failure "must not cost the others their
  turn". `npm view ... dist-tags.latest` (line 222) is outside any try: if it
  fails, the script stops and the packages after it are not deprecated
  (`LatestFails`). A later run catches up.
- "placeholders are deprecated and their tags are cleared" (line 245) is printed
  also when a tag stays because no release owns `latest` yet.
- A `<segment>` with an element inside keeps only the text after it: `consume`
  clears `text` at every tag (`parse.ts:74`, 94). A second root element after the
  first is accepted.
- A `<group>` inside a `<group>` is listed before it: groups are taken at their end
  tags (`parse.ts:151-158`).
- `verify` says nothing of a file in the Main packet whose description packet is
  missing from the volumes read (`par2/src/parse.ts:139-144`).
- `run.ts:34-40` prints identical texts once; a failure that is reported with a
  stack and recorded in `pool.failures` with its reason is printed twice.

## Not modelled, and why

MIME types, help, completion and formatting have no state. CRC-32 and MD5 are
computations whose results matter here only as right or wrong. The subject
line's hints (`nzb-parser/src/subject.ts`) are one regular expression. Names,
sizes and byte counts are parsed by conversions whose outcomes (`Bad`, a number)
are inputs. `statAll`, `serverStates`, `failures`, `looksLike`, `inspect`'s report
only read. `tag.mjs` and `set-version.mjs` rewrite files in one pass; `checks.ts`,
`server-checks.ts` and `smoke.ts` test a build against a live server. Inside
`NntpClient`: what is named there.

## Plan

All of it is done, in this order:

1. `NntpPool`, its runs and its invariant.
2. `PoolContract` and the refinement.
3. `ProviderCap`, composing the pool with a provider.
4. `NntpMultiPool`.
5. `NntpClient`.
6. `ArticleRead`.
7. `FileRange` and `FileHandle`.
8. `ResponseBuffer` and `Yenc`.
9. `Credentials`, and its theorem.
10. `NzbCli`, `Par2`, `NzbParser`, `BootstrapPackage`.
11. Proofs of the pool, its refinement, the provider's cap, the multi-server
    pool, the client, the read and the file handle.
12. Proofs of the machines of `toolkit`: secrets, exit statuses, the release
    script, replies, articles, PAR2, the parser.

No module uses a RECURSIVE operator, so that any of them can be proved about.
