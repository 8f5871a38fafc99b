----------------------------- MODULE ArticleRead -----------------------------
(***************************************************************************)
(* Reading a run of articles (packages/nzb/src): fetchArticle with its     *)
(* retry on another server, the two prefetch windows, and writeParts with  *)
(* its mutex.                                                              *)
(*                                                                         *)
(* Handle uses prefetch for bytes() and stream(), where parts come in file *)
(* order, and asCompleted with writeParts for writeTo(), where each part   *)
(* goes to the sink as it arrives.  A step is one turn of the event loop:  *)
(* I/O settles only when no continuation is ready to run.                  *)
(***************************************************************************)
EXTENDS Integers, Sequences, FiniteSets, FiniteSetsExt

CONSTANTS
  K,        \* how many articles the range touches, in file order 1 .. K
  Depth,    \* options.prefetch
  Kept,     \* the articles that need no fetch: segment 1, kept by the probe
  Servers   \* the names a source can report

Items == 1 .. K

ASSUME SizesAssumption == K \in Nat \ {0} /\ Depth \in Nat \ {0}
ASSUME KeptAssumption == Kept \subseteq {1}
ASSUME ServersAssumption == IsFiniteSet(Servers) /\ Servers # {}

(***************************************************************************)
(* several  excludes the servers it is told to, and has a finite list      *)
(* single   one server, always the same: NntpPool                          *)
(* unnamed  does not say which server answered                             *)
(***************************************************************************)
Sources == {"several", "single", "unnamed"}

VARIABLES
  mode,    \* "ordered" (bytes, stream) or "completed" (writeTo)
  source,
  status,  \* of each article: waiting, asking, ok, failed
  tried,   \* fetchArticle's tried
  error,   \* why an article failed: none, source, checksum, decode, placement
  started, \* `next`: the articles 1 .. started have been started
  window,  \* started and not yet handed over
  gen,     \* the generator: idle, awaiting, yielded, done, failed, closed
  winner,  \* the article that won Promise.race, 0 if none yet
  given,   \* articles handed to the consumer, in order
  user,    \* the consumer
  pending, \* writeParts' `pending`: the last write but one, 0 at first
  task     \* the writes: none, queued, running, written, lost

fetch  == <<status, tried, error>>
writer == <<pending, task>>
vars == <<mode, source, fetch, started, window, gen, winner, given, user, writer>>

Init ==
  /\ mode \in {"ordered", "completed"} /\ source \in Sources
  /\ status = [i \in Items |-> "waiting"]
  /\ tried = [i \in Items |-> {}]
  /\ error = [i \in Items |-> "none"]
  /\ started = 0 /\ window = {}
  /\ gen = "idle" /\ winner = 0 /\ given = <<>>
  /\ user = "pulling" /\ pending = 0
  /\ task = [i \in Items |-> "none"]

Settled(st, i) == st[i] \in {"ok", "failed"}

-----------------------------------------------------------------------------
(* The window.  Operators named Bug... are the next one with one mistake.  *)

(* Start the items up to n, `gone` having left the window. *)
StartUpTo(n, gone) ==
  LET now == started + 1 .. n IN
    /\ status' = [i \in Items |->
         IF i \in now THEN (IF i \in Kept THEN "ok" ELSE "asking") ELSE status[i]]
    /\ started' = n
    /\ window' = (window \ gone) \cup now
    /\ UNCHANGED <<tried, error>>

Least(a, b) == IF a < b THEN a ELSE b

(* Promise.race over promises some of which have settled: the first of them *)
(* in the map's order, which is the order they were started in.             *)
Race(st, win) ==
  LET ready == {i \in win : Settled(st, i)} IN
    IF mode = "completed" /\ ready # {} THEN Min(ready) ELSE 0

Begin ==
  /\ gen = "idle"
  /\ StartUpTo(Least(K, Depth), {})
  /\ gen' = "awaiting"
  /\ winner' = Race(status', window')
  /\ UNCHANGED <<mode, source, given, user, writer>>

(* The article the generator awaits, 0 when it awaits none or knows none yet. *)
BugAwaited ==
  IF mode = "ordered" /\ window # {}
    THEN LET ready == {i \in window : Settled(status, i)} IN Min(IF ready = {} THEN window ELSE ready)
    ELSE winner

Awaited == IF mode = "ordered" /\ window # {} THEN Min(window) ELSE winner

(* What it awaits has settled. *)
Resumable ==
  /\ gen = "awaiting"
  /\ window = {} \/ (Awaited # 0 /\ Settled(status, Awaited))

(* Refill, then hand the article over.  writeParts queues its write before *)
(* it does anything else.                                                  *)
BugYield ==
  /\ Resumable /\ window # {} /\ status[Awaited] = "ok"
  /\ StartUpTo(Least(K, started + 2), {Awaited})
  /\ gen' = "yielded" /\ user' = "busy"
  /\ given' = Append(given, Awaited)
  /\ task' = IF mode = "completed" THEN [task EXCEPT ![Awaited] = "queued"] ELSE task
  /\ UNCHANGED <<mode, source, winner, pending>>

Yield ==
  /\ Resumable /\ window # {} /\ status[Awaited] = "ok"
  /\ StartUpTo(Least(K, started + 1), {Awaited})
  /\ gen' = "yielded" /\ user' = "busy"
  /\ given' = Append(given, Awaited)
  /\ task' = IF mode = "completed" THEN [task EXCEPT ![Awaited] = "queued"] ELSE task
  /\ UNCHANGED <<mode, source, winner, pending>>

(* The awaited fetch failed: so does the read, whatever is being written. *)
Throw ==
  /\ Resumable /\ window # {} /\ status[Awaited] = "failed"
  /\ gen' = "failed" /\ user' = "failed"
  /\ UNCHANGED <<mode, source, fetch, started, window, winner, given, writer>>

(* The last write is not awaited. *)
BugEnd ==
  /\ Resumable /\ window = {}
  /\ gen' = "done"
  /\ user' = "done"
  /\ UNCHANGED <<mode, source, fetch, started, window, winner, given, writer>>

End ==
  /\ Resumable /\ window = {}
  /\ gen' = "done"
  /\ user' = IF mode = "ordered" THEN "done" ELSE "last"
  /\ UNCHANGED <<mode, source, fetch, started, window, winner, given, writer>>

-----------------------------------------------------------------------------
(* The consumers. *)

(* Only an article that settles while the generator waits is noticed. *)
BugPull ==
  /\ gen' = "awaiting" /\ user' = "pulling"
  /\ winner' = 0
  /\ UNCHANGED <<mode, source, fetch, started, window, given>>

Pull ==
  /\ gen' = "awaiting" /\ user' = "pulling"
  /\ winner' = Race(status, window)
  /\ UNCHANGED <<mode, source, fetch, started, window, given>>

(* Reading in order: take the part, ask for the next, or cancel the stream. *)
ReaderPulls   == mode = "ordered" /\ user = "busy" /\ Pull /\ UNCHANGED writer
ReaderCancels ==
  /\ mode = "ordered" /\ user = "busy"
  /\ gen' = "closed" /\ user' = "cancelled"
  /\ UNCHANGED <<mode, source, fetch, started, window, winner, given, writer>>

Current == given[Len(given)]
PendingIs(s) == IF pending = 0 THEN s = "written" ELSE task[pending] = s

(* The write before the one just queued is done: remember that one, pull. *)
WriterContinues ==
  /\ mode = "completed" /\ user = "busy" /\ PendingIs("written")
  /\ pending' = Current
  /\ Pull
  /\ UNCHANGED task

WriterFails ==
  /\ mode = "completed" /\ user \in {"busy", "last"} /\ PendingIs("lost")
  /\ user' = "failed"
  /\ gen' = IF user = "busy" THEN "closed" ELSE gen
  /\ UNCHANGED <<mode, source, fetch, started, window, winner, given, writer>>

WriterEnds ==
  /\ user = "last" /\ PendingIs("written")
  /\ user' = "done"
  /\ UNCHANGED <<mode, source, fetch, started, window, gen, winner, given, writer>>

(* Mutex: a task starts when the one before it has settled, either way.    *)
(* Nothing stops the queue when writeParts has failed meanwhile.           *)
Earlier(k) == {given[i] : i \in {j \in DOMAIN given : \E l \in DOMAIN given : l > j /\ given[l] = k}}

BugSinkStarts(k) ==
  /\ task[k] = "queued"
  /\ task' = [task EXCEPT ![k] = "running"]
  /\ UNCHANGED <<mode, source, fetch, started, window, gen, winner, given, user, pending>>

SinkStarts(k) ==
  /\ task[k] = "queued"
  /\ \A q \in Earlier(k) : task[q] \in {"written", "lost"}
  /\ task' = [task EXCEPT ![k] = "running"]
  /\ UNCHANGED <<mode, source, fetch, started, window, gen, winner, given, user, pending>>

(* A continuation is ready: the generator's or the consumer's. *)
Ready ==
  \/ Resumable
  \/ mode = "completed" /\ user \in {"busy", "last"} /\ ~PendingIs("queued") /\ ~PendingIs("running")

SinkEnds(k) ==
  /\ ~Ready
  /\ task[k] = "running"
  /\ \E s \in {"written", "lost"} : task' = [task EXCEPT ![k] = s]
  /\ UNCHANGED <<mode, source, fetch, started, window, gen, winner, given, user, pending>>

-----------------------------------------------------------------------------
(* fetchArticle, on one article. *)

FetchSettles(i, st, e) ==
  /\ status' = [status EXCEPT ![i] = st]
  /\ error' = [error EXCEPT ![i] = e]
  /\ winner' = IF mode = "completed" /\ gen = "awaiting" /\ winner = 0 THEN i ELSE winner
  /\ UNCHANGED tried

(* source.body rejects, or has no server left to ask.  A retry that cannot *)
(* be made reports the mismatch that provoked it.                          *)
BugBodyFails(i) ==
  /\ ~Ready /\ status[i] = "asking"
  /\ FetchSettles(i, "failed", "source")
  /\ UNCHANGED <<mode, source, started, window, gen, given, user, writer>>

BodyFails(i) ==
  /\ ~Ready /\ status[i] = "asking"
  /\ FetchSettles(i, "failed", IF tried[i] = {} THEN "source" ELSE "checksum")
  /\ UNCHANGED <<mode, source, started, window, gen, given, user, writer>>

Answering(i) ==
  CASE source = "several" -> Servers \ tried[i]
    [] source = "single"  -> {CHOOSE s \in Servers : TRUE}
    [] source = "unnamed" -> {"undefined"}

(* It decodes and is where the geometry says, or it is refused for good. *)
BodyDecodes(i) ==
  /\ ~Ready /\ status[i] = "asking" /\ Answering(i) # {}
  /\ \/ FetchSettles(i, "ok", "none")
     \/ \E e \in {"decode", "placement"} : FetchSettles(i, "failed", e)
  /\ UNCHANGED <<mode, source, started, window, gen, given, user, writer>>

(* The CRC is wrong: another server may have better bytes. *)
BodyCorrupt(i) ==
  /\ ~Ready /\ status[i] = "asking"
  /\ \E s \in Answering(i) :
       \/ /\ s \in tried[i] \cup {"undefined"}
          /\ FetchSettles(i, "failed", "checksum")
       \/ /\ s \notin tried[i] \cup {"undefined"}
          /\ tried' = [tried EXCEPT ![i] = @ \cup {s}]
          /\ UNCHANGED <<status, error, winner>>
  /\ UNCHANGED <<mode, source, started, window, gen, given, user, writer>>

FetchGoesOn(i) == BodyFails(i) \/ BodyDecodes(i) \/ BodyCorrupt(i)

Next ==
  \/ Begin \/ Yield \/ Throw \/ End
  \/ ReaderPulls \/ ReaderCancels
  \/ WriterContinues \/ WriterFails \/ WriterEnds
  \/ \E i \in Items : SinkStarts(i) \/ SinkEnds(i) \/ FetchGoesOn(i)

(***************************************************************************)
(* The event loop runs what is ready, the source and the sink answer, and  *)
(* whoever reads goes on reading until it has enough.                      *)
(***************************************************************************)
Fairness ==
  /\ WF_vars(Begin \/ Yield \/ Throw \/ End)
  /\ WF_vars(ReaderPulls \/ ReaderCancels)
  /\ WF_vars(WriterContinues \/ WriterFails \/ WriterEnds)
  /\ \A i \in Items : WF_vars(SinkStarts(i) \/ SinkEnds(i)) /\ WF_vars(FetchGoesOn(i))

Spec == Init /\ [][Next]_vars /\ Fairness

-----------------------------------------------------------------------------
(* Properties. *)

(* Memory: at most Depth articles are in flight or waiting to be handed     *)
(* over, and beyond those one in the reader's hands, or the two chunks of   *)
(* write.ts:27-30, however slow the consumer and however the fetches come.  *)
Held ==
  {i \in window : status[i] = "ok"}
    \cup {i \in Items : task[i] \in {"queued", "running"}}
    \cup (IF user = "busy" THEN {Current} ELSE {})

MemoryIsBounded ==
  /\ Cardinality(window) <= Depth
  /\ Cardinality(Held) <= Depth + (IF mode = "ordered" THEN 1 ELSE 2)

(* The sink is never entered twice at once, and never twice for a part,     *)
(* after failures and after writeTo has rejected too (models.ts:133-135).   *)
SinkIsSerial ==
  /\ Cardinality({i \in Items : task[i] = "running"}) <= 1
  /\ \A i, j \in DOMAIN given : i # j => given[i] # given[j]

(* A read that succeeds is complete: in order, or with every write done.    *)
DoneIsComplete ==
  user = "done" =>
    IF mode = "ordered" THEN given = [i \in Items |-> i]
    ELSE \A i \in Items : task[i] = "written"

(* Reading in order hands over a prefix, and the error the caller sees is   *)
(* that of the first article that failed in the file, not of the soonest    *)
(* (prefetch.ts:24-25).                                                     *)
FirstErrorInFileOrder ==
  mode = "ordered" =>
    /\ \A i \in DOMAIN given : given[i] = i /\ status[i] = "ok"
    /\ gen = "failed" => status[Len(given) + 1] = "failed"

(* "A retry that cannot even be attempted must not erase what provoked it"  *)
(* (fetch.ts:58): once a checksum was wrong, the caller is not told that no *)
(* server was available.                                                    *)
MismatchIsReported ==
  \A i \in Items : error[i] = "source" => tried[i] = {}

(* Every read ends, also when a write fails while fetches are in flight.    *)
ReadSettles == <>(user \in {"done", "failed", "cancelled"})
=============================================================================
