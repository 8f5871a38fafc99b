------------------------- MODULE ArticleRead_proofs -------------------------
(***************************************************************************)
(* Proofs about ArticleRead, for any run of articles, any prefetch depth   *)
(* and any set of servers, in order and as completed.                      *)
(***************************************************************************)
EXTENDS ArticleRead, FiniteSetTheorems, SequenceTheorems, WellFoundedInduction, TLAPS

Statuses == {"waiting", "asking", "ok", "failed"}
Tasks    == {"none", "queued", "running", "written", "lost"}
Gens     == {"idle", "awaiting", "yielded", "done", "failed", "closed"}
Users    == {"pulling", "busy", "last", "done", "failed", "cancelled"}

ReadTypeOK ==
  /\ mode \in {"ordered", "completed"} /\ source \in Sources
  /\ status \in [Items -> Statuses]
  /\ tried \in [Items -> SUBSET Servers]
  /\ error \in [Items -> {"none", "source", "checksum", "decode", "placement"}]
  /\ started \in 0 .. K
  /\ window \in SUBSET Items
  /\ gen \in Gens
  /\ winner \in 0 .. K
  /\ given \in Seq(Items)
  /\ user \in Users
  /\ pending \in 0 .. K
  /\ task \in [Items -> Tasks]

-----------------------------------------------------------------------------
(* The prefetch: every article that was started is in the window or was     *)
(* handed over once; the window never exceeds Depth, and is empty only at   *)
(* the end.                                                                 *)

WindowOK ==
  /\ \A i \in Items : i <= started <=> i \in window \/ \E j \in DOMAIN given : given[j] = i
  /\ \A j \in DOMAIN given : given[j] \notin window
  /\ \A i, j \in DOMAIN given : given[i] = given[j] => i = j
  /\ IsFiniteSet(window) /\ Cardinality(window) <= Depth
  /\ gen = "idle" => started = 0 /\ given = <<>> /\ user = "pulling"
  /\ gen = "idle" \/ started = K \/ window # {}
  /\ user \in {"last", "done"} => window = {}
  /\ gen = "awaiting" => user = "pulling"

(* fetchArticle settles an article once, and keeps its reason. *)
StatusOK ==
  /\ \A i \in Items : status[i] = "waiting" <=> i > started
  /\ \A j \in DOMAIN given : status[given[j]] = "ok"
  /\ \A i \in Items : error[i] = "source" => tried[i] = {} /\ status[i] = "failed"
  /\ winner # 0 => mode = "completed"
  /\ gen = "awaiting" /\ winner # 0 => winner \in window /\ Settled(status, winner)

(* In order: 1, 2, 3, ... and the failure is that of the next one. *)
OrderedOK ==
  mode = "ordered" =>
    /\ \A j \in DOMAIN given : given[j] = j
    /\ gen = "failed" => Len(given) + 1 \in Items /\ status[Len(given) + 1] = "failed"
    /\ \A i \in Items : task[i] = "none"
    /\ user # "last"

(* The writes start in the order they were queued; all but the last two are *)
(* done, and `pending` is the last one writeParts has gone past.            *)
PendingIndex == IF user = "busy" THEN Len(given) - 1 ELSE Len(given)

SinkOK ==
  mode = "completed" =>
    /\ \A i \in Items : task[i] # "none" <=> \E j \in DOMAIN given : given[j] = i
    /\ \A k, j \in DOMAIN given :
         k < j /\ task[given[j]] # "queued" => task[given[k]] \in {"written", "lost"}
    /\ \A j \in DOMAIN given : j < Len(given) - 1 => task[given[j]] = "written"
    /\ user = "busy" => given # <<>>
    /\ user # "failed" =>
         /\ pending = IF PendingIndex = 0 THEN 0 ELSE given[PendingIndex]
         /\ \A j \in DOMAIN given : j < PendingIndex => task[given[j]] = "written"
    /\ user = "done" => given # <<>> /\ task[given[Len(given)]] = "written"
    /\ user # "cancelled"

ReadInv == ReadTypeOK /\ WindowOK /\ StatusOK /\ OrderedOK /\ SinkOK

-----------------------------------------------------------------------------
(* Facts about the operators. *)

LEMMA Sizes == K \in Nat /\ K # 0 /\ Depth \in Nat /\ Depth # 0 /\ Items = 1 .. K
BY SizesAssumption DEF Items

LEMMA MinIsLeast ==
  ASSUME NEW S \in SUBSET Items, S # {}
  PROVE  Min(S) \in S /\ \A t \in S : Min(S) <= t
<1>1. S \subseteq Nat
  BY DEF Items
<1>2. PICK m \in S : \A t \in S : ~(<<t, m>> \in OpToRel(<, Nat))
  BY <1>1, NatLessThanWellFounded, WFMin
<1>3. ASSUME NEW t \in S PROVE m <= t
  <2>1. ~(t < m)
    BY <1>1, <1>2 DEF OpToRel
  <2> QED BY <1>1, <2>1
<1> QED BY <1>3 DEF Min

LEMMA GivenFacts ==
  ASSUME ReadTypeOK
  PROVE  /\ DOMAIN given = 1 .. Len(given) /\ Len(given) \in Nat
         /\ \A j \in 1 .. Len(given) : given[j] \in Items
         /\ given # <<>> <=> Len(given) # 0
BY LenProperties, ElementOfSeq, EmptySeq DEF ReadTypeOK

LEMMA GivenNext ==
  ASSUME ReadTypeOK, NEW a \in Items, given' = Append(given, a)
  PROVE  /\ given' \in Seq(Items) /\ Len(given') = Len(given) + 1
         /\ DOMAIN given' = 1 .. Len(given) + 1
         /\ \A j \in 1 .. Len(given) : given'[j] = given[j]
         /\ given'[Len(given) + 1] = a
         /\ \A j \in 1 .. Len(given) + 1 : j \in 1 .. Len(given) \/ j = Len(given) + 1
         /\ Len(given) + 1 \in 1 .. Len(given) + 1
<1>1. given' \in Seq(Items) /\ Len(given') = Len(given) + 1 /\ Len(given) \in Nat
      /\ \A j \in 1 .. Len(given) : given'[j] = given[j]
      /\ given'[Len(given) + 1] = a
  BY AppendProperties, GivenFacts DEF ReadTypeOK
<1>2. DOMAIN given' = 1 .. Len(given) + 1
  BY <1>1, LenProperties
<1> QED BY <1>1, <1>2

(* Whoever wins the race has settled and is in the window. *)
LEMMA RaceWinner ==
  ASSUME NEW st, NEW win \in SUBSET Items
  PROVE  /\ Race(st, win) \in 0 .. K
         /\ Race(st, win) # 0 =>
              mode = "completed" /\ Race(st, win) \in win /\ Settled(st, Race(st, win))
<1> DEFINE ready == {i \in win : Settled(st, i)}
<1>1. CASE mode = "completed" /\ ready # {}
  <2>1. Min(ready) \in ready
    BY <1>1, MinIsLeast
  <2>2. Race(st, win) = Min(ready) /\ mode = "completed"
    BY <1>1 DEF Race
  <2>3. \A m \in ready : m \in win /\ Settled(st, m) /\ m \in 0 .. K
    <3> SUFFICES ASSUME NEW m \in win PROVE m \in 0 .. K
      OBVIOUS
    <3> QED BY Sizes
  <2> QED BY <2>1, <2>2, <2>3
<1>2. CASE ~(mode = "completed" /\ ready # {})
  BY <1>2, Sizes DEF Race
<1> QED BY <1>1, <1>2

(* What the generator awaits is in the window; in order it is the article  *)
(* after the last one handed over.                                         *)
LEMMA AwaitedFacts ==
  ASSUME ReadInv, Resumable, window # {}
  PROVE  /\ Awaited \in window /\ Awaited \in Items /\ Settled(status, Awaited)
         /\ mode = "ordered" => Awaited = Len(given) + 1
         /\ gen = "awaiting" /\ user = "pulling"
<1> USE DEF ReadInv
<1>1. gen = "awaiting" /\ Awaited # 0 /\ Settled(status, Awaited) /\ user = "pulling"
  BY DEF Resumable, WindowOK
<1>2. window \in SUBSET Items
  BY DEF ReadTypeOK
<1>3. CASE mode = "ordered"
  <2> DEFINE m == Min(window)
             n == Len(given)
  <2>1. Awaited = m
    BY <1>3 DEF Awaited
  <2>2. m \in window /\ \A t \in window : m <= t
    BY <1>2, MinIsLeast
  <2> HIDE DEF m
  <2>3. DOMAIN given = 1 .. n /\ n \in Nat /\ \A j \in 1 .. n : given[j] = j
    BY <1>3, GivenFacts DEF OrderedOK
  <2>4. m \in 1 .. K /\ m <= started /\ started \in 0 .. K /\ K \in Nat
    BY <1>2, <2>2, Sizes DEF WindowOK, ReadTypeOK
  <2>5. m \notin 1 .. n
    BY <2>2, <2>3 DEF WindowOK
  <2>6. n + 1 \in 1 .. K /\ n + 1 <= started
    BY <2>3, <2>4, <2>5
  <2>7. n + 1 \in window
    <3>1. n + 1 \in window \/ \E j \in 1 .. n : given[j] = n + 1
      BY <2>3, <2>6, Sizes DEF WindowOK
    <3> QED BY <2>3, <3>1
  <2>8. m <= n + 1
    BY <2>2, <2>7
  <2>9. m = n + 1
    BY <2>3, <2>4, <2>5, <2>8
  <2> QED BY <1>1, <1>2, <2>1, <2>2, <2>9
<1>4. CASE mode # "ordered"
  <2>1. Awaited = winner /\ winner \in window
    BY <1>1, <1>4 DEF Awaited, StatusOK
  <2> QED BY <1>1, <1>2, <1>4, <2>1
<1> QED BY <1>3, <1>4

-----------------------------------------------------------------------------
(* One lemma per kind of step. *)

(* The generator throws, ends, or is closed; a consumer ends or gives up. *)
LEMMA ThrowKeeps ==
  ASSUME ReadInv, Throw
  PROVE  ReadInv'
<1>1. /\ status[Awaited] = "failed" /\ gen' = "failed" /\ user' = "failed"
      /\ UNCHANGED <<mode, source, fetch, started, window, winner, given, writer>>
  BY DEF Throw
<1>2. mode = "ordered" => Awaited = Len(given) + 1 /\ Awaited \in Items
  BY AwaitedFacts DEF Throw
<1>3. ReadTypeOK'
  BY <1>1 DEF ReadInv, ReadTypeOK, fetch, writer, Gens, Users
<1>4. WindowOK'
  <2>1. gen # "idle"
    BY DEF Throw, Resumable
  <2> QED BY <1>1, <2>1 DEF ReadInv, WindowOK
<1>5. StatusOK'
  BY <1>1 DEF ReadInv, StatusOK, fetch
<1>6. OrderedOK'
  BY <1>1, <1>2 DEF ReadInv, OrderedOK, fetch, writer
<1>7. SinkOK'
  BY <1>1 DEF ReadInv, SinkOK, writer
<1> QED BY <1>3, <1>4, <1>5, <1>6, <1>7 DEF ReadInv

LEMMA EndKeeps ==
  ASSUME ReadInv, End
  PROVE  ReadInv'
<1>1. /\ window = {} /\ gen = "awaiting" /\ gen' = "done"
      /\ user' = (IF mode = "ordered" THEN "done" ELSE "last")
      /\ UNCHANGED <<mode, source, fetch, started, window, winner, given, writer>>
  BY DEF End, Resumable
<1>2. user = "pulling"
  BY <1>1 DEF ReadInv, WindowOK
<1>3. ReadTypeOK'
  BY <1>1 DEF ReadInv, ReadTypeOK, fetch, writer, Gens, Users
<1>4. WindowOK'
  BY <1>1 DEF ReadInv, WindowOK
<1>5. StatusOK'
  BY <1>1 DEF ReadInv, StatusOK, fetch
<1>6. OrderedOK'
  BY <1>1 DEF ReadInv, OrderedOK, writer
<1>7. SinkOK'
  BY <1>1, <1>2 DEF ReadInv, SinkOK, PendingIndex, writer
<1> QED BY <1>3, <1>4, <1>5, <1>6, <1>7 DEF ReadInv

LEMMA PullKeeps ==
  ASSUME ReadInv, user = "busy", Pull,
         \/ mode = "ordered" /\ UNCHANGED writer
         \/ mode = "completed" /\ PendingIs("written") /\ pending' = Current /\ UNCHANGED task
  PROVE  ReadInv'
<1>1. /\ gen' = "awaiting" /\ user' = "pulling" /\ winner' = Race(status, window)
      /\ UNCHANGED <<mode, source, fetch, started, window, given>> /\ task' = task
  BY DEF Pull, writer
<1>2. /\ winner' \in 0 .. K
      /\ winner' # 0 => mode = "completed" /\ winner' \in window /\ Settled(status, winner')
  BY <1>1, RaceWinner DEF ReadInv, ReadTypeOK
<1>3. gen # "idle"
  BY DEF ReadInv, WindowOK
<1> DEFINE n == Len(given)
<1>4. DOMAIN given = 1 .. n /\ n \in Nat /\ \A j \in 1 .. n : given[j] \in Items
  BY GivenFacts DEF ReadInv
<1>5. mode = "completed" => n # 0 /\ n \in 1 .. n /\ Current = given[n] /\ Current \in Items
  BY <1>4, GivenFacts DEF ReadInv, SinkOK, Current
<1>6. ReadTypeOK'
  BY <1>1, <1>2, <1>5, Sizes DEF ReadInv, ReadTypeOK, fetch, writer, Gens, Users
<1>7. WindowOK'
  BY <1>1, <1>3 DEF ReadInv, WindowOK
<1>8. StatusOK'
  BY <1>1, <1>2 DEF ReadInv, StatusOK, Settled, fetch
<1>9. OrderedOK'
  BY <1>1 DEF ReadInv, OrderedOK, writer
<1>10. ASSUME mode = "completed" PROVE SinkOK'
  <2>1. pending = (IF n - 1 = 0 THEN 0 ELSE given[n - 1]) /\ PendingIs("written")
    BY <1>10 DEF ReadInv, SinkOK, PendingIndex
  <2>2. \A j \in 1 .. n : j < n - 1 => task[given[j]] = "written"
    BY <1>4, <1>10 DEF ReadInv, SinkOK
  <2>3. n - 1 # 0 => task[given[n - 1]] = "written"
    <3>1. n - 1 # 0 => given[n - 1] \in Items /\ given[n - 1] # 0
      BY <1>4, <1>5, <1>10, Sizes
    <3> QED BY <2>1, <3>1 DEF PendingIs
  <2>4. \A j \in 1 .. n : j < n => task[given[j]] = "written"
    <3> SUFFICES ASSUME NEW j \in 1 .. n, j < n PROVE task[given[j]] = "written"
      OBVIOUS
    <3> HIDE DEF n
    <3>1. j < n - 1 \/ j = n - 1
      BY <1>4
    <3> QED BY <1>4, <2>2, <2>3, <3>1
  <2>5. pending' = given[n] /\ PendingIndex' = n
    BY <1>1, <1>5, <1>10 DEF PendingIndex
  <2> QED BY <1>1, <1>4, <1>5, <1>10, <2>4, <2>5 DEF ReadInv, SinkOK
<1>11. SinkOK'
  BY <1>1, <1>10 DEF SinkOK
<1> QED BY <1>6, <1>7, <1>8, <1>9, <1>11 DEF ReadInv

LEMMA StopsKeeps ==
  ASSUME ReadInv, ReaderCancels \/ WriterFails \/ WriterEnds
  PROVE  ReadInv'
<1>1. UNCHANGED <<mode, source, fetch, started, window, winner, given, writer>>
  BY DEF ReaderCancels, WriterFails, WriterEnds
<1>2. CASE ReaderCancels
  <2>1. gen' = "closed" /\ user' = "cancelled" /\ mode = "ordered" /\ gen # "idle"
    BY <1>2 DEF ReaderCancels, ReadInv, WindowOK
  <2>2. ReadTypeOK' /\ WindowOK'
    BY <1>1, <2>1 DEF ReadInv, ReadTypeOK, WindowOK, fetch, writer, Gens, Users
  <2> QED BY <1>1, <2>1, <2>2 DEF ReadInv, StatusOK, OrderedOK, SinkOK, fetch, writer
<1>3. CASE WriterFails
  <2>1. /\ gen' = (IF user = "busy" THEN "closed" ELSE gen) /\ user' = "failed"
        /\ mode = "completed" /\ user \in {"busy", "last"} /\ gen # "idle" /\ gen # "awaiting"
    BY <1>3 DEF WriterFails, ReadInv, WindowOK
  <2>2. ReadTypeOK' /\ WindowOK'
    BY <1>1, <2>1 DEF ReadInv, ReadTypeOK, WindowOK, fetch, writer, Gens, Users
  <2> QED BY <1>1, <2>1, <2>2 DEF ReadInv, StatusOK, OrderedOK, SinkOK, fetch, writer
<1>4. CASE WriterEnds
  <2>1. /\ user = "last" /\ user' = "done" /\ gen' = gen /\ PendingIs("written")
        /\ gen # "idle" /\ gen # "awaiting" /\ window = {} /\ started = K
    BY <1>4 DEF WriterEnds, ReadInv, WindowOK
  <2>2. ReadTypeOK' /\ WindowOK'
    BY <1>1, <2>1 DEF ReadInv, ReadTypeOK, WindowOK, fetch, writer, Gens, Users
  <2>3. mode = "completed"
    BY <2>1 DEF ReadInv, OrderedOK, ReadTypeOK
  <2>4. /\ pending = (IF Len(given) = 0 THEN 0 ELSE given[Len(given)])
        /\ \A j \in DOMAIN given : j < Len(given) => task[given[j]] = "written"
    BY <2>1, <2>3 DEF ReadInv, SinkOK, PendingIndex
  <2>5. /\ DOMAIN given = 1 .. Len(given) /\ Len(given) \in Nat
        /\ \A j \in 1 .. Len(given) : given[j] \in Items
        /\ given # <<>> <=> Len(given) # 0
    BY GivenFacts DEF ReadInv
  <2>6. \E j \in DOMAIN given : given[j] = 1
    <3>1. 1 \in Items /\ 1 <= K
      BY Sizes
    <3> QED BY <2>1, <3>1 DEF ReadInv, WindowOK
  <2>7. Len(given) # 0 /\ given[Len(given)] # 0
    BY <2>5, <2>6, Sizes
  <2>8. task[given[Len(given)]] = "written"
    BY <2>1, <2>4, <2>7 DEF PendingIs
  <2>9. SinkOK'
    BY <1>1, <2>1, <2>3, <2>4, <2>5, <2>7, <2>8 DEF ReadInv, SinkOK, PendingIndex, writer
  <2> QED BY <1>1, <2>1, <2>2, <2>3, <2>9 DEF ReadInv, StatusOK, OrderedOK, fetch, writer
<1> QED BY <1>2, <1>3, <1>4

(* The queue of the mutex is the order the parts were handed over in. *)
LEMMA SinkStartsKeeps ==
  ASSUME ReadInv, NEW k \in Items, SinkStarts(k)
  PROVE  ReadInv'
<1>1. /\ task[k] = "queued" /\ task' = [task EXCEPT ![k] = "running"]
      /\ \A q \in Earlier(k) : task[q] \in {"written", "lost"}
      /\ UNCHANGED <<mode, source, fetch, started, window, gen, winner, given, user, pending>>
  BY DEF SinkStarts
<1>2. task'[k] = "running" /\ (\A i \in Items : i # k => task'[i] = task[i]) /\ mode = "completed"
  BY <1>1 DEF ReadInv, ReadTypeOK, OrderedOK
<1>3. ReadTypeOK' /\ WindowOK' /\ StatusOK' /\ OrderedOK'
  BY <1>1, <1>2 DEF ReadInv, ReadTypeOK, WindowOK, StatusOK, OrderedOK, Settled, fetch, Tasks
<1> DEFINE n == Len(given)
<1>4. DOMAIN given = 1 .. n /\ n \in Nat /\ \A j \in 1 .. n : given[j] \in Items
  BY GivenFacts DEF ReadInv
<1>5. \A i \in Items : task'[i] # "none" <=> task[i] # "none"
  BY <1>1, <1>2
<1>6. ASSUME NEW q \in 1 .. n, NEW j \in 1 .. n, q < j, task'[given[j]] # "queued"
      PROVE  task'[given[q]] \in {"written", "lost"}
  <2>1. given[q] # given[j]
    BY <1>4, <1>6 DEF ReadInv, WindowOK
  <2>2. CASE given[j] = k
    <3>1. given[q] \in Earlier(k)
      BY <1>4, <1>6, <2>2 DEF Earlier
    <3> QED BY <1>1, <1>2, <1>4, <2>1, <2>2, <3>1
  <2>3. CASE given[j] # k
    <3>1. task[given[q]] \in {"written", "lost"}
      BY <1>2, <1>4, <1>6, <2>3 DEF ReadInv, SinkOK
    <3> QED BY <1>1, <1>2, <1>4, <3>1
  <2> QED BY <2>2, <2>3
<1>7. \A i \in Items : task[i] = "written" => task'[i] = "written"
  BY <1>1, <1>2
<1>8. SinkOK'
  <2>1. given # <<>> => given[n] \in Items
    BY <1>4, GivenFacts DEF ReadInv
  <2> QED BY <1>1, <1>2, <1>4, <1>5, <1>6, <1>7, <2>1 DEF ReadInv, SinkOK, PendingIndex
<1> QED BY <1>3, <1>8 DEF ReadInv

LEMMA SinkEndsKeeps ==
  ASSUME ReadInv, NEW k \in Items, SinkEnds(k)
  PROVE  ReadInv'
<1>1. PICK s \in {"written", "lost"} : task' = [task EXCEPT ![k] = s]
  BY DEF SinkEnds
<1>2. /\ task[k] = "running"
      /\ UNCHANGED <<mode, source, fetch, started, window, gen, winner, given, user, pending>>
  BY DEF SinkEnds
<1>3. task'[k] = s /\ (\A i \in Items : i # k => task'[i] = task[i]) /\ mode = "completed"
  BY <1>1, <1>2 DEF ReadInv, ReadTypeOK, OrderedOK
<1>4. ReadTypeOK' /\ WindowOK' /\ StatusOK' /\ OrderedOK'
  BY <1>1, <1>2, <1>3 DEF ReadInv, ReadTypeOK, WindowOK, StatusOK, OrderedOK, Settled, fetch, Tasks
<1> DEFINE n == Len(given)
<1>5. DOMAIN given = 1 .. n /\ n \in Nat /\ \A j \in 1 .. n : given[j] \in Items
  BY GivenFacts DEF ReadInv
<1>6. \A i \in Items :
        /\ task'[i] # "none" <=> task[i] # "none"
        /\ task'[i] # "queued" => task[i] # "queued"
        /\ task[i] \in {"written", "lost"} => task'[i] = task[i]
  BY <1>2, <1>3
<1>7. SinkOK'
  <2>1. given # <<>> => given[n] \in Items
    BY <1>5, GivenFacts DEF ReadInv
  <2> QED BY <1>2, <1>3, <1>5, <1>6, <2>1 DEF ReadInv, SinkOK, PendingIndex
<1> QED BY <1>4, <1>7 DEF ReadInv

(* An article that is being asked for was started and not yet handed over. *)
LEMMA AskingIsInWindow ==
  ASSUME ReadInv, NEW i \in Items, status[i] = "asking"
  PROVE  i \in window
<1>1. i <= started
  BY Sizes DEF ReadInv, StatusOK, ReadTypeOK
<1> QED BY <1>1 DEF ReadInv, WindowOK, StatusOK

LEMMA FetchSettlesKeeps ==
  ASSUME ReadInv, NEW i \in Items, status[i] = "asking", NEW st \in {"ok", "failed"},
         NEW e \in {"none", "source", "checksum", "decode", "placement"},
         e = "source" => tried[i] = {} /\ st = "failed", FetchSettles(i, st, e),
         UNCHANGED <<mode, source, started, window, gen, given, user, writer>>
  PROVE  ReadInv'
<1>1. /\ status' = [status EXCEPT ![i] = st] /\ error' = [error EXCEPT ![i] = e]
      /\ winner' = (IF mode = "completed" /\ gen = "awaiting" /\ winner = 0 THEN i ELSE winner)
      /\ tried' = tried
  BY DEF FetchSettles
<1>2. /\ status'[i] = st /\ \A j \in Items : j # i => status'[j] = status[j]
      /\ error'[i] = e /\ \A j \in Items : j # i => error'[j] = error[j]
      /\ i \in window /\ i \in 0 .. K
  BY <1>1, AskingIsInWindow, Sizes DEF ReadInv, ReadTypeOK
<1>3. ReadTypeOK' /\ WindowOK'
  BY <1>1, <1>2 DEF ReadInv, ReadTypeOK, WindowOK, Statuses, writer
<1>4. DOMAIN given = 1 .. Len(given) /\ (\A j \in 1 .. Len(given) : given[j] \in Items)
      /\ window \in SUBSET Items
  BY GivenFacts DEF ReadInv, ReadTypeOK
<1>5. StatusOK'
  <2>1. \A j \in Items : status'[j] = "waiting" <=> j > started
    BY <1>2 DEF ReadInv, StatusOK
  <2>2. \A j \in DOMAIN given : status'[given[j]] = "ok"
    BY <1>2, <1>4, ZenonT(30) DEF ReadInv, StatusOK
  <2>3. \A j \in Items : error'[j] = "source" => tried[j] = {} /\ status'[j] = "failed"
    BY <1>2 DEF ReadInv, StatusOK
  <2>4. winner' # 0 => mode = "completed"
    BY <1>1 DEF ReadInv, StatusOK
  <2>5. ASSUME gen = "awaiting", winner' # 0 PROVE winner' \in window /\ Settled(status', winner')
    <3>1. CASE winner' = i
      BY <1>2, <3>1 DEF Settled
    <3>2. CASE winner' = winner /\ winner # i
      <4>1. winner \in window /\ winner \in Items /\ Settled(status, winner)
        BY <1>4, <2>5, <3>2 DEF ReadInv, StatusOK
      <4> QED BY <1>2, <3>2, <4>1 DEF Settled
    <3> QED BY <1>1, <3>1, <3>2
  <2> QED BY <1>1, <2>1, <2>2, <2>3, <2>4, <2>5 DEF StatusOK
<1>6. OrderedOK'
  BY <1>2 DEF ReadInv, OrderedOK, writer
<1>7. SinkOK'
  BY DEF ReadInv, SinkOK, PendingIndex, writer
<1> QED BY <1>3, <1>5, <1>6, <1>7 DEF ReadInv

LEMMA FetchKeeps ==
  ASSUME ReadInv, NEW i \in Items, FetchGoesOn(i)
  PROVE  ReadInv'
<1>1. /\ status[i] = "asking"
      /\ UNCHANGED <<mode, source, started, window, gen, given, user, writer>>
  BY DEF FetchGoesOn, BodyFails, BodyDecodes, BodyCorrupt
<1>2. CASE BodyFails(i)
  <2> DEFINE e == IF tried[i] = {} THEN "source" ELSE "checksum"
  <2>1. FetchSettles(i, "failed", e)
    BY <1>2 DEF BodyFails
  <2> QED BY <1>1, <2>1, FetchSettlesKeeps
<1>3. CASE BodyDecodes(i)
  <2>1. FetchSettles(i, "ok", "none") \/ \E e \in {"decode", "placement"} : FetchSettles(i, "failed", e)
    BY <1>3 DEF BodyDecodes
  <2> QED BY <1>1, <2>1, FetchSettlesKeeps
<1>4. CASE BodyCorrupt(i)
  <2>1. PICK s \in Answering(i) :
          \/ FetchSettles(i, "failed", "checksum")
          \/ /\ s \notin tried[i] \cup {"undefined"}
             /\ tried' = [tried EXCEPT ![i] = @ \cup {s}]
             /\ UNCHANGED <<status, error, winner>>
    BY <1>4 DEF BodyCorrupt
  <2>2. CASE FetchSettles(i, "failed", "checksum")
    BY <1>1, <2>2, FetchSettlesKeeps
  <2>3. CASE /\ s \notin tried[i] \cup {"undefined"}
             /\ tried' = [tried EXCEPT ![i] = @ \cup {s}]
             /\ UNCHANGED <<status, error, winner>>
    <3>1. (CHOOSE x \in Servers : TRUE) \in Servers
      BY ServersAssumption
    <3>2. s \in Servers
      BY <2>3, <3>1 DEF Answering, ReadInv, ReadTypeOK, Sources
    <3>3. /\ tried' \in [Items -> SUBSET Servers]
          /\ \A j \in Items : j # i => tried'[j] = tried[j]
      BY <2>3, <3>2 DEF ReadInv, ReadTypeOK
    <3>4. ReadTypeOK' /\ WindowOK'
      BY <1>1, <2>3, <3>3 DEF ReadInv, ReadTypeOK, WindowOK, writer
    <3>5. StatusOK'
      BY <1>1, <2>3, <3>3 DEF ReadInv, StatusOK, Settled
    <3> QED BY <1>1, <2>3, <3>4, <3>5 DEF ReadInv, OrderedOK, SinkOK, PendingIndex, writer
  <2> QED BY <2>1, <2>2, <2>3
<1> QED BY <1>2, <1>3, <1>4 DEF FetchGoesOn

(* Starting the articles up to n. *)
LEMMA StartFacts ==
  ASSUME ReadInv, NEW n \in started .. K, NEW gone \in SUBSET window, StartUpTo(n, gone)
  PROVE  /\ started' = n /\ n \in 0 .. K /\ UNCHANGED <<tried, error>>
         /\ status' \in [Items -> Statuses]
         /\ window' = (window \ gone) \cup (started + 1 .. n) /\ window' \in SUBSET Items
         /\ \A i \in Items : i \in window' <=> (i \in window /\ i \notin gone) \/ (started < i /\ i <= n)
         /\ \A i \in Items : status'[i] = "waiting" <=> i > n
         /\ \A i \in Items : i <= started => status'[i] = status[i]
<1> USE DEF ReadInv, ReadTypeOK
<1>1. /\ status' = [i \in Items |-> IF i \in started + 1 .. n
                      THEN (IF i \in Kept THEN "ok" ELSE "asking") ELSE status[i]]
      /\ started' = n /\ window' = (window \ gone) \cup (started + 1 .. n)
      /\ UNCHANGED <<tried, error>>
  BY DEF StartUpTo
<1>2. started \in Nat /\ n \in Nat /\ n <= K /\ started <= n
  BY Sizes
<1>3. \A i \in Items : i \in Nat /\ (i \in started + 1 .. n <=> started < i /\ i <= n)
  BY <1>2, Sizes
<1>4. started + 1 .. n \subseteq Items
  BY <1>2, Sizes
<1>5. \A i \in Items : status'[i] = "waiting" <=> i > n
  <2> SUFFICES ASSUME NEW i \in Items PROVE status'[i] = "waiting" <=> i > n
    OBVIOUS
  <2>1. CASE i \in started + 1 .. n
    BY <1>1, <1>2, <1>3, <2>1
  <2>2. CASE i \notin started + 1 .. n
    <3>1. status'[i] = status[i] /\ (status[i] = "waiting" <=> i > started)
      BY <1>1, <2>2 DEF StatusOK
    <3> QED BY <1>2, <1>3, <2>2, <3>1
  <2> QED BY <2>1, <2>2
<1>6. \A i \in Items : i <= started => status'[i] = status[i]
  BY <1>1, <1>2, <1>3
<1>7. status' \in [Items -> Statuses]
  BY <1>1 DEF Statuses
<1>8. n \in 0 .. K
  BY <1>2, Sizes
<1> QED BY <1>1, <1>3, <1>4, <1>5, <1>6, <1>7, <1>8

LEMMA BeginKeeps ==
  ASSUME ReadInv, Begin
  PROVE  ReadInv'
<1> DEFINE n == Least(K, Depth)
<1>1. /\ gen = "idle" /\ StartUpTo(n, {}) /\ gen' = "awaiting"
      /\ winner' = Race(status', window')
      /\ UNCHANGED <<mode, source, given, user, writer>>
  BY DEF Begin
<1>2. n \in 1 .. K /\ n <= Depth
  BY Sizes DEF Least
<1> HIDE DEF n
<1>3. started = 0 /\ given = <<>> /\ user = "pulling" /\ DOMAIN given = {}
  BY <1>1 DEF ReadInv, WindowOK
<1>4. window = {}
  <2>1. \A i \in Items : ~(i <= 0)
    BY Sizes
  <2> QED BY <1>3, <2>1 DEF ReadInv, WindowOK, ReadTypeOK
<1>5. n \in started .. K
  BY <1>2, <1>3, Sizes
<1>6. /\ started' = n /\ n \in 0 .. K /\ UNCHANGED <<tried, error>>
      /\ status' \in [Items -> Statuses]
      /\ window' = (window \ {}) \cup (started + 1 .. n) /\ window' \in SUBSET Items
      /\ \A i \in Items : status'[i] = "waiting" <=> i > n
      /\ \A i \in Items : i <= started => status'[i] = status[i]
  BY <1>1, <1>5, StartFacts
<1>7. window' = 1 .. n
  BY <1>2, <1>3, <1>4, <1>6
<1>8. winner' \in 0 .. K
      /\ (winner' # 0 => mode = "completed" /\ winner' \in window' /\ Settled(status', winner'))
  BY <1>1, <1>6, RaceWinner
<1>9. ReadTypeOK'
  BY <1>1, <1>6, <1>8 DEF ReadInv, ReadTypeOK, writer, Gens
<1>10. WindowOK'
  <2>1. IsFiniteSet(window') /\ Cardinality(window') <= Depth
    BY <1>2, <1>7, FS_Interval, Sizes
  <2>2. \A i \in Items : i <= n <=> i \in 1 .. n
    BY <1>2, Sizes
  <2>3. 1 \in window'
    BY <1>2, <1>7
  <2> QED BY <1>1, <1>3, <1>6, <1>7, <2>1, <2>2, <2>3 DEF WindowOK
<1>11. StatusOK'
  <2>1. \A i \in Items : error[i] # "source"
    BY <1>3, Sizes DEF ReadInv, StatusOK
  <2> QED BY <1>1, <1>3, <1>6, <1>8, <2>1 DEF StatusOK, Settled
<1>12. OrderedOK'
  BY <1>1, <1>3 DEF ReadInv, OrderedOK, writer
<1>13. SinkOK'
  BY <1>1, <1>3 DEF ReadInv, SinkOK, PendingIndex, writer
<1> QED BY <1>9, <1>10, <1>11, <1>12, <1>13 DEF ReadInv

LEMMA YieldKeeps ==
  ASSUME ReadInv, Yield
  PROVE  ReadInv'
<1> DEFINE a == Awaited
           n == Least(K, started + 1)
           len == Len(given)
<1>1. /\ Resumable /\ window # {} /\ status[a] = "ok" /\ StartUpTo(n, {a})
      /\ gen' = "yielded" /\ user' = "busy" /\ given' = Append(given, a)
      /\ task' = (IF mode = "completed" THEN [task EXCEPT ![a] = "queued"] ELSE task)
      /\ UNCHANGED <<mode, source, winner, pending>>
  BY DEF Yield
<1>2. /\ a \in window /\ a \in Items /\ gen = "awaiting" /\ user = "pulling"
      /\ mode = "ordered" => a = len + 1
  BY <1>1, AwaitedFacts
<1>3. /\ n \in started .. K
      /\ (started = K /\ n = started) \/ n = started + 1
  BY Sizes DEF Least, ReadInv, ReadTypeOK
<1> HIDE DEF a, n
<1>4. /\ started' = n /\ n \in 0 .. K /\ UNCHANGED <<tried, error>>
      /\ status' \in [Items -> Statuses]
      /\ window' = (window \ {a}) \cup (started + 1 .. n) /\ window' \in SUBSET Items
      /\ \A i \in Items : i \in window' <=> (i \in window /\ i \notin {a}) \/ (started < i /\ i <= n)
      /\ \A i \in Items : status'[i] = "waiting" <=> i > n
      /\ \A i \in Items : i <= started => status'[i] = status[i]
  BY <1>1, <1>2, <1>3, StartFacts
<1>5. /\ DOMAIN given = 1 .. len /\ len \in Nat
      /\ \A j \in 1 .. len : given[j] \in Items
  BY GivenFacts DEF ReadInv
<1>6. /\ given' \in Seq(Items) /\ Len(given') = len + 1
      /\ DOMAIN given' = 1 .. len + 1
      /\ \A j \in 1 .. len : given'[j] = given[j]
      /\ given'[len + 1] = a
      /\ \A j \in 1 .. len + 1 : j \in 1 .. len \/ j = len + 1
      /\ len + 1 \in 1 .. len + 1 /\ 1 .. len \subseteq 1 .. len + 1
  BY <1>1, <1>2, <1>5, GivenNext DEF ReadInv
<1>7. given' # <<>>
  BY <1>5, <1>6
<1> HIDE DEF len
<1>8. \A j \in 1 .. len : given[j] # a
  BY <1>2, <1>5 DEF ReadInv, WindowOK
<1>9. \A i \in Items : (\E j \in DOMAIN given' : given'[j] = i) <=> i = a \/ \E j \in DOMAIN given : given[j] = i
  BY <1>5, <1>6
<1>10. started \in Nat /\ n \in Nat /\ started <= n /\ (\A i \in Items : i \in Nat)
  BY <1>3, <1>4, Sizes DEF ReadInv, ReadTypeOK
<1>11. a <= started /\ \A j \in 1 .. len : given[j] <= started
  BY <1>2, <1>5 DEF ReadInv, WindowOK
<1>12. ReadTypeOK'
  BY <1>1, <1>2, <1>4, <1>6 DEF ReadInv, ReadTypeOK, Gens, Users, Tasks
<1>13. WindowOK'
  <2>1. \A i \in Items : i <= n <=> i \in window' \/ \E j \in DOMAIN given' : given'[j] = i
    <3> SUFFICES ASSUME NEW i \in Items
                 PROVE  i <= n <=> i \in window' \/ i = a \/ \E j \in DOMAIN given : given[j] = i
      BY <1>9
    <3>1. i <= n <=> i <= started \/ (started < i /\ i <= n)
      BY <1>10
    <3>2. i <= started <=> i \in window \/ \E j \in DOMAIN given : given[j] = i
      BY DEF ReadInv, WindowOK
    <3> QED BY <1>2, <1>4, <3>1, <3>2
  <2>2. \A j \in DOMAIN given' : given'[j] \notin window'
    <3>1. \A i \in Items : i <= started /\ (i \notin window \/ i = a) => i \notin window'
      BY <1>4, <1>10
    <3>2. \A j \in 1 .. len : given[j] \notin window
      BY <1>5 DEF ReadInv, WindowOK
    <3> QED BY <1>2, <1>5, <1>6, <1>11, <3>1, <3>2
  <2>3. \A i, j \in DOMAIN given' : given'[i] = given'[j] => i = j
    BY <1>5, <1>6, <1>8 DEF ReadInv, WindowOK
  <2>4. IsFiniteSet(window') /\ Cardinality(window') <= Depth
    <3>1. IsFiniteSet(window) /\ Cardinality(window) <= Depth /\ Cardinality(window) \in Nat
      BY FS_CardinalityType DEF ReadInv, WindowOK
    <3>2. IsFiniteSet(window \ {a}) /\ Cardinality(window \ {a}) = Cardinality(window) - 1
      BY <1>2, <3>1, FS_RemoveElement
    <3>3. CASE n = started
      <4>1. window' = window \ {a}
        BY <1>4, <1>10, <3>3
      <4> QED BY <3>1, <3>2, <4>1, Sizes
    <3>4. CASE n = started + 1
      <4>1. window' = (window \ {a}) \cup {n}
        BY <1>4, <1>10, <3>4
      <4>2. IsFiniteSet(window') /\ Cardinality(window') <= Cardinality(window \ {a}) + 1
        BY <3>1, <3>2, <4>1, FS_AddElement
      <4>3. Cardinality(window') \in Nat
        BY <4>2, FS_CardinalityType
      <4> QED BY <3>1, <3>2, <4>2, <4>3, Sizes
    <3> QED BY <1>3, <3>3, <3>4
  <2>5. started' = K \/ window' # {}
    <3>1. CASE n = started + 1
      <4>1. n \in Items /\ started < n /\ n <= n
        BY <1>4, <1>10, <3>1, Sizes
      <4> QED BY <1>4, <4>1
    <3> QED BY <1>3, <1>4, <3>1
  <2> QED BY <1>1, <1>4, <2>1, <2>2, <2>3, <2>4, <2>5 DEF WindowOK
<1>14. StatusOK'
  <2>1. \A j \in DOMAIN given' : status'[given'[j]] = "ok"
    <3>1. \A j \in 1 .. len : status[given[j]] = "ok"
      BY <1>5 DEF ReadInv, StatusOK
    <3> QED BY <1>1, <1>2, <1>4, <1>5, <1>6, <1>11, <3>1
  <2>2. \A i \in Items : error'[i] = "source" => tried'[i] = {} /\ status'[i] = "failed"
    <3> SUFFICES ASSUME NEW i \in Items, error[i] = "source"
                 PROVE  tried[i] = {} /\ status'[i] = "failed"
      BY <1>4
    <3>1. tried[i] = {} /\ status[i] = "failed"
      BY DEF ReadInv, StatusOK
    <3>2. ~(i > started)
      BY <3>1 DEF ReadInv, StatusOK
    <3>3. i <= started
      BY <1>10, <3>2
    <3> QED BY <1>4, <3>1, <3>3
  <2>3. winner' # 0 => mode' = "completed"
    BY <1>1 DEF ReadInv, StatusOK
  <2> QED BY <1>1, <1>4, <2>1, <2>2, <2>3 DEF StatusOK
<1>15. OrderedOK'
  BY <1>1, <1>2, <1>5, <1>6 DEF ReadInv, OrderedOK
<1>16. ASSUME mode = "completed" PROVE SinkOK'
  <2>1. task'[a] = "queued" /\ \A i \in Items : i # a => task'[i] = task[i]
    BY <1>1, <1>2, <1>16 DEF ReadInv, ReadTypeOK
  <2>2. \A i \in Items : task'[i] # "none" <=> \E j \in DOMAIN given' : given'[j] = i
    BY <1>9, <1>16, <2>1 DEF ReadInv, SinkOK
  <2>3. \A k, j \in 1 .. len + 1 :
          k < j /\ task'[given'[j]] # "queued" => task'[given'[k]] \in {"written", "lost"}
    <3> SUFFICES ASSUME NEW k \in 1 .. len + 1, NEW j \in 1 .. len + 1,
                        k < j, task'[given'[j]] # "queued"
                 PROVE  task'[given'[k]] \in {"written", "lost"}
      OBVIOUS
    <3>1. j \in 1 .. len
      BY <1>6, <2>1
    <3>2. k \in 1 .. len
      BY <1>5, <3>1
    <3> QED BY <1>5, <1>6, <1>8, <1>16, <2>1, <3>1, <3>2, SMTT(20) DEF ReadInv, SinkOK
  <2>4. /\ pending = (IF len = 0 THEN 0 ELSE given[len])
        /\ \A j \in 1 .. len : j < len => task[given[j]] = "written"
    BY <1>2, <1>5, <1>16 DEF ReadInv, SinkOK, PendingIndex, len
  <2>5. PendingIndex' = len
    <3>1. user' = "busy" /\ Len(given') - 1 = len
      BY <1>1, <1>5, <1>6
    <3> QED BY <3>1 DEF PendingIndex
  <2>6. pending' = IF PendingIndex' = 0 THEN 0 ELSE given'[PendingIndex']
    <3>1. len # 0 => len \in 1 .. len
      BY <1>5
    <3> QED BY <1>1, <1>6, <2>4, <2>5, <3>1
  <2>7. \A j \in 1 .. len + 1 : j < len => task'[given'[j]] = "written"
    <3> SUFFICES ASSUME NEW j \in 1 .. len + 1, j < len PROVE task'[given'[j]] = "written"
      OBVIOUS
    <3>1. j \in 1 .. len
      BY <1>5
    <3> QED BY <1>5, <1>6, <1>8, <2>1, <2>4, <3>1
  <2>8. Len(given') - 1 = len
    BY <1>5, <1>6
  <2> QED BY <1>1, <1>6, <1>7, <2>2, <2>3, <2>5, <2>6, <2>7, <2>8 DEF SinkOK
<1>17. SinkOK'
  BY <1>1, <1>16 DEF SinkOK
<1> QED BY <1>12, <1>13, <1>14, <1>15, <1>17 DEF ReadInv

-----------------------------------------------------------------------------
(* The invariant. *)

LEMMA InitEstablishes == Init => ReadInv
<1> SUFFICES ASSUME Init PROVE ReadInv
  OBVIOUS
<1> USE DEF Init
<1>1. given = <<>> /\ Len(given) = 0 /\ DOMAIN given = {} /\ given \in Seq(Items)
  BY EmptySeq
<1>2. ReadTypeOK
  BY <1>1, Sizes DEF ReadTypeOK, Statuses, Tasks, Gens, Users
<1>3. WindowOK
  <2>1. IsFiniteSet(window) /\ Cardinality(window) <= Depth
    BY FS_EmptySet, Sizes
  <2>2. \A i \in Items : ~(i <= 0)
    BY Sizes
  <2> QED BY <1>1, <2>1, <2>2 DEF WindowOK
<1>4. StatusOK
  <2>1. \A i \in Items : i > 0
    BY Sizes
  <2> QED BY <1>1, <2>1 DEF StatusOK
<1>5. OrderedOK /\ SinkOK
  BY <1>1 DEF OrderedOK, SinkOK, PendingIndex
<1> QED BY <1>2, <1>3, <1>4, <1>5 DEF ReadInv

LEMMA NextKeeps == ReadInv /\ [Next]_vars => ReadInv'
<1> SUFFICES ASSUME ReadInv, [Next]_vars PROVE ReadInv'
  OBVIOUS
<1>1. CASE Begin
  BY <1>1, BeginKeeps
<1>2. CASE Yield
  BY <1>2, YieldKeeps
<1>3. CASE Throw
  BY <1>3, ThrowKeeps
<1>4. CASE End
  BY <1>4, EndKeeps
<1>5. CASE ReaderPulls
  BY <1>5, PullKeeps DEF ReaderPulls
<1>6. CASE WriterContinues
  BY <1>6, PullKeeps DEF WriterContinues
<1>7. CASE ReaderCancels \/ WriterFails \/ WriterEnds
  BY <1>7, StopsKeeps
<1>8. ASSUME NEW i \in Items, SinkStarts(i) \/ SinkEnds(i) \/ FetchGoesOn(i) PROVE ReadInv'
  BY <1>8, SinkStartsKeeps, SinkEndsKeeps, FetchKeeps
<1>9. CASE UNCHANGED vars
  BY <1>9 DEF vars, fetch, writer, ReadInv, ReadTypeOK, WindowOK, StatusOK, Settled,
              OrderedOK, SinkOK, PendingIndex
<1> QED BY <1>1, <1>2, <1>3, <1>4, <1>5, <1>6, <1>7, <1>8, <1>9 DEF Next

(* Every state of every behaviour satisfies the inductive invariant: the    *)
(* window of prefetch.ts, the statuses of fetch.ts, the queue of write.ts.  *)
THEOREM ReadInvariant == Spec => []ReadInv
<1> QED BY InitEstablishes, NextKeeps, PTL DEF Spec

-----------------------------------------------------------------------------
(* What follows from it. *)

(* A part is given up to the source's error only if no checksum failed for  *)
(* it: the mismatch that provoked a retry is what the caller sees           *)
(* (fetch.ts:58).                                                           *)
THEOREM MismatchIsNotErased == Spec => []MismatchIsReported
<1>1. ReadInv => MismatchIsReported
  BY DEF ReadInv, StatusOK, MismatchIsReported
<1> QED BY <1>1, ReadInvariant, PTL

(* Read in order, the parts come in file order, and a failure is that of    *)
(* the next part of the file, however the fetches settled (prefetch.ts).    *)
THEOREM FailureIsInFileOrder == Spec => []FirstErrorInFileOrder
<1>1. ReadInv => FirstErrorInFileOrder
  BY DEF ReadInv, OrderedOK, StatusOK, FirstErrorInFileOrder
<1> QED BY <1>1, ReadInvariant, PTL

(* The mutex lets one write into the sink at a time, and every part is      *)
(* queued once, whatever failed before (models.ts:133-135, write.ts).       *)
THEOREM SinkTakesOneAtATime == Spec => []SinkIsSerial
<1>1. ReadInv => SinkIsSerial
  <2> SUFFICES ASSUME ReadInv PROVE SinkIsSerial
    OBVIOUS
  <2> DEFINE R == {i \in Items : task[i] = "running"}
  <2>1. \A i, j \in R : i = j
    <3> SUFFICES ASSUME NEW i \in R, NEW j \in R, i # j PROVE FALSE
      OBVIOUS
    <3>1. mode = "completed"
      BY DEF ReadInv, ReadTypeOK, OrderedOK
    <3>2. PICK k, l \in DOMAIN given : given[k] = i /\ given[l] = j
      BY <3>1 DEF ReadInv, SinkOK
    <3>3. k \in Nat /\ l \in Nat /\ k # l
      BY <3>2, GivenFacts DEF ReadInv
    <3>4. k < l \/ l < k
      BY <3>3
    <3> QED BY <3>1, <3>2, <3>4 DEF ReadInv, SinkOK
  <2>2. Cardinality(R) <= 1
    <3> HIDE DEF R
    <3>1. CASE R = {}
      BY <3>1, FS_EmptySet
    <3>2. CASE R # {}
      <4>1. PICK i : R = {i}
        BY <2>1, <3>2
      <4>2. Cardinality(R) = 1
        BY <4>1, FS_Singleton
      <4> QED BY <4>2
    <3> QED BY <3>1, <3>2
  <2>3. \A i, j \in DOMAIN given : i # j => given[i] # given[j]
    BY DEF ReadInv, WindowOK
  <2> QED BY <2>2, <2>3 DEF SinkIsSerial
<1> QED BY <1>1, ReadInvariant, PTL

(* A read that succeeds has handed over, or written, every part.            *)
THEOREM SuccessIsComplete == Spec => []DoneIsComplete
<1>1. ReadInv => DoneIsComplete
  <2> SUFFICES ASSUME ReadInv, user = "done"
               PROVE  IF mode = "ordered" THEN given = [i \in Items |-> i]
                      ELSE \A i \in Items : task[i] = "written"
    BY DEF DoneIsComplete
  <2> DEFINE n == Len(given)
  <2>1. DOMAIN given = 1 .. n /\ n \in Nat /\ \A j \in 1 .. n : given[j] \in Items
    BY GivenFacts DEF ReadInv
  <2> HIDE DEF n
  <2>2. started = K
    BY DEF ReadInv, WindowOK
  <2>3. \A i \in Items : \E j \in 1 .. n : given[j] = i
    <3>1. \A i \in Items : i <= K
      BY Sizes
    <3> QED BY <2>1, <2>2, <3>1 DEF ReadInv, WindowOK
  <2>4. CASE mode = "ordered"
    <3>1. \A j \in 1 .. n : given[j] = j
      BY <2>1, <2>4 DEF ReadInv, OrderedOK
    <3>2. 1 .. n = Items
      BY <2>1, <2>3, <3>1
    <3>3. given = [j \in DOMAIN given |-> given[j]]
      BY DEF ReadInv, ReadTypeOK
    <3> QED BY <2>1, <2>4, <3>1, <3>2, <3>3
  <2>5. CASE mode # "ordered"
    <3>1. mode = "completed"
      BY <2>5 DEF ReadInv, ReadTypeOK
    <3>2. \A j \in 1 .. n : j < n => task[given[j]] = "written"
      BY <2>1, <3>1 DEF ReadInv, SinkOK, PendingIndex, n
    <3>3. task[given[n]] = "written"
      BY <3>1 DEF ReadInv, SinkOK, n
    <3>4. \A j \in 1 .. n : j < n \/ j = n
      BY <2>1
    <3>5. \A j \in 1 .. n : task[given[j]] = "written"
      BY <3>2, <3>3, <3>4
    <3> QED BY <2>3, <2>5, <3>5
  <2> QED BY <2>4, <2>5
<1> QED BY <1>1, ReadInvariant, PTL

(* However slow the consumer, at most Depth articles are in flight or held  *)
(* for it, one is in its hands, and one more is being written               *)
(* (write.ts:27-30).                                                        *)
THEOREM MemoryStaysBounded == Spec => []MemoryIsBounded
<1>1. ReadInv => MemoryIsBounded
  <2> SUFFICES ASSUME ReadInv PROVE MemoryIsBounded
    OBVIOUS
  <2> DEFINE n == Len(given)
             W == {i \in window : status[i] = "ok"}
             T == {i \in Items : task[i] \in {"queued", "running"}}
  <2>1. DOMAIN given = 1 .. n /\ n \in Nat
    BY GivenFacts DEF ReadInv
  <2>2. IsFiniteSet(window) /\ Cardinality(window) <= Depth /\ Cardinality(window) \in Nat
    BY FS_CardinalityType DEF ReadInv, WindowOK
  <2>3. Held = W \cup T \cup (IF user = "busy" THEN {Current} ELSE {})
    BY DEF Held
  <2>4. CASE mode = "ordered"
    <3>1. T = {}
      BY <2>4 DEF ReadInv, OrderedOK
    <3>2. Held \in SUBSET (window \cup {Current})
      BY <2>3, <3>1
    <3>3. /\ IsFiniteSet(window \cup {Current})
          /\ Cardinality(window \cup {Current}) =
               IF Current \in window THEN Cardinality(window) ELSE Cardinality(window) + 1
      BY <2>2, FS_AddElement
    <3>4. Cardinality(Held) <= Cardinality(window \cup {Current}) /\ Cardinality(Held) \in Nat
      BY <3>2, <3>3, FS_Subset, FS_CardinalityType
    <3>5. Cardinality(Held) <= Depth + 1
      BY <2>2, <3>3, <3>4, Sizes
    <3> QED BY <2>2, <2>4, <3>5 DEF MemoryIsBounded
  <2>5. CASE mode # "ordered"
    <3> DEFINE p == given[n - 1]
               q == given[n]
               V == window \cup {p}
    <3>1. mode = "completed"
      BY <2>5 DEF ReadInv, ReadTypeOK
    <3>2. T \subseteq {p, q}
      <4> SUFFICES ASSUME NEW i \in Items, task[i] \in {"queued", "running"}
                   PROVE  i \in {p, q}
        OBVIOUS
      <4>1. PICK j \in 1 .. n : given[j] = i
        BY <2>1, <3>1 DEF ReadInv, SinkOK
      <4>2. ~(j < n - 1)
        BY <2>1, <3>1, <4>1 DEF ReadInv, SinkOK
      <4>3. j = n - 1 \/ j = n
        <5> HIDE DEF n
        <5> QED BY <2>1, <4>2
      <4> QED BY <4>1, <4>3
    <3>3. Held \in SUBSET (V \cup {q})
      BY <2>3, <3>2 DEF Current
    <3> HIDE DEF p, q
    <3>4. IsFiniteSet(V) /\ Cardinality(V) \in Nat /\ Cardinality(V) <= Cardinality(window) + 1
      <4>1. /\ IsFiniteSet(V)
            /\ Cardinality(V) = IF p \in window THEN Cardinality(window) ELSE Cardinality(window) + 1
        BY <2>2, FS_AddElement
      <4> QED BY <2>2, <4>1
    <3> HIDE DEF V
    <3>5. IsFiniteSet(V \cup {q}) /\ Cardinality(V \cup {q}) <= Cardinality(V) + 1
      <4>1. /\ IsFiniteSet(V \cup {q})
            /\ Cardinality(V \cup {q}) = IF q \in V THEN Cardinality(V) ELSE Cardinality(V) + 1
        BY <3>4, FS_AddElement
      <4> QED BY <3>4, <4>1
    <3>6. /\ Cardinality(Held) <= Cardinality(V \cup {q}) /\ Cardinality(Held) \in Nat
          /\ Cardinality(V \cup {q}) \in Nat
      BY <3>3, <3>5, FS_Subset, FS_CardinalityType
    <3>7. Cardinality(Held) <= Depth + 2
      BY <2>2, <3>4, <3>5, <3>6, Sizes
    <3> QED BY <2>2, <2>5, <3>7 DEF MemoryIsBounded
  <2> QED BY <2>4, <2>5
<1> QED BY <1>1, ReadInvariant, PTL
=============================================================================
