---------------------------- MODULE NntpMultiPool ----------------------------
(***************************************************************************)
(* The ordered list of servers of packages/nntp/src/multi-pool.ts and the  *)
(* failure rulings of multi-pool-failure.ts.                               *)
(*                                                                         *)
(* Server 1 is the primary.  A walk is one call of body, head, article or  *)
(* stat.  Between the answers of two servers a walk runs without an await, *)
(* so one step records an answer, rules on it, and asks the next candidate *)
(* or ends.  Other walks run between its steps and share the servers'      *)
(* health and the fatal error.  What a server's NntpPool answers is free:  *)
(* PoolContract says only that it answers each call once.                  *)
(***************************************************************************)
EXTENDS Integers, Sequences, FiniteSets, Functions

CONSTANTS
  N,          \* how many servers are configured
  Spillover,  \* the servers that may take overflow
  Walks,
  Exclusions, \* the values of options.exclude that callers use
  DownAfter   \* DOWN_AFTER, 3 in the code

Servers == 1 .. N
Primary == 1

ASSUME ServersAssumption == N \in Nat \ {0} /\ Spillover \subseteq Servers
ASSUME ExclusionsAssumption == Exclusions \subseteq SUBSET Servers
ASSUME DownAfterAssumption == DownAfter \in Nat \ {0}

(***************************************************************************)
(* What an attempt failed with, the `reason` of an Attempt:                *)
(* gap       430, the article is not here                                  *)
(* capacity  NntpCapacityError: the pool could open no connection at all   *)
(* auth      NntpAuthError                                                 *)
(* fault     a timeout, a lost connection, any other status                *)
(***************************************************************************)

VARIABLES
  pc,        \* new, asking, settled
  asking,    \* the server a walk awaits
  excluded,  \* options.exclude of the walk
  walk,      \* its WalkState
  result,    \* what the caller got
  doomed,    \* walks whose current question went to a destroyed pool
  down,      \* ServerEntry.down: why it left the rotation, or "up"
  strikes,   \* ServerEntry.consecutiveFailures
  fatal,     \* #fatal # null
  destroyed

vars == <<pc, asking, excluded, walk, result, doomed, down, strikes, fatal, destroyed>>
health == <<down, strikes, fatal>>

NewWalk == [requireSpillover |-> FALSE, firstCapacity |-> 0, attempts |-> <<>>]

Init ==
  /\ pc = [w \in Walks |-> "new"]
  /\ asking = [w \in Walks |-> 0]
  /\ excluded = [w \in Walks |-> {}]
  /\ walk = [w \in Walks |-> NewWalk]
  /\ result = [w \in Walks |-> "none"]
  /\ doomed = {}
  /\ down = [s \in Servers |-> "up"]
  /\ strikes = [s \in Servers |-> 0]
  /\ fatal = FALSE
  /\ destroyed = FALSE

-----------------------------------------------------------------------------
(* The loop of #run, from server i on, with the health the step leaves. *)

(* Operators named Bug... are the definition after them with one mistake. *)
BugAnyOverflow(i, ex, state, downNow) ==
  {s \in i .. N : downNow[s] = "up" /\ s \notin ex}

Candidates(i, ex, state, downNow) ==
  {s \in i .. N :
     /\ downNow[s] = "up"
     /\ s \notin ex
     /\ state.requireSpillover => s \in Spillover}

First(S) == CHOOSE s \in S : \A t \in S : s <= t

BugSomeGone(attempts) ==
  \E i \in DOMAIN attempts : attempts[i].reason = "gap"

AllGone(attempts) ==
  attempts # <<>> /\ \A i \in DOMAIN attempts : attempts[i].reason = "gap"

(* What #run throws when no candidate is left. *)
Verdict(state) ==
  CASE state.firstCapacity # 0 -> "capacity"
    [] state.firstCapacity = 0 /\ AllGone(state.attempts) -> "missing"
    [] OTHER -> "unavailable"

Settle(w, r) ==
  /\ pc' = [pc EXCEPT ![w] = "settled"]
  /\ asking' = [asking EXCEPT ![w] = 0]
  /\ result' = [result EXCEPT ![w] = r]
  /\ doomed' = doomed \ {w}

(* Ask the next candidate, or end the walk when there is none. *)
Proceed(w, i, ex, state) ==
  LET next == Candidates(i, ex, state, down') IN
    \/ /\ next # {}
       /\ pc' = [pc EXCEPT ![w] = "asking"]
       /\ asking' = [asking EXCEPT ![w] = First(next)]
       /\ doomed' = IF destroyed THEN doomed \cup {w} ELSE doomed \ {w}
       /\ UNCHANGED result
    \/ next = {} /\ Settle(w, Verdict(state))

-----------------------------------------------------------------------------

BeginFatal(w) ==
  /\ pc[w] = "new"
  /\ fatal
  /\ Settle(w, "fatal")
  /\ UNCHANGED <<excluded, walk, health, destroyed>>

(* #fatal is not looked at. *)
BugBegin(w, ex) ==
  /\ pc[w] = "new"
  /\ excluded' = [excluded EXCEPT ![w] = ex]
  /\ UNCHANGED <<walk, health, destroyed>>
  /\ Proceed(w, 1, ex, NewWalk)

Begin(w, ex) ==
  /\ pc[w] = "new"
  /\ ~fatal
  /\ excluded' = [excluded EXCEPT ![w] = ex]
  /\ UNCHANGED <<walk, health, destroyed>>
  /\ Proceed(w, 1, ex, NewWalk)

Answered(w) ==
  /\ pc[w] = "asking"
  /\ w \notin doomed
  /\ strikes' = [strikes EXCEPT ![asking[w]] = 0]
  /\ Settle(w, "served")
  /\ UNCHANGED <<excluded, walk, down, fatal, destroyed>>

(* rule() records the attempt before it classifies it. *)
Recorded(w, e) ==
  [walk[w] EXCEPT !.attempts = Append(@, [server |-> asking[w], reason |-> e])]

GoOn(w, state) ==
  /\ walk' = [walk EXCEPT ![w] = state]
  /\ Proceed(w, asking[w] + 1, excluded[w], state)
  /\ UNCHANGED <<excluded, fatal, destroyed>>

(* A missing article counts as a strike. *)
BugGapStrikes(w) ==
  /\ strikes' = [strikes EXCEPT ![asking[w]] = @ + 1]
  /\ down' = [down EXCEPT ![asking[w]] =
                IF strikes[asking[w]] + 1 >= DownAfter THEN "fault" ELSE @]
  /\ GoOn(w, Recorded(w, "gap"))

Gap(w) ==
  /\ UNCHANGED <<down, strikes>>
  /\ GoOn(w, Recorded(w, "gap"))

(* A later full server's error replaces the first one's. *)
BugLastCapacity(w) ==
  /\ UNCHANGED <<down, strikes>>
  /\ GoOn(w, [Recorded(w, "capacity") EXCEPT !.requireSpillover = TRUE,
                                             !.firstCapacity = asking[w]])

AtCapacity(w) ==
  /\ UNCHANGED <<down, strikes>>
  /\ GoOn(w, [Recorded(w, "capacity") EXCEPT
                !.requireSpillover = TRUE,
                !.firstCapacity = IF @ = 0 THEN asking[w] ELSE @])

(* The primary's bad login fails this walk at once, and later ones at start. *)
PrimaryAuth(w) ==
  /\ asking[w] = Primary
  /\ fatal' = TRUE
  /\ walk' = [walk EXCEPT ![w] = Recorded(w, "auth")]
  /\ Settle(w, "fatal")
  /\ UNCHANGED <<excluded, down, strikes, destroyed>>

BackupAuth(w) ==
  /\ asking[w] # Primary
  /\ down' = [down EXCEPT ![asking[w]] = "auth"]
  /\ UNCHANGED strikes
  /\ GoOn(w, Recorded(w, "auth"))

Fault(w) ==
  /\ strikes' = [strikes EXCEPT ![asking[w]] = @ + 1]
  /\ down' = [down EXCEPT ![asking[w]] =
                IF strikes[asking[w]] + 1 >= DownAfter THEN "fault" ELSE @]
  /\ GoOn(w, Recorded(w, "fault"))

(* A destroyed pool answers every new question with a connection error. *)
Refused(w) ==
  /\ pc[w] = "asking"
  /\ \/ w \notin doomed /\ (Gap(w) \/ AtCapacity(w) \/ PrimaryAuth(w) \/ BackupAuth(w))
     \/ Fault(w)

Destroy ==
  /\ ~destroyed
  /\ destroyed' = TRUE
  /\ UNCHANGED <<pc, asking, excluded, walk, result, doomed, health>>

Next ==
  \/ \E w \in Walks :
       \/ BeginFatal(w)
       \/ \E ex \in Exclusions : Begin(w, ex)
       \/ Answered(w)
       \/ Refused(w)
  \/ Destroy

Spec == Init /\ [][Next]_vars

-----------------------------------------------------------------------------
(* Properties. *)

Asked(w) == {walk[w].attempts[i].server : i \in DOMAIN walk[w].attempts}
Said(w, s, e) ==
  \E i \in DOMAIN walk[w].attempts : walk[w].attempts[i] = [server |-> s, reason |-> e]

(* Overflow is opt-in: whoever is asked after a server was found full, by   *)
(* this walk and at whatever distance, allows spillover; and a walk never   *)
(* turns back or asks what its caller excluded (multi-pool.ts:158-160, 177-183).     *)
OverflowIsOptIn ==
  \A w \in Walks :
    LET trail == IF asking[w] = 0 THEN walk[w].attempts
                 ELSE Append(walk[w].attempts, [server |-> asking[w], reason |-> "gap"])
    IN \A j \in DOMAIN trail :
         /\ trail[j].server \notin excluded[w]
         /\ \A i \in 1 .. j - 1 :
              /\ trail[i].server < trail[j].server
              /\ trail[i].reason = "capacity" => trail[j].server \in Spillover

(* A walk that ends "missing" has heard 430 from every server that is still *)
(* in the rotation and was not excluded: no server that could be asked was  *)
(* skipped, however the walks interleave (multi-pool.ts:201-214).           *)
MissingMeansAllReadyAsked ==
  \A w \in Walks : result[w] = "missing" =>
    \A s \in Servers : Said(w, s, "gap") \/ s \in excluded[w] \/ down[s] # "up"

(* The capacity error a caller sees is that of the earliest full server of  *)
(* the walk, never a later one's (multi-pool.ts:161-164).                   *)
CapacityBlamesEarliest ==
  \A w \in Walks : result[w] = "capacity" =>
    /\ Said(w, walk[w].firstCapacity, "capacity")
    /\ \A s \in Servers : Said(w, s, "capacity") => walk[w].firstCapacity <= s

(* A server leaves the rotation only on the evidence the rulings ask for:   *)
(* DownAfter faults, of as many walks, or a backup's refused login; gaps    *)
(* and capacity never cost a server its place, nor the primary's login.     *)
DownIsEarned ==
  \A s \in Servers :
    /\ down[s] = "fault" => Cardinality({w \in Walks : Said(w, s, "fault")}) >= DownAfter
    /\ down[s] = "auth" => s # Primary /\ \E w \in Walks : Said(w, s, "auth")

(* Once fatal, no walk that starts is served or asks anyone, and a server   *)
(* that is down is never asked again (multi-pool.ts:170-172, 178-180).      *)
NothingNewAfterFatalOrDown ==
  [][\A w \in Walks :
       asking'[w] # 0 /\ asking'[w] # asking[w] =>
         /\ pc[w] = "new" => ~fatal
         /\ down[asking'[w]] = "up"]_vars

(* "Every request rejects with that error rather than quietly running on    *)
(* the backups" (multi-server design, 294-296; multi-pool.ts:80-84): once    *)
(* fatal, a walk in progress asks no further server either.                  *)
FatalStopsEveryWalk ==
  [][\A w \in Walks : fatal /\ asking'[w] # asking[w] => asking'[w] = 0]_vars

(* 430 "on any configured server" only when every configured server said so *)
(* (multi-pool.ts:201-205, errors.ts:124-133).                              *)
MissingMeansEveryServerSaidSo ==
  \A w \in Walks : result[w] = "missing" =>
    \A s \in Servers \ excluded[w] : Said(w, s, "gap")
=============================================================================
