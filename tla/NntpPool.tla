------------------------------ MODULE NntpPool ------------------------------
(***************************************************************************)
(* The lazily filled connection pool of packages/nntp/src/pool.ts.         *)
(*                                                                         *)
(* JavaScript runs one handler at a time, so a step of this module is the  *)
(* code between two awaits: the synchronous prefix of a call, or what runs *)
(* when an open or a command settles.  Between two steps anything else may *)
(* run, including destroy().                                               *)
(*                                                                         *)
(* A client is the NntpClient object of one connection.  Destroyed clients *)
(* are never looked at again, so a name is free for reuse once its client  *)
(* is neither idle nor attached to a request.  Which of several idle       *)
(* clients is popped makes no difference to any client or request, so the  *)
(* stack #idle is a set; #waiting keeps its order.                         *)
(***************************************************************************)
EXTENDS Integers, FiniteSets, Sequences, Functions

CONSTANTS
  Requests,     \* one element per call of body, head, article or stat
  Clients,      \* names for NntpClient objects
  Connections,  \* the configured options.connections
  NoClient

(* options.connections as the constructor clamps it. *)
Configured == IF Connections > 1 THEN Connections ELSE 1

ASSUME ConnectionsAssumption == Connections \in Int

(* Enough names that a pool at its limit never runs out of new objects: one  *)
(* more than it may have connections, because the replacement of a dead one  *)
(* is constructed while the request it failed still holds it.                *)
ASSUME ClientsAssumption ==
  /\ IsFiniteSet(Clients)
  /\ Cardinality(Clients) > Configured
  /\ NoClient \notin Clients

VARIABLES
  pc,         \* where each request is
  client,     \* the connection a request is opening or using
  outcome,    \* how a settled request ended
  idle,       \* #idle
  waiting,    \* #waiting, oldest first
  open,       \* #open
  limit,      \* #limit
  destroyed,  \* #destroyed
  failures    \* the kinds of error in #failures

vars == <<pc, client, outcome, idle, waiting, open, limit, destroyed, failures>>

(* NntpCapacityError, and every other way connect() or authenticate() fails. *)
OpenErrors == {"capacity", "fault"}

(***************************************************************************)
(* opening   in #acquire, awaiting #openConnection                         *)
(* parked    its waiter is in #waiting                                     *)
(* replacing its waiter is held by #replaceFor, awaiting #openConnection   *)
(* holding   has a connection: its command is being run                    *)
(***************************************************************************)
Attached == {"opening", "replacing", "holding"}
Settled  == {"done", "failed"}
Phases   == {"new", "parked"} \cup Attached \cup Settled

AttachedRequests == {r \in Requests : pc[r] \in Attached}
Live  == idle \cup {client[r] : r \in AttachedRequests}
Fresh == Clients \ Live

TypeOK ==
  /\ pc \in [Requests -> Phases]
  /\ client \in [Requests -> Clients \cup {NoClient}]
  /\ outcome \in [Requests -> {"none", "served", "command", "destroyed"} \cup OpenErrors]
  /\ idle \subseteq Clients
  /\ waiting \in Seq(Requests)
  /\ open \in Int
  /\ limit \in Int
  /\ destroyed \in BOOLEAN
  /\ failures \subseteq OpenErrors

Init ==
  /\ pc = [r \in Requests |-> "new"]
  /\ client = [r \in Requests |-> NoClient]
  /\ outcome = [r \in Requests |-> "none"]
  /\ idle = {}
  /\ waiting = <<>>
  /\ open = 0
  /\ limit = Configured
  /\ destroyed = FALSE
  /\ failures = {}

-----------------------------------------------------------------------------
(* Building blocks: what a step does to the requests it touches.           *)
(* Operators named Bug... are no part of the specification: each is the    *)
(* definition after it with one plausible mistake, and shows that some     *)
(* property below notices it.                                              *)

Attach(r, phase, c) ==
  /\ pc' = [pc EXCEPT ![r] = phase]
  /\ client' = [client EXCEPT ![r] = c]

(* Reject every request of S with error e; each lets go of its client. *)
RejectAll(S, e) ==
  /\ pc' = [q \in Requests |-> IF q \in S THEN "failed" ELSE pc[q]]
  /\ client' = [q \in Requests |-> IF q \in S THEN NoClient ELSE client[q]]
  /\ outcome' = [q \in Requests |-> IF q \in S THEN e ELSE outcome[q]]

(* Parks without looking at the idle connections. *)
BugWaitForConnection(r) ==
  /\ Attach(r, "parked", NoClient)
  /\ waiting' = Append(waiting, r)
  /\ UNCHANGED idle

(* #waitForConnection: look at the idle connections before parking. *)
WaitForConnection(r) ==
  \/ /\ \E c \in idle : Attach(r, "holding", c) /\ idle' = idle \ {c}
     /\ UNCHANGED waiting
  \/ /\ idle = {}
     /\ Attach(r, "parked", NoClient)
     /\ waiting' = Append(waiting, r)
     /\ UNCHANGED idle

-----------------------------------------------------------------------------
(* A call up to its first await: #withConnection and #acquire. *)

CallAfterDestroy(r) ==
  /\ pc[r] = "new"
  /\ destroyed
  /\ RejectAll({r}, "destroyed")
  /\ UNCHANGED <<idle, waiting, open, limit, destroyed, failures>>

(* One connection too many. *)
BugCallOpensOverLimit(r) ==
  /\ pc[r] = "new"
  /\ ~destroyed
  /\ idle = {}
  /\ open <= limit
  /\ \E c \in Fresh : Attach(r, "opening", c)
  /\ open' = open + 1
  /\ UNCHANGED <<outcome, idle, waiting, limit, destroyed, failures>>

(* #destroyed is not looked at. *)
BugCallOpensDestroyed(r) ==
  /\ pc[r] = "new"
  /\ idle = {}
  /\ open < limit
  /\ \E c \in Fresh : Attach(r, "opening", c)
  /\ open' = open + 1
  /\ UNCHANGED <<outcome, idle, waiting, limit, destroyed, failures>>

CallOpens(r) ==
  /\ pc[r] = "new"
  /\ ~destroyed
  /\ idle = {}
  /\ open < limit
  /\ \E c \in Fresh : Attach(r, "opening", c)
  /\ open' = open + 1
  /\ UNCHANGED <<outcome, idle, waiting, limit, destroyed, failures>>

CallWaits(r) ==
  /\ pc[r] = "new"
  /\ ~destroyed
  /\ idle # {} \/ open >= limit
  /\ WaitForConnection(r)
  /\ UNCHANGED <<outcome, open, limit, destroyed, failures>>

(* #acquire's open settles. *)

AcquireOpened(r) ==
  /\ pc[r] = "opening"
  /\ Attach(r, "holding", client[r])
  /\ UNCHANGED <<outcome, idle, waiting, open, limit, destroyed, failures>>

(* Shrinks on the last connection too, to a limit of 0. *)
BugShrinksToNone(r) ==
  /\ pc[r] = "opening"
  /\ open' = open - 1
  /\ failures' = failures \cup {"capacity"}
  /\ limit' = open - 1
  /\ WaitForConnection(r)
  /\ UNCHANGED <<outcome, destroyed>>

(* The refused attempt is subtracted twice. *)
BugShrinksTwice(r) ==
  /\ pc[r] = "opening"
  /\ open - 2 > 0
  /\ open' = open - 1
  /\ failures' = failures \cup {"capacity"}
  /\ limit' = open - 2
  /\ WaitForConnection(r)
  /\ UNCHANGED <<outcome, destroyed>>

(* Refused for capacity while others are open: shrink, then wait. *)
AcquireShrinks(r) ==
  /\ pc[r] = "opening"
  /\ open - 1 > 0
  /\ open' = open - 1
  /\ failures' = failures \cup {"capacity"}
  /\ limit' = open - 1
  /\ WaitForConnection(r)
  /\ UNCHANGED <<outcome, destroyed>>

(* A capacity refusal fails the request whatever else is open. *)
BugCapacityFails(r, e) ==
  /\ pc[r] = "opening"
  /\ open' = open - 1
  /\ failures' = failures \cup {e}
  /\ RejectAll({r}, e)
  /\ UNCHANGED <<idle, waiting, limit, destroyed>>

(* The open failed and the error is the request's own; if nothing is left  *)
(* it is also the error of everyone parked.                                *)
AcquireFails(r, e) ==
  /\ pc[r] = "opening"
  /\ ~(e = "capacity" /\ open - 1 > 0)
  /\ open' = open - 1
  /\ failures' = failures \cup {e}
  /\ IF open - 1 = 0 /\ idle = {}
       THEN /\ RejectAll({r} \cup Range(waiting), e)
            /\ waiting' = <<>>
       ELSE /\ RejectAll({r}, e)
            /\ UNCHANGED waiting
  /\ UNCHANGED <<idle, limit, destroyed>>

-----------------------------------------------------------------------------
(* The command settles: #release on success, #discard on any error. *)

(* The reference is dropped before it is pushed. *)
BugReleaseCleared(r) ==
  /\ waiting = <<>>
  /\ pc' = [pc EXCEPT ![r] = "done"]
  /\ client' = [client EXCEPT ![r] = NoClient]
  /\ idle' = idle \cup {client'[r]}
  /\ UNCHANGED waiting

ReleaseIdle(r) ==
  /\ waiting = <<>>
  /\ idle' = idle \cup {client[r]}
  /\ pc' = [pc EXCEPT ![r] = "done"]
  /\ client' = [client EXCEPT ![r] = NoClient]
  /\ UNCHANGED waiting

(* Handed to the waiter and pushed on #idle as well. *)
BugReleaseTwice(r) ==
  /\ waiting # <<>>
  /\ pc' = [pc EXCEPT ![r] = "done", ![Head(waiting)] = "holding"]
  /\ client' = [client EXCEPT ![r] = NoClient, ![Head(waiting)] = client[r]]
  /\ waiting' = Tail(waiting)
  /\ idle' = idle \cup {client[r]}

ReleaseToWaiter(r) ==
  /\ waiting # <<>>
  /\ pc' = [pc EXCEPT ![r] = "done", ![Head(waiting)] = "holding"]
  /\ client' = [client EXCEPT ![r] = NoClient, ![Head(waiting)] = client[r]]
  /\ waiting' = Tail(waiting)
  /\ UNCHANGED idle

CommandSucceeds(r) ==
  /\ pc[r] = "holding"
  /\ ReleaseIdle(r) \/ ReleaseToWaiter(r)
  /\ outcome' = [outcome EXCEPT ![r] = "served"]
  /\ UNCHANGED <<open, limit, destroyed, failures>>

(* #open keeps counting the dead connection. *)
BugDiscardUncounted(r) ==
  /\ waiting = <<>>
  /\ pc' = [pc EXCEPT ![r] = "failed"]
  /\ client' = [client EXCEPT ![r] = NoClient]
  /\ UNCHANGED <<waiting, open>>

DiscardOnly(r) ==
  /\ waiting = <<>>
  /\ open' = open - 1
  /\ pc' = [pc EXCEPT ![r] = "failed"]
  /\ client' = [client EXCEPT ![r] = NoClient]
  /\ UNCHANGED waiting

(* #open goes down for the dead connection and up for the replacement. *)
DiscardAndReplace(r) ==
  /\ waiting # <<>>
  /\ pc' = [pc EXCEPT ![r] = "failed", ![Head(waiting)] = "replacing"]
  /\ \E c \in Fresh :
       client' = [client EXCEPT ![r] = NoClient, ![Head(waiting)] = c]
  /\ waiting' = Tail(waiting)
  /\ UNCHANGED open

CommandFails(r) ==
  /\ pc[r] = "holding"
  /\ DiscardOnly(r) \/ DiscardAndReplace(r)
  /\ outcome' = [outcome EXCEPT ![r] = "command"]
  /\ UNCHANGED <<idle, limit, destroyed, failures>>

-----------------------------------------------------------------------------
(* #replaceFor settles. *)

ReplaceOpened(r) ==
  /\ pc[r] = "replacing"
  /\ Attach(r, "holding", client[r])
  /\ UNCHANGED <<outcome, idle, waiting, open, limit, destroyed, failures>>

ReplaceTakesIdle(r) ==
  /\ idle # {}
  /\ \E c \in idle : Attach(r, "holding", c) /\ idle' = idle \ {c}
  /\ UNCHANGED <<outcome, waiting>>

(* Only the replaced caller is told. *)
BugGivesUpAlone(r, e) ==
  /\ idle = {}
  /\ open - 1 = 0
  /\ RejectAll({r}, e)
  /\ UNCHANGED <<idle, waiting>>

(* Nothing is open and nothing can be opened: everyone waiting is told so. *)
ReplaceGivesUp(r, e) ==
  /\ idle = {}
  /\ open - 1 = 0
  /\ RejectAll({r} \cup Range(waiting), e)
  /\ waiting' = <<>>
  /\ UNCHANGED idle

(* The waiter is not put back. *)
BugRequeueForgotten(r) ==
  /\ idle = {}
  /\ open - 1 # 0
  /\ Attach(r, "parked", NoClient)
  /\ UNCHANGED <<outcome, idle, waiting>>

ReplaceRequeues(r) ==
  /\ idle = {}
  /\ open - 1 # 0
  /\ Attach(r, "parked", NoClient)
  /\ waiting' = <<r>> \o waiting
  /\ UNCHANGED <<outcome, idle>>

ReplaceFails(r, e) ==
  /\ pc[r] = "replacing"
  /\ open' = open - 1
  /\ failures' = failures \cup {e}
  /\ ReplaceTakesIdle(r) \/ ReplaceGivesUp(r, e) \/ ReplaceRequeues(r)
  /\ UNCHANGED <<limit, destroyed>>

-----------------------------------------------------------------------------
(* destroy(): only the idle connections and the parked callers; what is    *)
(* being opened or used is left to finish.                                 *)
Destroy ==
  /\ destroyed' = TRUE
  /\ idle' = {}
  /\ open' = 0
  /\ RejectAll(Range(waiting), "destroyed")
  /\ waiting' = <<>>
  /\ UNCHANGED <<limit, failures>>

Call(r)         == CallAfterDestroy(r) \/ CallOpens(r) \/ CallWaits(r)
AcquireSettles(r) ==
  AcquireOpened(r) \/ AcquireShrinks(r) \/ \E e \in OpenErrors : AcquireFails(r, e)
ReplaceSettles(r) ==
  ReplaceOpened(r) \/ \E e \in OpenErrors : ReplaceFails(r, e)
CommandSettles(r) == CommandSucceeds(r) \/ CommandFails(r)

Next ==
  \/ \E r \in Requests :
       Call(r) \/ AcquireSettles(r) \/ ReplaceSettles(r) \/ CommandSettles(r)
  \/ Destroy

(***************************************************************************)
(* Commands end: each has a timeout (client.ts, NntpTimeoutError).  An     *)
(* open ends because each of its steps does: the login commands time out   *)
(* too, and the operating system settles a connect and a TLS handshake.    *)
(* Nothing forces anyone to make a call or to destroy the pool.            *)
(***************************************************************************)
Fairness ==
  \A r \in Requests :
    /\ WF_vars(AcquireSettles(r))
    /\ WF_vars(ReplaceSettles(r))
    /\ WF_vars(CommandSettles(r))

Spec == Init /\ [][Next]_vars /\ Fairness

-----------------------------------------------------------------------------
(* Properties. *)

(* No connection serves two callers: a client is idle or belongs to exactly *)
(* one request that is opening or using it (pool.ts #release, #discard,     *)
(* #replaceFor hand clients over without a lock).                           *)
OneOwnerPerClient ==
  /\ \A r \in Requests : client[r] # NoClient <=> pc[r] \in Attached
  /\ \A r \in AttachedRequests : client[r] \notin idle
  /\ \A r, q \in AttachedRequests : client[r] = client[q] => r = q

(* A parked caller is queued exactly once and nobody else is queued, through *)
(* the shift of #release and #discard and the unshift of #replaceFor.        *)
QueueIsParked ==
  /\ \A i, j \in DOMAIN waiting : waiting[i] = waiting[j] => i = j
  /\ Range(waiting) = {r \in Requests : pc[r] = "parked"}

(* Until destroy(), #open counts exactly the connections that exist: idle,   *)
(* in use and still opening, over every += and -= of #acquire, #discard and  *)
(* #replaceFor.  Every later decision on capacity depends on it.             *)
OpenCountsLive == ~destroyed => open = Cardinality(Live)

(* The pool never has more connections, opening ones included, than its      *)
(* limit, and the limit never exceeds the configured one nor drops to 0 --   *)
(* even while opens that started before destroy() are still settling.        *)
LiveWithinLimit ==
  /\ Cardinality(Live) <= limit
  /\ limit \in 1 .. Configured

(* Parking looks at #idle first and #release at #waiting first, so no caller *)
(* sleeps while a connection sits idle (pool.ts:193-202, 234-241).         *)
NobodyParkedBesideIdle == idle = {} \/ waiting = <<>>

(* No lost wake-up: until destroy(), while anyone is parked some connection  *)
(* is opening or in use whose settling will wake or reject a parked caller.  *)
ParkedWillBeWoken ==
  ~destroyed /\ waiting # <<>> => AttachedRequests # {}

(* destroy() zeroes #open under the connections that are still out, so what *)
(* they give back later takes it below zero and never above.                *)
DestroyedCountsDown == destroyed => open <= 0

(* All of it together is inductive: no part is preserved on its own. *)
PoolInv ==
  /\ TypeOK
  /\ OneOwnerPerClient
  /\ QueueIsParked
  /\ OpenCountsLive
  /\ DestroyedCountsDown
  /\ LiveWithinLimit
  /\ NobodyParkedBesideIdle
  /\ ParkedWillBeWoken

(* The limit is learned, only downwards, and only from a capacity refusal.   *)
LimitOnlyLearnedDown ==
  [][limit' # limit => limit' < limit /\ "capacity" \in failures']_vars

(* A caller is told "at capacity", and a parked or replaced-for caller is    *)
(* failed at all, only when the pool is left with no connection that could   *)
(* have served it (pool.ts:164-179, 271-276; multi-pool-failure.ts:105).     *)
FailedOnlyWhenNothingLive ==
  [][\A r \in Requests :
       /\ pc[r] # "failed" /\ pc'[r] = "failed"
       /\ pc[r] \in {"parked", "replacing"} \/ outcome'[r] = "capacity"
       => Live' = {} \/ destroyed']_vars

(* The promise to callers, connections hidden: what NntpMultiPool relies on. *)
ServicePhase(r) ==
  CASE pc[r] = "new" -> "new"
    [] pc[r] = "holding" -> "using"
    [] pc[r] \in Settled -> "gone"
    [] OTHER -> "waiting"

Contract == INSTANCE PoolContract WITH
  MaxPermits <- Configured,
  phase <- [r \in Requests |-> ServicePhase(r)],
  result <- outcome,
  permits <- limit,
  closed <- destroyed

(* The pool implements PoolContract: admission within the limit, exactly one *)
(* outcome per call, refusals of the parked and for capacity only when       *)
(* nobody is being served.                                                   *)
ContractSpec == Contract!Spec

(* Every call settles unless the pool is destroyed: no interleaving of       *)
(* refusals, dead connections and releases leaves a caller parked for ever.  *)
CallsSettle ==
  \A r \in Requests : pc[r] # "new" ~> pc[r] \in Settled \/ destroyed

(* "A caller waiting for a connection can always be woken, or told why not   *)
(* ... or destroyed" (nntp README:180-182), read for a destroyed pool too.   *)
CallsSettleThroughDestroy ==
  \A r \in Requests : pc[r] # "new" ~> pc[r] \in Settled
=============================================================================
