--------------------------- MODULE NntpPool_proofs ---------------------------
(***************************************************************************)
(* Proofs about NntpPool, for every set of requests, every configured      *)
(* number of connections and every large enough set of client names, and   *)
(* about the pool against a provider with any cap (ProviderCap).           *)
(***************************************************************************)
EXTENDS ProviderCap, FiniteSetTheorems, SequenceTheorems, TLAPS

-----------------------------------------------------------------------------
(* Queues without repetition: what shift, push and unshift do to them. *)

Distinct(s) == \A i, j \in DOMAIN s : s[i] = s[j] => i = j

(* push: the queue gains one member, at its end. *)
LEMMA PushFacts ==
  ASSUME NEW S, NEW s \in Seq(S), NEW r \in S
  PROVE  /\ Append(s, r) \in Seq(S)
         /\ Append(s, r) # <<>>
         /\ Range(Append(s, r)) = Range(s) \cup {r}
         /\ Distinct(s) /\ r \notin Range(s) => Distinct(Append(s, r))
<1> DEFINE t == Append(s, r)
<1>1. /\ t \in Seq(S)
      /\ t # <<>>
      /\ Len(t) = Len(s) + 1
      /\ \A i \in 1 .. Len(s) : t[i] = s[i]
      /\ t[Len(s) + 1] = r
  BY AppendProperties
<1>2. /\ Len(s) \in Nat /\ DOMAIN s = 1 .. Len(s) /\ DOMAIN t = 1 .. Len(s) + 1
  BY <1>1, LenProperties
<1>3. Range(t) = Range(s) \cup {r}
  BY <1>1, <1>2 DEF Range
<1>4. Distinct(s) /\ r \notin Range(s) => Distinct(t)
  BY <1>1, <1>2 DEF Distinct, Range
<1> QED BY <1>1, <1>3, <1>4

(* shift: the queue loses its head and nothing else. *)
LEMMA ShiftFacts ==
  ASSUME NEW S, NEW s \in Seq(S), s # <<>>, Distinct(s)
  PROVE  /\ Head(s) \in S
         /\ Head(s) \in Range(s)
         /\ Tail(s) \in Seq(S)
         /\ Range(Tail(s)) = Range(s) \ {Head(s)}
         /\ Distinct(Tail(s))
<1> DEFINE t == Tail(s)
<1>1. /\ Head(s) \in S
      /\ t \in Seq(S)
      /\ Len(t) = Len(s) - 1
      /\ \A i \in 1 .. Len(t) : t[i] = s[i + 1]
  BY HeadTailProperties
<1>2. /\ Len(s) \in Nat \ {0}
      /\ DOMAIN s = 1 .. Len(s)
      /\ DOMAIN t = 1 .. Len(s) - 1
  BY <1>1, LenProperties, EmptySeq
<1>3. Head(s) = s[1]
  OBVIOUS
<1>4. Head(s) \in Range(s)
  BY <1>2, <1>3 DEF Range
<1>5. Range(t) \subseteq Range(s) \ {Head(s)}
  BY <1>1, <1>2, <1>3 DEF Range, Distinct
<1>6. Range(s) \ {Head(s)} \subseteq Range(t)
  <2> SUFFICES ASSUME NEW i \in DOMAIN s, s[i] # Head(s)
               PROVE  s[i] \in Range(t)
    BY DEF Range
  <2>1. i - 1 \in DOMAIN t /\ t[i - 1] = s[i]
    BY <1>1, <1>2, <1>3
  <2> QED BY <2>1 DEF Range
<1>7. Distinct(t)
  BY <1>1, <1>2 DEF Distinct
<1> QED BY <1>1, <1>4, <1>5, <1>6, <1>7

(* unshift: the queue gains one member, at its head. *)
LEMMA UnshiftFacts ==
  ASSUME NEW S, NEW s \in Seq(S), NEW r \in S
  PROVE  /\ <<r>> \o s \in Seq(S)
         /\ <<r>> \o s # <<>>
         /\ Range(<<r>> \o s) = Range(s) \cup {r}
         /\ Distinct(s) /\ r \notin Range(s) => Distinct(<<r>> \o s)
<1> DEFINE t == <<r>> \o s
<1>0. <<r>> \in Seq(S) /\ Len(<<r>>) = 1 /\ <<r>>[1] = r
  OBVIOUS
<1>1. /\ t \in Seq(S)
      /\ Len(t) = Len(s) + 1
      /\ \A i \in 1 .. Len(s) + 1 : t[i] = IF i <= 1 THEN r ELSE s[i - 1]
  BY <1>0, ConcatProperties
<1>2. /\ Len(s) \in Nat /\ DOMAIN s = 1 .. Len(s) /\ DOMAIN t = 1 .. Len(s) + 1
  BY <1>1, LenProperties
<1>3. t # <<>>
  BY <1>1, <1>2
<1>4. t[1] = r /\ \A i \in 1 .. Len(s) : t[i + 1] = s[i]
  BY <1>1, <1>2
<1>5. Range(t) \subseteq Range(s) \cup {r}
  BY <1>1, <1>2 DEF Range
<1>6. Range(s) \cup {r} \subseteq Range(t)
  <2>1. r \in Range(t)
    BY <1>2, <1>4 DEF Range
  <2>2. ASSUME NEW i \in DOMAIN s PROVE s[i] \in Range(t)
    <3>1. i + 1 \in DOMAIN t /\ t[i + 1] = s[i]
      BY <1>2, <1>4
    <3> QED BY <3>1 DEF Range
  <2> QED BY <2>1, <2>2 DEF Range
<1>7. Distinct(s) /\ r \notin Range(s) => Distinct(t)
  BY <1>1, <1>2 DEF Distinct, Range
<1> QED BY <1>1, <1>3, <1>5, <1>6, <1>7

LEMMA EmptyQueueFacts ==
  /\ Range(<<>>) = {}
  /\ Distinct(<<>>)
  /\ \A S : \A s \in Seq(S) : Range(s) = {} => s = <<>>
<1>1. Range(<<>>) = {} /\ Distinct(<<>>)
  BY DEF Range, Distinct
<1>2. ASSUME NEW S, NEW s \in Seq(S), s # <<>> PROVE Range(s) # {}
  <2>1. 1 \in DOMAIN s
    BY <1>2, LenProperties, EmptySeq
  <2> QED BY <2>1 DEF Range
<1> QED BY <1>1, <1>2

-----------------------------------------------------------------------------
(* Type correctness. *)

LEMMA InitTypeOK == Init => TypeOK
<1>1. <<>> \in Seq(Requests) /\ Configured \in Int
  BY EmptySeq, ConnectionsAssumption DEF Configured
<1> SUFFICES ASSUME Init PROVE TypeOK
  OBVIOUS
<1>2. /\ pc \in [Requests -> Phases]
      /\ client \in [Requests -> Clients \cup {NoClient}]
      /\ outcome \in [Requests -> {"none", "served", "command", "destroyed"} \cup OpenErrors]
  BY DEF Init, Phases
<1>3. /\ idle \subseteq Clients
      /\ failures \subseteq OpenErrors
      /\ open \in Int /\ limit \in Int
      /\ waiting \in Seq(Requests)
  BY <1>1 DEF Init
<1>4. destroyed \in BOOLEAN
  BY DEF Init
<1> QED BY <1>2, <1>3, <1>4 DEF TypeOK

LEMMA RejectAllType ==
  ASSUME TypeOK, NEW S, NEW e \in {"destroyed"} \cup OpenErrors, RejectAll(S, e)
  PROVE  /\ pc' \in [Requests -> Phases]
         /\ client' \in [Requests -> Clients \cup {NoClient}]
         /\ outcome' \in [Requests -> {"none", "served", "command", "destroyed"} \cup OpenErrors]
BY DEF RejectAll, TypeOK, Phases, Settled

LEMMA WaitType ==
  ASSUME TypeOK, NEW r \in Requests, WaitForConnection(r)
  PROVE  /\ pc' \in [Requests -> Phases]
         /\ client' \in [Requests -> Clients \cup {NoClient}]
         /\ idle' \subseteq Clients
         /\ waiting' \in Seq(Requests)
BY PushFacts, SMTT(20) DEF WaitForConnection, Attach, TypeOK, Phases, Attached

LEMMA NextTypeOK == TypeOK /\ OneOwnerPerClient /\ [Next]_vars => TypeOK'
<1> SUFFICES ASSUME TypeOK, OneOwnerPerClient, [Next]_vars PROVE TypeOK'
  OBVIOUS
<1> USE DEF TypeOK
<1>0. /\ <<>> \in Seq(Requests)
      /\ waiting # <<>> => Head(waiting) \in Requests /\ Tail(waiting) \in Seq(Requests)
  BY EmptySeq, HeadTailProperties
<1>1. ASSUME NEW r \in Requests, CallAfterDestroy(r) PROVE TypeOK'
  BY <1>1, RejectAllType DEF CallAfterDestroy
<1>2. ASSUME NEW r \in Requests, CallOpens(r) PROVE TypeOK'
  BY <1>2 DEF CallOpens, Attach, Fresh, Phases, Attached
<1>3. ASSUME NEW r \in Requests, CallWaits(r) PROVE TypeOK'
  BY <1>3, WaitType DEF CallWaits
<1>4. ASSUME NEW r \in Requests, AcquireOpened(r) PROVE TypeOK'
  BY <1>4 DEF AcquireOpened, Attach, Phases, Attached
<1>5. ASSUME NEW r \in Requests, AcquireShrinks(r) PROVE TypeOK'
  BY <1>5, WaitType DEF AcquireShrinks, OpenErrors
<1>6. ASSUME NEW r \in Requests, NEW e \in OpenErrors, AcquireFails(r, e) PROVE TypeOK'
  <2>1. PICK S : RejectAll(S, e)
    BY <1>6 DEF AcquireFails
  <2>2. waiting' \in Seq(Requests)
    BY <1>0, <1>6 DEF AcquireFails
  <2>3. failures' \subseteq OpenErrors /\ open' \in Int
    BY <1>6 DEF AcquireFails
  <2>4. /\ pc' \in [Requests -> Phases]
        /\ client' \in [Requests -> Clients \cup {NoClient}]
        /\ outcome' \in [Requests -> {"none", "served", "command", "destroyed"} \cup OpenErrors]
    BY <2>1, RejectAllType
  <2> QED BY <1>6, <2>2, <2>3, <2>4 DEF AcquireFails
<1>7. ASSUME NEW r \in Requests, CommandSucceeds(r) PROVE TypeOK'
  <2>1. CASE ReleaseIdle(r)
    <3>1. client[r] \in Clients
      BY <1>7 DEF CommandSucceeds, OneOwnerPerClient, Attached
    <3> QED BY <1>7, <2>1, <3>1 DEF CommandSucceeds, ReleaseIdle, Phases, Attached, Settled
  <2>2. CASE ReleaseToWaiter(r)
    BY <1>0, <1>7, <2>2 DEF CommandSucceeds, ReleaseToWaiter, Phases, Attached, Settled
  <2> QED BY <1>7, <2>1, <2>2 DEF CommandSucceeds
<1>8. ASSUME NEW r \in Requests, CommandFails(r) PROVE TypeOK'
  <2>1. CASE DiscardOnly(r)
    BY <1>8, <2>1 DEF CommandFails, DiscardOnly, Phases, Settled
  <2>2. CASE DiscardAndReplace(r)
    BY <1>0, <1>8, <2>2
       DEF CommandFails, DiscardAndReplace, Fresh, Phases, Attached, Settled
  <2> QED BY <1>8, <2>1, <2>2 DEF CommandFails
<1>9. ASSUME NEW r \in Requests, ReplaceOpened(r) PROVE TypeOK'
  BY <1>9 DEF ReplaceOpened, Attach, Phases, Attached
<1>10. ASSUME NEW r \in Requests, NEW e \in OpenErrors, ReplaceFails(r, e) PROVE TypeOK'
  <2>1. CASE ReplaceTakesIdle(r)
    BY <1>10, <2>1 DEF ReplaceFails, ReplaceTakesIdle, Attach, Phases, Attached
  <2>2. CASE ReplaceGivesUp(r, e)
    <3>1. PICK S : RejectAll(S, e)
      BY <2>2 DEF ReplaceGivesUp
    <3>2. failures' \subseteq OpenErrors /\ open' \in Int
      BY <1>10 DEF ReplaceFails
    <3>3. /\ pc' \in [Requests -> Phases]
          /\ client' \in [Requests -> Clients \cup {NoClient}]
          /\ outcome' \in [Requests -> {"none", "served", "command", "destroyed"} \cup OpenErrors]
      BY <3>1, RejectAllType
    <3> QED BY <1>0, <1>10, <2>2, <3>2, <3>3 DEF ReplaceFails, ReplaceGivesUp
  <2>3. CASE ReplaceRequeues(r)
    BY <1>10, <2>3, UnshiftFacts DEF ReplaceFails, ReplaceRequeues, Attach, Phases
  <2> QED BY <1>10, <2>1, <2>2, <2>3 DEF ReplaceFails
<1>11. ASSUME Destroy PROVE TypeOK'
  BY <1>0, <1>11, RejectAllType DEF Destroy
<1>12. CASE UNCHANGED vars
  BY <1>12 DEF vars
<1> QED
  BY <1>1, <1>2, <1>3, <1>4, <1>5, <1>6, <1>7, <1>8, <1>9, <1>10, <1>11, <1>12
     DEF Next, Call, AcquireSettles, ReplaceSettles, CommandSettles

-----------------------------------------------------------------------------
(* The connections that exist, and how many. *)

LEMMA LiveFacts ==
  ASSUME TypeOK, OneOwnerPerClient
  PROVE  /\ Live \subseteq Clients
         /\ IsFiniteSet(Live)
         /\ Cardinality(Live) \in Nat
         /\ Cardinality(Live) = 0 <=> Live = {}
         /\ \A c \in Live : Cardinality(Live \ {c}) = Cardinality(Live) - 1
         /\ \A c \in Fresh : Cardinality(Live \cup {c}) = Cardinality(Live) + 1
         /\ \A S : /\ Cardinality(Live \ S) \in Nat
                  /\ Cardinality(Live \ S) <= Cardinality(Live)
         /\ Live \ {NoClient} = Live
<1>1. Live \subseteq Clients
  BY DEF TypeOK, OneOwnerPerClient, Live, AttachedRequests
<1>2. IsFiniteSet(Live)
  BY <1>1, ClientsAssumption, FS_Subset
<1>3. Cardinality(Live) \in Nat
  BY <1>2, FS_CardinalityType
<1>4. Cardinality(Live) = 0 <=> Live = {}
  BY <1>2, FS_EmptySet
<1>5. ASSUME NEW c \in Live PROVE Cardinality(Live \ {c}) = Cardinality(Live) - 1
  BY <1>2, FS_RemoveElement
<1>6. ASSUME NEW c \in Fresh PROVE Cardinality(Live \cup {c}) = Cardinality(Live) + 1
  BY <1>2, FS_AddElement DEF Fresh
<1>7. ASSUME NEW S
      PROVE  Cardinality(Live \ S) \in Nat /\ Cardinality(Live \ S) <= Cardinality(Live)
  <2>1. Live \ S \subseteq Live
    OBVIOUS
  <2>2. IsFiniteSet(Live \ S) /\ Cardinality(Live \ S) <= Cardinality(Live)
    BY <1>2, <2>1, FS_Subset
  <2> QED BY <2>2, FS_CardinalityType
<1>8. Live \ {NoClient} = Live
  BY <1>1, ClientsAssumption
<1> QED BY <1>1, <1>2, <1>3, <1>4, <1>5, <1>6, <1>7, <1>8

(* Parking or taking an idle connection: the request lets go of what it had. *)
LEMMA WaitStep ==
  ASSUME PoolInv, NEW r \in Requests, pc[r] \in {"new", "opening"}, WaitForConnection(r)
  PROVE  /\ OneOwnerPerClient'
         /\ QueueIsParked'
         /\ NobodyParkedBesideIdle'
         /\ Live' = Live \ {client[r]}
<1> USE DEF PoolInv, TypeOK
<1>1. CASE idle # {}
  <2>1. PICK c \in idle : Attach(r, "holding", c) /\ idle' = idle \ {c} /\ UNCHANGED waiting
    BY <1>1 DEF WaitForConnection
  <2>2. /\ pc' = [pc EXCEPT ![r] = "holding"]
        /\ client' = [client EXCEPT ![r] = c]
        /\ c \in Clients /\ c # NoClient
    BY <2>1, ClientsAssumption DEF Attach
  <2>3. OneOwnerPerClient'
    BY <2>1, <2>2 DEF OneOwnerPerClient, AttachedRequests, Attached
  <2>4. QueueIsParked'
    BY <2>1, <2>2 DEF QueueIsParked
  <2>5. Live' = Live \ {client[r]}
    BY <2>1, <2>2, ClientsAssumption DEF Live, AttachedRequests, OneOwnerPerClient, Attached
  <2> QED BY <1>1, <2>1, <2>3, <2>4, <2>5 DEF NobodyParkedBesideIdle
<1>2. CASE idle = {}
  <2>1. /\ pc' = [pc EXCEPT ![r] = "parked"]
        /\ client' = [client EXCEPT ![r] = NoClient]
        /\ waiting' = Append(waiting, r)
        /\ idle' = {}
    BY <1>2 DEF WaitForConnection, Attach
  <2>2. OneOwnerPerClient'
    BY <1>2, <2>1 DEF OneOwnerPerClient, AttachedRequests, Attached
  <2>3. r \notin Range(waiting) /\ Distinct(waiting)
    BY DEF QueueIsParked, Distinct
  <2>4. Distinct(waiting') /\ Range(waiting') = Range(waiting) \cup {r}
    BY <2>1, <2>3, PushFacts
  <2>5. QueueIsParked'
    BY <2>1, <2>4 DEF QueueIsParked, Distinct
  <2>6. Live' = Live \ {client[r]}
    BY <1>2, <2>1, ClientsAssumption DEF Live, AttachedRequests, OneOwnerPerClient, Attached
  <2> QED BY <2>1, <2>2, <2>5, <2>6 DEF NobodyParkedBesideIdle
<1> QED BY <1>1, <1>2

(* Rejecting requests: they own nothing any more, the others keep theirs. *)
LEMMA RejectStep ==
  ASSUME PoolInv, NEW S, NEW e, S \subseteq Requests, RejectAll(S, e), idle' \subseteq idle
  PROVE  /\ OneOwnerPerClient'
         /\ Live' = idle' \cup {client[q] : q \in AttachedRequests \ S}
         /\ AttachedRequests' = AttachedRequests \ S
         /\ {q \in Requests : pc'[q] = "parked"} = {q \in Requests : pc[q] = "parked"} \ S
<1> USE DEF PoolInv, TypeOK
<1>1. \A q \in Requests :
        /\ pc'[q] = IF q \in S THEN "failed" ELSE pc[q]
        /\ client'[q] = IF q \in S THEN NoClient ELSE client[q]
  BY DEF RejectAll
<1>2. AttachedRequests' = AttachedRequests \ S
  BY <1>1 DEF AttachedRequests, Attached
<1>3. OneOwnerPerClient'
  BY <1>1, <1>2 DEF OneOwnerPerClient, AttachedRequests, Attached
<1>4. Live' = idle' \cup {client[q] : q \in AttachedRequests \ S}
  <2>1. {client'[q] : q \in AttachedRequests'} = {client[q] : q \in AttachedRequests \ S}
    BY <1>1, <1>2 DEF AttachedRequests
  <2> QED BY <2>1 DEF Live
<1>5. {q \in Requests : pc'[q] = "parked"} = {q \in Requests : pc[q] = "parked"} \ S
  BY <1>1
<1> QED BY <1>2, <1>3, <1>4, <1>5

-----------------------------------------------------------------------------
(* The inductive invariant, one lemma per handler. *)

Counts == OpenCountsLive /\ DestroyedCountsDown /\ LiveWithinLimit

LEMMA InitPoolInv == Init => PoolInv
<1> SUFFICES ASSUME Init PROVE PoolInv
  OBVIOUS
<1>1. Live = {} /\ AttachedRequests = {}
  BY DEF Init, Live, AttachedRequests, Attached
<1>2. OneOwnerPerClient
  BY <1>1 DEF Init, OneOwnerPerClient, Attached
<1>3. QueueIsParked
  BY EmptyQueueFacts DEF Init, QueueIsParked, Distinct
<1>4. Counts
  BY <1>1, FS_EmptySet, ConnectionsAssumption
     DEF Init, Counts, OpenCountsLive, DestroyedCountsDown, LiveWithinLimit, Configured
<1>5. NobodyParkedBesideIdle /\ ParkedWillBeWoken
  BY DEF Init, NobodyParkedBesideIdle, ParkedWillBeWoken
<1> QED BY <1>2, <1>3, <1>4, <1>5, InitTypeOK DEF PoolInv, Counts

(* Steps that only move a request between the phases that own its client. *)
LEMMA OpenedStep ==
  ASSUME PoolInv, TypeOK', NEW r \in Requests, AcquireOpened(r) \/ ReplaceOpened(r)
  PROVE  PoolInv' /\ Live' = Live
<1> USE DEF PoolInv, TypeOK
<1>1. /\ pc[r] \in {"opening", "replacing"}
      /\ pc' = [pc EXCEPT ![r] = "holding"]
      /\ client' = [client EXCEPT ![r] = client[r]]
      /\ UNCHANGED <<idle, waiting, open, limit, destroyed>>
  BY DEF AcquireOpened, ReplaceOpened, Attach
<1>2. client' = client /\ AttachedRequests' = AttachedRequests
  BY <1>1 DEF AttachedRequests, Attached
<1>3. OneOwnerPerClient'
  BY <1>1, <1>2 DEF OneOwnerPerClient, AttachedRequests, Attached
<1>4. QueueIsParked'
  BY <1>1 DEF QueueIsParked
<1>5. Live' = Live
  BY <1>1, <1>2 DEF Live
<1>6. Counts'
  BY <1>1, <1>5 DEF Counts, OpenCountsLive, DestroyedCountsDown, LiveWithinLimit
<1>7. NobodyParkedBesideIdle' /\ ParkedWillBeWoken'
  BY <1>1, <1>2 DEF NobodyParkedBesideIdle, ParkedWillBeWoken
<1> QED BY <1>3, <1>4, <1>5, <1>6, <1>7 DEF Counts

LEMMA CallAfterDestroyStep ==
  ASSUME PoolInv, TypeOK', NEW r \in Requests, CallAfterDestroy(r)
  PROVE  PoolInv' /\ Live' = Live
<1> USE DEF PoolInv
<1>1. /\ pc[r] = "new" /\ destroyed
      /\ RejectAll({r}, "destroyed")
      /\ UNCHANGED <<idle, waiting, open, limit, destroyed>>
  BY DEF CallAfterDestroy
<1>2. /\ OneOwnerPerClient'
      /\ Live' = idle \cup {client[q] : q \in AttachedRequests \ {r}}
      /\ {q \in Requests : pc'[q] = "parked"} = {q \in Requests : pc[q] = "parked"} \ {r}
  BY <1>1, RejectStep
<1>3. r \notin AttachedRequests
  BY <1>1 DEF AttachedRequests, Attached
<1>4. Live' = Live
  BY <1>2, <1>3 DEF Live
<1>5. QueueIsParked'
  BY <1>1, <1>2 DEF QueueIsParked
<1>6. Counts'
  BY <1>1, <1>4 DEF Counts, OpenCountsLive, DestroyedCountsDown, LiveWithinLimit
<1>7. NobodyParkedBesideIdle' /\ ParkedWillBeWoken'
  BY <1>1 DEF NobodyParkedBesideIdle, ParkedWillBeWoken
<1> QED BY <1>2, <1>4, <1>5, <1>6, <1>7 DEF Counts

LEMMA CallOpensStep ==
  ASSUME PoolInv, TypeOK', NEW r \in Requests, CallOpens(r)
  PROVE  PoolInv' /\ Live \subseteq Live'
<1> USE DEF PoolInv, TypeOK
<1>1. PICK c \in Fresh : Attach(r, "opening", c)
  BY DEF CallOpens
<1>2. /\ pc[r] = "new" /\ ~destroyed /\ open < limit
      /\ pc' = [pc EXCEPT ![r] = "opening"]
      /\ client' = [client EXCEPT ![r] = c]
      /\ open' = open + 1
      /\ UNCHANGED <<idle, waiting, limit, destroyed>>
      /\ c \in Clients /\ c # NoClient
  BY <1>1, ClientsAssumption DEF CallOpens, Attach, Fresh
<1>3. \A q \in AttachedRequests : client[q] # c
  BY DEF Fresh, Live
<1>4. c \notin idle
  BY DEF Fresh, Live
<1>5. AttachedRequests' = AttachedRequests \cup {r} /\ r \notin AttachedRequests
  BY <1>2 DEF AttachedRequests, Attached
<1>6. OneOwnerPerClient'
  BY <1>2, <1>3, <1>4, <1>5 DEF OneOwnerPerClient, AttachedRequests, Attached
<1>7. QueueIsParked'
  BY <1>2 DEF QueueIsParked
<1>8. Live' = Live \cup {c}
  <2>1. {client'[q] : q \in AttachedRequests'} = {client[q] : q \in AttachedRequests} \cup {c}
    BY <1>2, <1>5 DEF AttachedRequests
  <2> QED BY <1>2, <2>1 DEF Live
<1>9. Cardinality(Live') = Cardinality(Live) + 1
  BY <1>8, LiveFacts
<1>10. Counts'
  BY <1>2, <1>9, LiveFacts
     DEF Counts, OpenCountsLive, DestroyedCountsDown, LiveWithinLimit
<1>11. NobodyParkedBesideIdle' /\ ParkedWillBeWoken'
  BY <1>2, <1>5 DEF NobodyParkedBesideIdle, ParkedWillBeWoken
<1> QED BY <1>6, <1>7, <1>8, <1>10, <1>11 DEF Counts

LEMMA CallWaitsStep ==
  ASSUME PoolInv, TypeOK', NEW r \in Requests, CallWaits(r)
  PROVE  PoolInv' /\ Live' = Live
<1> USE DEF PoolInv
<1>1. /\ pc[r] = "new" /\ ~destroyed
      /\ idle # {} \/ open >= limit
      /\ WaitForConnection(r)
      /\ UNCHANGED <<open, limit, destroyed>>
  BY DEF CallWaits
<1>2. /\ OneOwnerPerClient' /\ QueueIsParked' /\ NobodyParkedBesideIdle'
      /\ Live' = Live \ {client[r]}
  BY <1>1, WaitStep
<1>3. Live' = Live
  BY <1>1, <1>2, LiveFacts DEF OneOwnerPerClient, Attached
<1>4. Counts'
  BY <1>1, <1>3 DEF Counts, OpenCountsLive, DestroyedCountsDown, LiveWithinLimit
<1>5. Live # {}
  <2>1. CASE idle # {}
    BY <2>1 DEF Live
  <2>2. CASE open >= limit
    <3>1. open = Cardinality(Live) /\ limit >= 1
      BY <1>1 DEF OpenCountsLive, LiveWithinLimit, TypeOK
    <3>2. Cardinality(Live) # 0
      BY <2>2, <3>1 DEF TypeOK
    <3> QED BY <3>2, LiveFacts
  <2> QED BY <1>1, <2>1, <2>2
<1>6. ParkedWillBeWoken'
  BY <1>1, <1>2, <1>3, <1>5 DEF ParkedWillBeWoken, NobodyParkedBesideIdle, Live
<1> QED BY <1>2, <1>3, <1>4, <1>6 DEF Counts

LEMMA AcquireShrinksStep ==
  ASSUME PoolInv, TypeOK', NEW r \in Requests, AcquireShrinks(r)
  PROVE  PoolInv' /\ Live' = Live \ {client[r]}
<1> USE DEF PoolInv
<1>1. /\ pc[r] = "opening"
      /\ open - 1 > 0
      /\ open' = open - 1
      /\ limit' = open - 1
      /\ WaitForConnection(r)
      /\ UNCHANGED destroyed
  BY DEF AcquireShrinks
<1>2. /\ OneOwnerPerClient' /\ QueueIsParked' /\ NobodyParkedBesideIdle'
      /\ Live' = Live \ {client[r]}
  BY <1>1, WaitStep
<1>3. client[r] \in Live
  BY <1>1 DEF Live, AttachedRequests, Attached
<1>4. ~destroyed /\ open = Cardinality(Live)
  BY <1>1 DEF DestroyedCountsDown, OpenCountsLive, TypeOK
<1>5. Cardinality(Live') = open - 1
  BY <1>2, <1>3, <1>4, LiveFacts
<1>6. Counts'
  BY <1>1, <1>4, <1>5, LiveFacts, ConnectionsAssumption
     DEF Counts, OpenCountsLive, DestroyedCountsDown, LiveWithinLimit, Configured, TypeOK
<1>7. Live' # {}
  BY <1>1, <1>5, FS_EmptySet
<1>8. ParkedWillBeWoken'
  BY <1>2, <1>7 DEF ParkedWillBeWoken, NobodyParkedBesideIdle, Live
<1> QED BY <1>2, <1>6, <1>8 DEF Counts

(* Taking one attached request away takes exactly its client away. *)
LEMMA DropFacts ==
  ASSUME PoolInv, NEW r \in AttachedRequests
  PROVE  /\ client[r] \in Live
         /\ client[r] \notin idle
         /\ idle \cup {client[q] : q \in AttachedRequests \ {r}} = Live \ {client[r]}
         /\ Cardinality(Live \ {client[r]}) = Cardinality(Live) - 1
<1>1. client[r] \in Live /\ client[r] \notin idle
  BY DEF PoolInv, OneOwnerPerClient, Live
<1>2. idle \cup {client[q] : q \in AttachedRequests \ {r}} = Live \ {client[r]}
  BY <1>1 DEF PoolInv, OneOwnerPerClient, Live
<1>3. Cardinality(Live \ {client[r]}) = Cardinality(Live) - 1
  BY <1>1, LiveFacts DEF PoolInv
<1> QED BY <1>1, <1>2, <1>3

(* A dead connection is taken off #open and off the live ones alike. *)
LEMMA OneLessCounts ==
  ASSUME PoolInv, NEW r \in AttachedRequests,
         Live' = Live \ {client[r]}, open' = open - 1, UNCHANGED <<limit, destroyed>>
  PROVE  Counts'
<1>1. Cardinality(Live') = Cardinality(Live) - 1 /\ Cardinality(Live) \in Nat
  BY DropFacts, LiveFacts DEF PoolInv
<1> QED
  BY <1>1 DEF PoolInv, TypeOK, Counts, OpenCountsLive, DestroyedCountsDown, LiveWithinLimit

LEMMA AcquireFailsStep ==
  ASSUME PoolInv, TypeOK', NEW r \in Requests, NEW e \in OpenErrors, AcquireFails(r, e)
  PROVE  PoolInv'
<1> USE DEF PoolInv
<1>1. /\ pc[r] = "opening" /\ r \in AttachedRequests
      /\ open' = open - 1
      /\ UNCHANGED <<idle, limit, destroyed>>
  BY DEF AcquireFails, AttachedRequests, Attached
<1>2. Range(waiting) \subseteq Requests \ AttachedRequests
  BY DEF QueueIsParked, AttachedRequests, Attached
<1>3. CASE open - 1 = 0 /\ idle = {}
  <2> DEFINE S == {r} \cup Range(waiting)
  <2>1. RejectAll(S, e) /\ waiting' = <<>>
    BY <1>3 DEF AcquireFails
  <2>2. S \subseteq Requests /\ AttachedRequests \ S = AttachedRequests \ {r}
    BY <1>2
  <2> HIDE DEF S
  <2>3. /\ OneOwnerPerClient'
        /\ Live' = idle \cup {client[q] : q \in AttachedRequests \ {r}}
        /\ {q \in Requests : pc'[q] = "parked"} = {q \in Requests : pc[q] = "parked"} \ S
    BY <1>1, <2>1, <2>2, RejectStep
  <2>4. QueueIsParked'
    BY <2>1, <2>3, EmptyQueueFacts DEF QueueIsParked, Distinct, S
  <2>5. Counts'
    BY <1>1, <2>3, DropFacts, OneLessCounts
  <2> QED BY <2>1, <2>3, <2>4, <2>5 DEF Counts, NobodyParkedBesideIdle, ParkedWillBeWoken
<1>4. CASE ~(open - 1 = 0 /\ idle = {})
  <2>1. RejectAll({r}, e) /\ waiting' = waiting
    BY <1>4 DEF AcquireFails
  <2>2. /\ OneOwnerPerClient'
        /\ Live' = idle \cup {client[q] : q \in AttachedRequests \ {r}}
        /\ AttachedRequests' = AttachedRequests \ {r}
        /\ {q \in Requests : pc'[q] = "parked"} = {q \in Requests : pc[q] = "parked"} \ {r}
    BY <1>1, <2>1, RejectStep
  <2>3. QueueIsParked'
    BY <1>1, <2>1, <2>2 DEF QueueIsParked
  <2>4. Live' = Live \ {client[r]}
    BY <1>1, <2>2, DropFacts
  <2>5. Counts'
    BY <1>1, <2>4, OneLessCounts
  <2>6. NobodyParkedBesideIdle'
    BY <1>1, <2>1 DEF NobodyParkedBesideIdle
  <2>7. ParkedWillBeWoken'
    <3> SUFFICES ASSUME ~destroyed, waiting # <<>> PROVE AttachedRequests' # {}
      BY <1>1, <2>1 DEF ParkedWillBeWoken
    <3>1. idle = {} /\ open - 1 # 0
      BY <1>4 DEF NobodyParkedBesideIdle
    <3>2. Cardinality(Live') # 0
      BY <1>1, <2>4, <3>1, DropFacts DEF OpenCountsLive
    <3>3. Live' # {}
      BY <3>2, FS_EmptySet
    <3> QED BY <2>2, <3>1, <3>3
  <2> QED BY <2>2, <2>3, <2>5, <2>6, <2>7 DEF Counts
<1> QED BY <1>3, <1>4

LEMMA CommandSucceedsStep ==
  ASSUME PoolInv, TypeOK', NEW r \in Requests, CommandSucceeds(r)
  PROVE  PoolInv' /\ Live' = Live
<1> USE DEF PoolInv, TypeOK
<1>1. /\ pc[r] = "holding" /\ r \in AttachedRequests
      /\ UNCHANGED <<open, limit, destroyed>>
  BY DEF CommandSucceeds, AttachedRequests, Attached
<1>2. client[r] \in Clients /\ client[r] # NoClient /\ client[r] \notin idle
  BY <1>1, ClientsAssumption DEF OneOwnerPerClient, Attached
<1>3. CASE ReleaseIdle(r)
  <2>1. /\ waiting = <<>> /\ waiting' = <<>>
        /\ idle' = idle \cup {client[r]}
        /\ pc' = [pc EXCEPT ![r] = "done"]
        /\ client' = [client EXCEPT ![r] = NoClient]
    BY <1>3 DEF ReleaseIdle
  <2>2. AttachedRequests' = AttachedRequests \ {r}
    BY <2>1 DEF AttachedRequests, Attached
  <2>3. OneOwnerPerClient'
    BY <1>1, <1>2, <2>1, <2>2 DEF OneOwnerPerClient, AttachedRequests, Attached
  <2>4. QueueIsParked'
    BY <1>1, <2>1 DEF QueueIsParked
  <2>5. Live' = Live
    <3>1. {client'[q] : q \in AttachedRequests'} = {client[q] : q \in AttachedRequests \ {r}}
      BY <2>1, <2>2 DEF AttachedRequests
    <3>2. Live' = (idle \cup {client[r]}) \cup {client[q] : q \in AttachedRequests \ {r}}
      BY <2>1, <3>1 DEF Live
    <3> QED BY <1>1, <3>2, DropFacts
  <2>6. Counts'
    BY <1>1, <2>5 DEF Counts, OpenCountsLive, DestroyedCountsDown, LiveWithinLimit
  <2> QED BY <2>1, <2>3, <2>4, <2>5, <2>6 DEF Counts, NobodyParkedBesideIdle, ParkedWillBeWoken
<1>4. CASE ReleaseToWaiter(r)
  <2> DEFINE h == Head(waiting)
  <2>1. /\ h \in Requests /\ pc[h] = "parked" /\ h # r
        /\ Distinct(Tail(waiting))
        /\ Range(Tail(waiting)) = Range(waiting) \ {h}
    BY <1>1, <1>4, ShiftFacts DEF ReleaseToWaiter, QueueIsParked, Distinct
  <2>2. /\ waiting # <<>> /\ waiting' = Tail(waiting)
        /\ idle' = idle
        /\ pc' = [pc EXCEPT ![r] = "done", ![h] = "holding"]
        /\ client' = [client EXCEPT ![r] = NoClient, ![h] = client[r]]
    BY <1>4 DEF ReleaseToWaiter
  <2> HIDE DEF h
  <2>3. \A q \in Requests :
          /\ pc'[q] = IF q = h THEN "holding" ELSE IF q = r THEN "done" ELSE pc[q]
          /\ client'[q] = IF q = h THEN client[r] ELSE IF q = r THEN NoClient ELSE client[q]
    BY <2>1, <2>2
  <2>4. /\ AttachedRequests' = (AttachedRequests \ {r}) \cup {h}
        /\ h \notin AttachedRequests
    BY <1>1, <2>1, <2>3 DEF AttachedRequests, Attached
  <2>5. OneOwnerPerClient'
    BY <1>1, <1>2, <2>1, <2>2, <2>3, <2>4, ZenonT(30) DEF OneOwnerPerClient, AttachedRequests, Attached
  <2>6. QueueIsParked'
    BY <1>1, <2>1, <2>2, <2>3 DEF QueueIsParked, Distinct
  <2>7. Live' = Live
    <3>1. {client'[q] : q \in AttachedRequests'}
            = {client[q] : q \in AttachedRequests \ {r}} \cup {client[r]}
      BY <2>1, <2>3, <2>4 DEF AttachedRequests
    <3>2. Live' = (idle \cup {client[q] : q \in AttachedRequests \ {r}}) \cup {client[r]}
      BY <2>2, <3>1 DEF Live
    <3> QED BY <1>1, <3>2, DropFacts
  <2>8. Counts'
    BY <1>1, <2>7 DEF Counts, OpenCountsLive, DestroyedCountsDown, LiveWithinLimit
  <2>9. NobodyParkedBesideIdle' /\ ParkedWillBeWoken'
    BY <2>2, <2>4 DEF NobodyParkedBesideIdle, ParkedWillBeWoken
  <2> QED BY <2>5, <2>6, <2>7, <2>8, <2>9 DEF Counts
<1> QED BY <1>3, <1>4 DEF CommandSucceeds

LEMMA CommandFailsStep ==
  ASSUME PoolInv, TypeOK', NEW r \in Requests, CommandFails(r)
  PROVE  PoolInv'
<1> USE DEF PoolInv, TypeOK
<1>1. /\ pc[r] = "holding" /\ r \in AttachedRequests
      /\ UNCHANGED <<idle, limit, destroyed>>
  BY DEF CommandFails, AttachedRequests, Attached
<1>2. CASE DiscardOnly(r)
  <2>1. /\ waiting = <<>> /\ waiting' = <<>>
        /\ open' = open - 1
        /\ pc' = [pc EXCEPT ![r] = "failed"]
        /\ client' = [client EXCEPT ![r] = NoClient]
    BY <1>2 DEF DiscardOnly
  <2>2. AttachedRequests' = AttachedRequests \ {r}
    BY <2>1 DEF AttachedRequests, Attached
  <2>3. OneOwnerPerClient'
    BY <1>1, <2>1, <2>2 DEF OneOwnerPerClient, AttachedRequests, Attached
  <2>4. QueueIsParked'
    BY <1>1, <2>1 DEF QueueIsParked
  <2>5. Live' = Live \ {client[r]}
    <3>1. {client'[q] : q \in AttachedRequests'} = {client[q] : q \in AttachedRequests \ {r}}
      BY <2>1, <2>2 DEF AttachedRequests
    <3>2. Live' = idle \cup {client[q] : q \in AttachedRequests \ {r}}
      BY <1>1, <3>1 DEF Live
    <3> QED BY <1>1, <3>2, DropFacts
  <2>6. Counts'
    BY <1>1, <2>1, <2>5, OneLessCounts
  <2> QED BY <2>1, <2>3, <2>4, <2>6 DEF Counts, NobodyParkedBesideIdle, ParkedWillBeWoken
<1>3. CASE DiscardAndReplace(r)
  <2> DEFINE h == Head(waiting)
  <2>1. /\ h \in Requests /\ pc[h] = "parked" /\ h # r
        /\ Distinct(Tail(waiting))
        /\ Range(Tail(waiting)) = Range(waiting) \ {h}
    BY <1>1, <1>3, ShiftFacts DEF DiscardAndReplace, QueueIsParked, Distinct
  <2>2. PICK c \in Fresh : client' = [client EXCEPT ![r] = NoClient, ![h] = c]
    BY <1>3 DEF DiscardAndReplace
  <2>3. /\ waiting # <<>> /\ waiting' = Tail(waiting)
        /\ open' = open
        /\ pc' = [pc EXCEPT ![r] = "failed", ![h] = "replacing"]
    BY <1>3 DEF DiscardAndReplace
  <2> HIDE DEF h
  <2>4. \A q \in Requests :
          /\ pc'[q] = IF q = h THEN "replacing" ELSE IF q = r THEN "failed" ELSE pc[q]
          /\ client'[q] = IF q = h THEN c ELSE IF q = r THEN NoClient ELSE client[q]
    BY <2>1, <2>2, <2>3
  <2>5. /\ c \in Clients /\ c # NoClient /\ c \notin Live
        /\ c \notin idle /\ \A q \in AttachedRequests : client[q] # c
    BY ClientsAssumption DEF Fresh, Live
  <2>6. /\ AttachedRequests' = (AttachedRequests \ {r}) \cup {h}
        /\ h \notin AttachedRequests
    BY <1>1, <2>1, <2>4 DEF AttachedRequests, Attached
  <2>7. OneOwnerPerClient'
    BY <1>1, <2>1, <2>4, <2>5, <2>6 DEF OneOwnerPerClient, AttachedRequests, Attached
  <2>8. QueueIsParked'
    BY <1>1, <2>1, <2>3, <2>4 DEF QueueIsParked, Distinct
  <2>9. Live' = (Live \ {client[r]}) \cup {c}
    <3>1. {client'[q] : q \in AttachedRequests'}
            = {client[q] : q \in AttachedRequests \ {r}} \cup {c}
      BY <2>1, <2>4, <2>6 DEF AttachedRequests
    <3>2. Live' = (idle \cup {client[q] : q \in AttachedRequests \ {r}}) \cup {c}
      BY <1>1, <3>1 DEF Live
    <3> QED BY <1>1, <3>2, DropFacts
  <2>10. Cardinality(Live') = Cardinality(Live)
    <3>1. IsFiniteSet(Live \ {client[r]}) /\ c \notin Live \ {client[r]}
      BY <2>5, LiveFacts, FS_RemoveElement
    <3>2. Cardinality(Live') = Cardinality(Live \ {client[r]}) + 1
      BY <2>9, <3>1, FS_AddElement
    <3> QED BY <1>1, <3>2, DropFacts, LiveFacts
  <2>11. Counts'
    BY <1>1, <2>3, <2>10 DEF Counts, OpenCountsLive, DestroyedCountsDown, LiveWithinLimit
  <2>12. NobodyParkedBesideIdle' /\ ParkedWillBeWoken'
    BY <1>1, <2>3, <2>6 DEF NobodyParkedBesideIdle, ParkedWillBeWoken
  <2> QED BY <2>7, <2>8, <2>11, <2>12 DEF Counts
<1> QED BY <1>2, <1>3 DEF CommandFails

LEMMA ReplaceFailsStep ==
  ASSUME PoolInv, TypeOK', NEW r \in Requests, NEW e \in OpenErrors, ReplaceFails(r, e)
  PROVE  PoolInv' /\ Live' = Live \ {client[r]}
<1> USE DEF PoolInv, TypeOK
<1>1. /\ pc[r] = "replacing" /\ r \in AttachedRequests
      /\ open' = open - 1
      /\ UNCHANGED <<limit, destroyed>>
  BY DEF ReplaceFails, AttachedRequests, Attached
<1>2. CASE ReplaceTakesIdle(r)
  <2>1. PICK c \in idle : Attach(r, "holding", c) /\ idle' = idle \ {c}
    BY <1>2 DEF ReplaceTakesIdle
  <2>2. /\ pc' = [pc EXCEPT ![r] = "holding"]
        /\ client' = [client EXCEPT ![r] = c]
        /\ waiting' = waiting /\ waiting = <<>>
        /\ c \in Clients /\ c # NoClient
    BY <1>2, <2>1, ClientsAssumption DEF Attach, ReplaceTakesIdle, NobodyParkedBesideIdle
  <2>3. AttachedRequests' = AttachedRequests
    BY <1>1, <2>2 DEF AttachedRequests, Attached
  <2>4. OneOwnerPerClient'
    BY <1>1, <2>1, <2>2, <2>3 DEF OneOwnerPerClient, AttachedRequests, Attached
  <2>5. QueueIsParked'
    BY <1>1, <2>2 DEF QueueIsParked
  <2>6. Live' = Live \ {client[r]}
    <3>1. {client'[q] : q \in AttachedRequests'}
            = {client[q] : q \in AttachedRequests \ {r}} \cup {c}
      BY <1>1, <2>2, <2>3 DEF AttachedRequests
    <3>2. Live' = idle \cup {client[q] : q \in AttachedRequests \ {r}}
      BY <2>1, <3>1 DEF Live
    <3> QED BY <1>1, <3>2, DropFacts
  <2>7. Counts'
    BY <1>1, <2>6, OneLessCounts
  <2> QED BY <2>2, <2>4, <2>5, <2>6, <2>7 DEF Counts, NobodyParkedBesideIdle, ParkedWillBeWoken
<1>3. CASE ReplaceGivesUp(r, e)
  <2> DEFINE S == {r} \cup Range(waiting)
  <2>1. RejectAll(S, e) /\ waiting' = <<>> /\ idle' = idle
    BY <1>3 DEF ReplaceGivesUp
  <2>2. S \subseteq Requests /\ AttachedRequests \ S = AttachedRequests \ {r}
    BY <1>1 DEF QueueIsParked, AttachedRequests, Attached
  <2> HIDE DEF S
  <2>3. /\ OneOwnerPerClient'
        /\ Live' = idle \cup {client[q] : q \in AttachedRequests \ {r}}
        /\ {q \in Requests : pc'[q] = "parked"} = {q \in Requests : pc[q] = "parked"} \ S
    BY <2>1, <2>2, RejectStep
  <2>4. QueueIsParked'
    BY <2>1, <2>3, EmptyQueueFacts DEF QueueIsParked, Distinct, S
  <2>5. Counts'
    BY <1>1, <2>3, DropFacts, OneLessCounts
  <2> QED BY <1>1, <2>1, <2>3, <2>4, <2>5, DropFacts DEF Counts, NobodyParkedBesideIdle, ParkedWillBeWoken
<1>4. CASE ReplaceRequeues(r)
  <2>1. /\ pc' = [pc EXCEPT ![r] = "parked"]
        /\ client' = [client EXCEPT ![r] = NoClient]
        /\ waiting' = <<r>> \o waiting
        /\ idle = {} /\ idle' = {}
        /\ open - 1 # 0
    BY <1>4 DEF ReplaceRequeues, Attach
  <2>2. AttachedRequests' = AttachedRequests \ {r}
    BY <2>1 DEF AttachedRequests, Attached
  <2>3. OneOwnerPerClient'
    BY <1>1, <2>1, <2>2 DEF OneOwnerPerClient, AttachedRequests, Attached
  <2>4. Distinct(waiting') /\ Range(waiting') = Range(waiting) \cup {r}
    <3>1. Distinct(waiting) /\ r \notin Range(waiting)
      BY <1>1 DEF QueueIsParked, Distinct
    <3> QED BY <2>1, <3>1, UnshiftFacts
  <2>5. QueueIsParked'
    BY <2>1, <2>4 DEF QueueIsParked, Distinct
  <2>6. Live' = Live \ {client[r]}
    <3>1. {client'[q] : q \in AttachedRequests'} = {client[q] : q \in AttachedRequests \ {r}}
      BY <2>1, <2>2 DEF AttachedRequests
    <3>2. Live' = idle \cup {client[q] : q \in AttachedRequests \ {r}}
      BY <2>1, <3>1 DEF Live
    <3> QED BY <1>1, <3>2, DropFacts
  <2>7. Counts'
    BY <1>1, <2>6, OneLessCounts
  <2>8. ParkedWillBeWoken'
    <3> SUFFICES ASSUME ~destroyed PROVE AttachedRequests' # {}
      BY <1>1 DEF ParkedWillBeWoken
    <3>1. Cardinality(Live') # 0
      BY <1>1, <2>1, <2>6, DropFacts DEF OpenCountsLive
    <3>2. Live' # {}
      BY <3>1, FS_EmptySet
    <3> QED BY <2>1, <3>2 DEF Live
  <2> QED BY <2>1, <2>3, <2>5, <2>6, <2>7, <2>8 DEF Counts, NobodyParkedBesideIdle
<1> QED BY <1>2, <1>3, <1>4 DEF ReplaceFails

LEMMA DestroyStep ==
  ASSUME PoolInv, TypeOK', Destroy
  PROVE  PoolInv'
<1> USE DEF PoolInv
<1>1. /\ destroyed' /\ idle' = {} /\ open' = 0 /\ waiting' = <<>> /\ limit' = limit
      /\ RejectAll(Range(waiting), "destroyed")
  BY DEF Destroy
<1>2. /\ Range(waiting) \subseteq Requests
      /\ AttachedRequests \ Range(waiting) = AttachedRequests
  BY DEF QueueIsParked, AttachedRequests, Attached
<1>3. /\ OneOwnerPerClient'
      /\ Live' = {client[q] : q \in AttachedRequests}
      /\ {q \in Requests : pc'[q] = "parked"} = {}
  BY <1>1, <1>2, RejectStep DEF QueueIsParked
<1>4. QueueIsParked'
  BY <1>1, <1>3, EmptyQueueFacts DEF QueueIsParked, Distinct
<1>5. Live' = Live \ idle
  BY <1>3 DEF Live, OneOwnerPerClient
<1>6. OpenCountsLive' /\ DestroyedCountsDown'
  BY <1>1 DEF OpenCountsLive, DestroyedCountsDown
<1>7. LiveWithinLimit'
  <2>1. Cardinality(Live) \in Nat /\ Cardinality(Live') \in Nat
    BY <1>5, LiveFacts
  <2>2. Cardinality(Live') <= Cardinality(Live)
    BY <1>5, LiveFacts
  <2> QED BY <1>1, <2>1, <2>2 DEF TypeOK, LiveWithinLimit, Configured
<1> QED BY <1>1, <1>3, <1>4, <1>6, <1>7 DEF Counts, NobodyParkedBesideIdle, ParkedWillBeWoken

LEMMA NextPoolInv == PoolInv /\ [Next]_vars => PoolInv'
<1> SUFFICES ASSUME PoolInv, [Next]_vars PROVE PoolInv'
  OBVIOUS
<1>1. TypeOK'
  BY NextTypeOK DEF PoolInv
<1>2. ASSUME NEW r \in Requests, Call(r) PROVE PoolInv'
  BY <1>1, <1>2, CallAfterDestroyStep, CallOpensStep, CallWaitsStep DEF Call
<1>3. ASSUME NEW r \in Requests, AcquireSettles(r) PROVE PoolInv'
  BY <1>1, <1>3, OpenedStep, AcquireShrinksStep, AcquireFailsStep DEF AcquireSettles
<1>4. ASSUME NEW r \in Requests, ReplaceSettles(r) PROVE PoolInv'
  BY <1>1, <1>4, OpenedStep, ReplaceFailsStep DEF ReplaceSettles
<1>5. ASSUME NEW r \in Requests, CommandSettles(r) PROVE PoolInv'
  BY <1>1, <1>5, CommandSucceedsStep, CommandFailsStep DEF CommandSettles
<1>6. ASSUME Destroy PROVE PoolInv'
  BY <1>1, <1>6, DestroyStep
<1>7. CASE UNCHANGED vars
  <2>1. AttachedRequests' = AttachedRequests /\ Live' = Live
    BY <1>7 DEF vars, AttachedRequests, Live
  <2>2. OneOwnerPerClient' /\ QueueIsParked'
    BY <1>7, <2>1 DEF vars, PoolInv, OneOwnerPerClient, QueueIsParked
  <2>3. OpenCountsLive' /\ DestroyedCountsDown' /\ LiveWithinLimit'
    BY <1>7, <2>1 DEF vars, PoolInv, OpenCountsLive, DestroyedCountsDown, LiveWithinLimit
  <2>4. NobodyParkedBesideIdle' /\ ParkedWillBeWoken'
    BY <1>7, <2>1 DEF vars, PoolInv, NobodyParkedBesideIdle, ParkedWillBeWoken
  <2> QED BY <1>1, <2>2, <2>3, <2>4 DEF PoolInv
<1> QED BY <1>2, <1>3, <1>4, <1>5, <1>6, <1>7 DEF Next

-----------------------------------------------------------------------------
(* Theorems. *)

(* The invariant holds of every behaviour: every variable has its type, no   *)
(* connection has two users, #open counts the connections, they stay within  *)
(* the limit, no caller is parked beside an idle one or beyond waking.       *)
THEOREM PoolInvariant == Spec => []PoolInv
BY InitPoolInv, NextPoolInv, PTL DEF Spec

(* Every variable keeps its type (pool.ts:80-90). *)
THEOREM TypeCorrect == Spec => []TypeOK
<1>1. PoolInv => TypeOK
  BY DEF PoolInv
<1> QED BY <1>1, PoolInvariant, PTL

(* The provider's cap is respected whatever the interleaving of opens,      *)
(* refusals, dead connections and destroy(): the live connections never     *)
(* exceed the limit, nor the limit what was configured.                     *)
THEOREM CapRespected == Spec => []LiveWithinLimit
<1>1. PoolInv => LiveWithinLimit
  BY DEF PoolInv
<1> QED BY <1>1, PoolInvariant, PTL

(* A connection is never shared: commands of two calls cannot meet on it. *)
THEOREM ConnectionsExclusive == Spec => []OneOwnerPerClient
<1>1. PoolInv => OneOwnerPerClient
  BY DEF PoolInv
<1> QED BY <1>1, PoolInvariant, PTL

(* No lost wake-up: a parked caller always has a connection in flight whose *)
(* settling wakes or rejects someone parked.                                *)
THEOREM NoLostWakeUp == Spec => []ParkedWillBeWoken
<1>1. PoolInv => ParkedWillBeWoken
  BY DEF PoolInv
<1> QED BY <1>1, PoolInvariant, PTL

(* Nor is a caller ever parked while a connection sits idle. *)
THEOREM NobodyWaitsBesideIdle == Spec => []NobodyParkedBesideIdle
<1>1. PoolInv => NobodyParkedBesideIdle
  BY DEF PoolInv
<1> QED BY <1>1, PoolInvariant, PTL

(* A step that opens a connection, in #acquire or for the one that died in  *)
(* #discard, is never held up for want of a name: the names stand for       *)
(* objects the code can always construct, and bound nothing.                *)
THEOREM NameToSpare == Spec => [](Fresh # {})
<1>1. ASSUME PoolInv PROVE Fresh # {}
  <2>1. Cardinality(Live) <= Configured /\ Configured \in Int /\ Cardinality(Live) \in Nat
    BY <1>1, LiveFacts, ConnectionsAssumption DEF PoolInv, LiveWithinLimit, Configured
  <2>2. Cardinality(Live) # Cardinality(Clients)
    BY <2>1, ClientsAssumption, FS_CardinalityType
  <2>3. Live # Clients /\ Live \subseteq Clients
    BY <1>1, <2>2, LiveFacts DEF PoolInv
  <2> QED BY <2>3 DEF Fresh
<1> QED BY <1>1, PoolInvariant, PTL

(* The limit moves only down, and only on a refusal for capacity: shrinking *)
(* to #open - 1 is a decrease because #open never exceeds the limit.        *)
THEOREM LimitLearnedDown == Spec => LimitOnlyLearnedDown
<1> DEFINE A == limit' # limit => limit' < limit /\ "capacity" \in failures'
<1>1. ASSUME PoolInv, [Next]_vars PROVE [A]_vars
  <2> SUFFICES ASSUME Next, limit' # limit PROVE limit' < limit /\ "capacity" \in failures'
    BY <1>1
  <2>1. PICK r \in Requests : AcquireShrinks(r)
    BY DEF Next, Call, CallAfterDestroy, CallOpens, CallWaits, AcquireSettles, AcquireOpened,
           AcquireFails, ReplaceSettles, ReplaceOpened, ReplaceFails, CommandSettles,
           CommandSucceeds, CommandFails, Destroy
  <2>2. limit' = open - 1 /\ "capacity" \in failures' /\ open > 0
    BY <1>1, <2>1 DEF AcquireShrinks, PoolInv, TypeOK
  <2>3. open = Cardinality(Live) /\ Cardinality(Live) <= limit
    BY <1>1, <2>2 DEF PoolInv, TypeOK, DestroyedCountsDown, OpenCountsLive, LiveWithinLimit
  <2> QED BY <1>1, <2>2, <2>3 DEF PoolInv, TypeOK
<1> QED BY <1>1, PoolInvariant, PTL DEF Spec, LimitOnlyLearnedDown

(* A parked caller is in the queue exactly once, and nobody else is: no step *)
(* loses a waiter or leaves one behind to be woken twice.                    *)
THEOREM QueueHoldsTheParked == Spec => []QueueIsParked
<1>1. PoolInv => QueueIsParked
  BY DEF PoolInv
<1> QED BY <1>1, PoolInvariant, PTL

(* #open, which every decision on capacity reads, is the number of live      *)
(* connections until destroy() and never positive after it.                  *)
THEOREM OpenIsTheCount == Spec => [](OpenCountsLive /\ DestroyedCountsDown)
<1>1. PoolInv => OpenCountsLive /\ DestroyedCountsDown
  BY DEF PoolInv
<1> QED BY <1>1, PoolInvariant, PTL

-----------------------------------------------------------------------------
(* Who may be failed, and when. *)

(* The open that failed was the last connection of a pool not destroyed. *)
LEMMA NothingLeft ==
  ASSUME PoolInv, NEW r \in AttachedRequests, ~destroyed, open - 1 <= 0
  PROVE  idle \cup {client[q] : q \in AttachedRequests \ {r}} = {}
<1>1. open = Cardinality(Live) /\ IsFiniteSet(Live)
  BY LiveFacts DEF PoolInv, OpenCountsLive
<1>2. /\ Cardinality(Live \ {client[r]}) = open - 1
      /\ Cardinality(Live \ {client[r]}) \in Nat
  BY <1>1, DropFacts, LiveFacts DEF PoolInv
<1>3. Cardinality(Live \ {client[r]}) = 0
  BY <1>2 DEF PoolInv, TypeOK
<1>4. IsFiniteSet(Live \ {client[r]})
  BY <1>1, FS_RemoveElement
<1> QED BY <1>3, <1>4, FS_EmptySet, DropFacts

(* What FailedOnlyWhenNothingLive says of one step. *)
FailedFairly ==
  \A r \in Requests :
    /\ pc[r] # "failed" /\ pc'[r] = "failed"
    /\ pc[r] \in {"parked", "replacing"} \/ outcome'[r] = "capacity"
    => Live' = {} \/ destroyed'

LEMMA AcquireFailsFairly ==
  ASSUME PoolInv, NEW r \in Requests, NEW e \in OpenErrors, AcquireFails(r, e)
  PROVE  FailedFairly
<1> USE DEF PoolInv
<1>0. open - 1 = 0 => open - 1 <= 0
  BY DEF TypeOK
<1>1. /\ pc[r] = "opening" /\ r \in AttachedRequests
      /\ ~(e = "capacity" /\ open - 1 > 0)
      /\ UNCHANGED <<idle, destroyed>>
  BY DEF AcquireFails, AttachedRequests, Attached
<1>2. Range(waiting) \subseteq Requests \ AttachedRequests
  BY DEF QueueIsParked, AttachedRequests, Attached
<1>3. CASE open - 1 = 0 /\ idle = {}
  <2>1. RejectAll({r} \cup Range(waiting), e)
    BY <1>3 DEF AcquireFails
  <2>2. Live' = idle \cup {client[q] : q \in AttachedRequests \ ({r} \cup Range(waiting))}
    BY <1>1, <1>2, <2>1, RejectStep
  <2>3. Live' = idle \cup {client[q] : q \in AttachedRequests \ {r}}
    BY <1>2, <2>2
  <2>4. ~destroyed => Live' = {}
    BY <1>0, <1>1, <1>3, <2>3, NothingLeft
  <2> QED BY <1>1, <2>4 DEF FailedFairly
<1>4. CASE ~(open - 1 = 0 /\ idle = {})
  <2>1. RejectAll({r}, e)
    BY <1>4 DEF AcquireFails
  <2>2. \A q \in Requests : pc'[q] # "failed" \/ pc[q] = "failed" \/ q = r
    BY <2>1 DEF RejectAll
  <2>3. outcome'[r] = e
    BY <2>1 DEF RejectAll
  <2>4. ASSUME e = "capacity", ~destroyed PROVE FALSE
    <3>1. open - 1 <= 0
      BY <1>1, <2>4 DEF TypeOK
    <3>2. Live # {}
      BY <1>1, DropFacts
    <3>3. open # 0 /\ open \in Nat
      BY <2>4, <3>2, LiveFacts DEF OpenCountsLive
    <3>4. idle = {}
      BY <1>1, <2>4, <3>1, NothingLeft
    <3> QED BY <1>4, <3>1, <3>3, <3>4
  <2> QED BY <1>1, <2>2, <2>3, <2>4 DEF FailedFairly
<1> QED BY <1>3, <1>4

LEMMA ReplaceFailsFairly ==
  ASSUME PoolInv, NEW r \in Requests, NEW e \in OpenErrors, ReplaceFails(r, e)
  PROVE  FailedFairly
<1> USE DEF PoolInv
<1>1. pc[r] = "replacing" /\ r \in AttachedRequests /\ UNCHANGED destroyed
  BY DEF ReplaceFails, AttachedRequests, Attached
<1>2. CASE ReplaceTakesIdle(r) \/ ReplaceRequeues(r)
  <2>1. \A q \in Requests : pc'[q] = "failed" => pc[q] = "failed"
    BY <1>2 DEF ReplaceTakesIdle, ReplaceRequeues, Attach, TypeOK
  <2> QED BY <2>1 DEF FailedFairly
<1>3. CASE ReplaceGivesUp(r, e)
  <2>1. /\ idle = {} /\ open - 1 = 0 /\ idle' = idle
        /\ RejectAll({r} \cup Range(waiting), e)
    BY <1>3 DEF ReplaceGivesUp
  <2>2. Range(waiting) \subseteq Requests \ AttachedRequests
    BY DEF QueueIsParked, AttachedRequests, Attached
  <2>3. Live' = idle \cup {client[q] : q \in AttachedRequests \ ({r} \cup Range(waiting))}
    BY <1>1, <2>1, <2>2, RejectStep
  <2>4. Live' = idle \cup {client[q] : q \in AttachedRequests \ {r}}
    BY <2>2, <2>3
  <2>5. open - 1 <= 0
    BY <2>1 DEF TypeOK
  <2>6. ~destroyed => Live' = {}
    BY <1>1, <2>1, <2>4, <2>5, NothingLeft
  <2> QED BY <1>1, <2>6 DEF FailedFairly
<1> QED BY <1>2, <1>3 DEF ReplaceFails

LEMMA NextFailsFairly == PoolInv /\ Next => FailedFairly
<1> SUFFICES ASSUME PoolInv, Next PROVE FailedFairly
  OBVIOUS
<1> USE DEF PoolInv, TypeOK
<1>1. ASSUME NEW r \in Requests, CallAfterDestroy(r) PROVE FailedFairly
  BY <1>1 DEF CallAfterDestroy, FailedFairly
<1>2. ASSUME NEW r \in Requests, CallOpens(r) PROVE FailedFairly
  BY <1>2 DEF CallOpens, Attach, FailedFairly
<1>3. ASSUME NEW r \in Requests, CallWaits(r) \/ AcquireShrinks(r) PROVE FailedFairly
  BY <1>3 DEF CallWaits, AcquireShrinks, WaitForConnection, Attach, FailedFairly
<1>4. ASSUME NEW r \in Requests, AcquireOpened(r) \/ ReplaceOpened(r) PROVE FailedFairly
  BY <1>4 DEF AcquireOpened, ReplaceOpened, Attach, FailedFairly
<1>5. ASSUME NEW r \in Requests, CommandSucceeds(r) PROVE FailedFairly
  <2>1. waiting # <<>> => Head(waiting) \in Requests
    BY HeadTailProperties
  <2>2. \A q \in Requests : pc'[q] = "failed" => pc[q] = "failed"
    BY <1>5, <2>1 DEF CommandSucceeds, ReleaseIdle, ReleaseToWaiter
  <2> QED BY <2>2 DEF FailedFairly
<1>6. ASSUME NEW r \in Requests, CommandFails(r) PROVE FailedFairly
  <2>1. pc[r] = "holding" /\ outcome'[r] = "command"
    BY <1>6 DEF CommandFails
  <2>2. \A q \in Requests : pc'[q] = "failed" => pc[q] = "failed" \/ q = r
    BY <1>6, HeadTailProperties DEF CommandFails, DiscardOnly, DiscardAndReplace
  <2> QED BY <2>1, <2>2 DEF FailedFairly
<1>7. ASSUME Destroy PROVE FailedFairly
  BY <1>7 DEF Destroy, FailedFairly
<1> QED
  BY <1>1, <1>2, <1>3, <1>4, <1>5, <1>6, <1>7, AcquireFailsFairly, ReplaceFailsFairly
     DEF Next, Call, AcquireSettles, ReplaceSettles, CommandSettles

(* Nobody who is parked, or for whom a replacement is being opened, is ever  *)
(* failed, and no one is told "at capacity", while the pool has a            *)
(* connection left that could have served the call.                          *)
THEOREM FailsOnlyWithNothingLive == Spec => FailedOnlyWhenNothingLive
<1>1. PoolInv /\ [Next]_vars => [FailedFairly]_vars
  BY NextFailsFairly
<1>2. Spec => [][FailedFairly]_vars
  BY <1>1, PoolInvariant, PTL DEF Spec
<1> QED BY <1>2 DEF FailedOnlyWhenNothingLive, FailedFairly

-----------------------------------------------------------------------------
(* NntpPool implements PoolContract: what a caller may rely on without       *)
(* knowing of connections.  Each step of the pool is a step of the contract, *)
(* or none.                                                                  *)

(* The abstract phases, as NntpPool's instance of the contract gives them. *)
Phase == [r \in Requests |-> ServicePhase(r)]

HoldingRequests == {r \in Requests : pc[r] = "holding"}

PhaseMeaning ==
  /\ DOMAIN Phase = Requests
  /\ \A r \in Requests :
       /\ Phase[r] = "new" <=> pc[r] = "new"
       /\ Phase[r] = "using" <=> pc[r] = "holding"
       /\ Phase[r] = "gone" <=> pc[r] \in {"done", "failed"}
       /\ Phase[r] = "waiting" <=> pc[r] \in {"parked", "opening", "replacing"}
  /\ HoldingRequests = {r \in Requests : Phase[r] = "using"}

LEMMA PhaseFacts == TypeOK => PhaseMeaning
<1> SUFFICES ASSUME TypeOK PROVE PhaseMeaning
  OBVIOUS
<1>1. DOMAIN Phase = Requests /\ \A r \in Requests : Phase[r] = ServicePhase(r)
  BY DEF Phase
<1>2. ASSUME NEW r \in Requests
      PROVE  /\ ServicePhase(r) = "new" <=> pc[r] = "new"
             /\ ServicePhase(r) = "using" <=> pc[r] = "holding"
             /\ ServicePhase(r) = "gone" <=> pc[r] \in {"done", "failed"}
             /\ ServicePhase(r) = "waiting" <=> pc[r] \in {"parked", "opening", "replacing"}
  BY DEF ServicePhase, Settled, TypeOK, Phases, Attached
<1> QED BY <1>1, <1>2 DEF PhaseMeaning, HoldingRequests

LEMMA PhaseFactsNext == TypeOK' => PhaseMeaning'
BY PhaseFacts, PTL

(* Requests with connections of their own are no more than the connections; *)
(* fewer when some connection is not theirs.                                *)
Fits ==
  /\ IsFiniteSet(HoldingRequests)
  /\ Cardinality(HoldingRequests) \in Nat
  /\ Cardinality(HoldingRequests) <= Cardinality(Live)
  /\ idle # {} \/ AttachedRequests # HoldingRequests =>
       Cardinality(HoldingRequests) < Cardinality(Live)

LEMMA HoldersFit == TypeOK /\ OneOwnerPerClient => Fits
<1> SUFFICES ASSUME TypeOK, OneOwnerPerClient PROVE Fits
  OBVIOUS
<1>1. HoldingRequests \subseteq AttachedRequests
  BY DEF HoldingRequests, AttachedRequests, Attached
<1>2. ASSUME NEW T \in SUBSET Live, \A r \in HoldingRequests : client[r] \in T
      PROVE  /\ IsFiniteSet(HoldingRequests)
             /\ Cardinality(HoldingRequests) <= Cardinality(T)
  <2> DEFINE f == [r \in HoldingRequests |-> client[r]]
  <2>1. f \in Injection(HoldingRequests, T)
    <3>1. f \in [HoldingRequests -> T]
      BY <1>2
    <3>2. \A r, q \in HoldingRequests : f[r] = f[q] => r = q
      BY <1>1 DEF OneOwnerPerClient
    <3> QED BY <3>1, <3>2 DEF Injection, IsInjective
  <2>2. IsFiniteSet(T)
    BY LiveFacts, FS_Subset
  <2> QED BY <2>1, <2>2, FS_Injection
<1>3. \A r \in HoldingRequests : client[r] \in Live
  BY <1>1 DEF Live
<1>4. IsFiniteSet(HoldingRequests) /\ Cardinality(HoldingRequests) <= Cardinality(Live)
  BY <1>2, <1>3
<1>5. Cardinality(HoldingRequests) \in Nat
  BY <1>4, FS_CardinalityType
<1>6. ASSUME NEW c \in Live, \A r \in HoldingRequests : client[r] # c
      PROVE  Cardinality(HoldingRequests) < Cardinality(Live)
  <2>1. Cardinality(HoldingRequests) <= Cardinality(Live \ {c})
    BY <1>2, <1>3, <1>6
  <2>2. Cardinality(Live \ {c}) = Cardinality(Live) - 1 /\ Cardinality(Live) \in Nat
    BY LiveFacts
  <2> QED BY <1>5, <2>1, <2>2
<1>7. ASSUME idle # {} PROVE \E c \in Live : \A r \in HoldingRequests : client[r] # c
  BY <1>1, <1>7 DEF Live, OneOwnerPerClient
<1>8. ASSUME AttachedRequests # HoldingRequests
      PROVE  \E c \in Live : \A r \in HoldingRequests : client[r] # c
  <2>1. PICK q \in AttachedRequests : q \notin HoldingRequests
    BY <1>1, <1>8
  <2> QED BY <1>1, <2>1 DEF Live, OneOwnerPerClient
<1> QED BY <1>4, <1>5, <1>6, <1>7, <1>8 DEF Fits

(* The contract counts with a Cardinality of its own instance. *)
LEMMA SameCardinality == \A S : Contract!Cardinality(S) = Cardinality(S)
BY DEF Cardinality, Contract!Cardinality

LEMMA UsingIsHolding == TypeOK => Contract!Using = HoldingRequests
BY PhaseFacts DEF PhaseMeaning, Contract!Using, Phase

(* A pool with a connection to spare has room in the contract's sense. *)
LEMMA RoomForMore ==
  ASSUME PoolInv, idle # {} \/ AttachedRequests # HoldingRequests
  PROVE  Contract!Room
<1>1. Cardinality(HoldingRequests) < limit
  <2>1. /\ Cardinality(HoldingRequests) < Cardinality(Live)
        /\ Cardinality(HoldingRequests) \in Nat
    BY HoldersFit DEF PoolInv, Fits
  <2>2. Cardinality(Live) <= limit /\ Cardinality(Live) \in Nat /\ limit \in Int
    BY LiveFacts DEF PoolInv, LiveWithinLimit, TypeOK
  <2> QED BY <2>1, <2>2
<1> QED BY <1>1, UsingIsHolding, SameCardinality DEF Contract!Room, PoolInv

UseWithinLimit == Contract!Cardinality(Contract!Using) <= limit

LEMMA UseFits == PoolInv => UseWithinLimit
<1> SUFFICES ASSUME PoolInv PROVE UseWithinLimit
  OBVIOUS
<1>1. Cardinality(HoldingRequests) <= Cardinality(Live) /\ Cardinality(HoldingRequests) \in Nat
  BY HoldersFit DEF PoolInv, Fits
<1>2. Cardinality(Live) <= limit /\ Cardinality(Live) \in Nat /\ limit \in Int
  BY LiveFacts DEF PoolInv, LiveWithinLimit, TypeOK
<1>3. Cardinality(HoldingRequests) <= limit
  BY <1>1, <1>2
<1> QED BY <1>3, UsingIsHolding, SameCardinality DEF UseWithinLimit, PoolInv

LEMMA UseFitsNext == PoolInv' => UseWithinLimit'
BY UseFits, PTL

(* What the map does to a step that moves one request. *)
LEMMA OneMoves ==
  ASSUME TypeOK, TypeOK', NEW r \in Requests, NEW p \in Phases,
         pc' = [pc EXCEPT ![r] = p]
  PROVE  /\ Phase'[r] = "new" <=> p = "new"
         /\ Phase'[r] = "using" <=> p = "holding"
         /\ Phase'[r] = "gone" <=> p \in {"done", "failed"}
         /\ Phase'[r] = "waiting" <=> p \in {"parked", "opening", "replacing"}
         /\ Phase' = [Phase EXCEPT ![r] = Phase'[r]]
<1>1. pc'[r] = p /\ \A q \in Requests : q # r => pc'[q] = pc[q]
  BY DEF TypeOK
<1>2. \A q \in Requests : Phase'[q] = IF q = r THEN Phase'[r] ELSE Phase[q]
  BY <1>1 DEF Phase, ServicePhase
<1>3. Phase \in [Requests -> {Phase[q] : q \in Requests}] /\ DOMAIN Phase' = Requests
  BY DEF Phase
<1>4. Phase' = [Phase EXCEPT ![r] = Phase'[r]]
  BY <1>2, <1>3 DEF Phase
<1> QED BY <1>1, <1>4, PhaseFactsNext DEF PhaseMeaning

(* A rejection is a departure with the same error. *)
LEMMA RejectedLeave ==
  ASSUME TypeOK', NEW S, NEW e, RejectAll(S, e)
  PROVE  Contract!Leave(S, e)
<1>1. \A q \in Requests : pc'[q] = IF q \in S THEN "failed" ELSE pc[q]
  BY DEF RejectAll
<1>2. \A q \in Requests : Phase'[q] = IF q \in S THEN "gone" ELSE Phase[q]
  <2> SUFFICES ASSUME NEW q \in Requests PROVE Phase'[q] = IF q \in S THEN "gone" ELSE Phase[q]
    OBVIOUS
  <2>1. CASE q \in S
    BY <1>1, <2>1, PhaseFactsNext DEF PhaseMeaning
  <2>2. CASE q \notin S
    BY <1>1, <2>2 DEF Phase, ServicePhase
  <2> QED BY <2>1, <2>2
<1>3. Phase' = [q \in Requests |-> IF q \in S THEN "gone" ELSE Phase[q]]
  BY <1>2 DEF Phase
<1>4. outcome' = [q \in Requests |-> IF q \in S THEN e ELSE outcome[q]]
  BY DEF RejectAll
<1> QED BY <1>3, <1>4 DEF Contract!Leave, Phase

-----------------------------------------------------------------------------
(* One lemma per handler: the step of the contract it is. *)

LEMMA CallImplements ==
  ASSUME PoolInv, TypeOK', NEW r \in Requests, Call(r)
  PROVE  Contract!Next
<1> USE DEF PoolInv, PhaseMeaning
<1>1. CASE CallAfterDestroy(r)
  <2>1. /\ pc[r] = "new" /\ destroyed /\ RejectAll({r}, "destroyed")
        /\ UNCHANGED <<limit, destroyed>>
    BY <1>1 DEF CallAfterDestroy
  <2>2. Phase[r] = "new" /\ Contract!Leave({r}, "destroyed")
    BY <2>1, RejectedLeave, PhaseFacts
  <2> QED BY <2>1, <2>2 DEF Contract!Next, Contract!Turned, Phase
<1>2. CASE CallOpens(r)
  <2>1. /\ pc' = [pc EXCEPT ![r] = "opening"]
        /\ pc[r] = "new" /\ ~destroyed /\ UNCHANGED <<outcome, limit, destroyed>>
    BY <1>2 DEF CallOpens, Attach
  <2>2. Phase[r] = "new" /\ Phase' = [Phase EXCEPT ![r] = "waiting"]
    BY <2>1, OneMoves, PhaseFacts DEF Phases, Attached
  <2>3. Contract!Ask(r)
    BY <2>1, <2>2 DEF Contract!Ask, Phase
  <2> QED BY <2>3 DEF Contract!Next
<1>3. CASE CallWaits(r)
  <2>1. pc[r] = "new" /\ ~destroyed /\ UNCHANGED <<outcome, limit, destroyed>>
    BY <1>3 DEF CallWaits
  <2>2. CASE idle = {}
    <3>1. pc' = [pc EXCEPT ![r] = "parked"]
      BY <1>3, <2>2 DEF CallWaits, WaitForConnection, Attach
    <3>2. Phase[r] = "new" /\ Phase' = [Phase EXCEPT ![r] = "waiting"]
      BY <2>1, <3>1, OneMoves, PhaseFacts DEF Phases
    <3> QED BY <2>1, <3>2 DEF Contract!Next, Contract!Ask, Phase
  <2>3. CASE idle # {}
    <3>1. pc' = [pc EXCEPT ![r] = "holding"]
      BY <1>3, <2>3 DEF CallWaits, WaitForConnection, Attach
    <3>2. Phase[r] = "new" /\ Phase' = [Phase EXCEPT ![r] = "using"]
      BY <2>1, <3>1, OneMoves, PhaseFacts DEF Phases, Attached
    <3>3. Contract!Room
      BY <2>3, RoomForMore
    <3> QED BY <2>1, <3>2, <3>3 DEF Contract!Next, Contract!Ask, Phase
  <2> QED BY <2>2, <2>3
<1> QED BY <1>1, <1>2, <1>3 DEF Call

LEMMA AdmitImplements ==
  ASSUME PoolInv, TypeOK', NEW r \in Requests, pc[r] \in {"opening", "replacing"},
         pc' = [pc EXCEPT ![r] = "holding"], UNCHANGED <<outcome, limit, destroyed>>
  PROVE  Contract!Next
<1> USE DEF PoolInv, PhaseMeaning
<1>1. Phase[r] = "waiting" /\ Phase' = [Phase EXCEPT ![r] = "using"]
  BY OneMoves, PhaseFacts DEF Phases, Attached
<1>2. r \in AttachedRequests /\ r \notin HoldingRequests
  BY DEF AttachedRequests, Attached, HoldingRequests
<1>3. Contract!Room
  BY <1>2, RoomForMore
<1> QED BY <1>1, <1>3 DEF Contract!Next, Contract!Admit, Phase

(* Refused with nobody served, after the close, or alone for a fault. *)
LEMMA RefuseImplements ==
  ASSUME PoolInv, TypeOK', NEW S \in SUBSET Requests, S # {}, NEW e \in OpenErrors,
         \A q \in S : pc[q] \in {"parked", "opening", "replacing"},
         HoldingRequests = {} \/ destroyed \/ (e = "fault" /\ \E r : S = {r}),
         RejectAll(S, e), UNCHANGED <<limit, destroyed>>
  PROVE  Contract!Next
<1>1. Contract!Leave(S, e)
  BY RejectedLeave
<1>2. \A q \in S : Phase[q] = "waiting"
  BY PhaseFacts DEF PoolInv, PhaseMeaning
<1>3. Contract!Using = {} \/ destroyed \/ (e = "fault" /\ Contract!Cardinality(S) = 1)
  BY UsingIsHolding, SameCardinality, FS_Singleton DEF PoolInv
<1>4. Contract!Refuse(S, e)
  BY <1>1, <1>2, <1>3 DEF Contract!Refuse, Phase
<1> QED BY <1>4 DEF Contract!Next, OpenErrors

LEMMA ShrinkImplements ==
  ASSUME PoolInv, PoolInv', NEW r \in Requests, AcquireShrinks(r)
  PROVE  Contract!Next
<1>0. UseWithinLimit'
  BY UseFitsNext
<1> USE DEF PoolInv
<1>1. /\ pc[r] = "opening" /\ open - 1 > 0 /\ limit' = open - 1
      /\ UNCHANGED <<outcome, destroyed>>
      /\ pc' = [pc EXCEPT ![r] = "holding"] \/ pc' = [pc EXCEPT ![r] = "parked"]
  BY DEF AcquireShrinks, WaitForConnection, Attach
<1>2. limit' < limit
  <2>1. ~destroyed
    BY <1>1 DEF DestroyedCountsDown, TypeOK
  <2>2. open <= limit
    BY <2>1 DEF OpenCountsLive, LiveWithinLimit
  <2> QED BY <1>1, <2>2 DEF TypeOK
<1>3. limit' \in 1 .. Configured
  BY DEF LiveWithinLimit
<1>4. Phase[r] = "waiting"
  BY <1>1, PhaseFacts DEF PhaseMeaning
<1>5. Phase' = Phase \/ Phase' = [Phase EXCEPT ![r] = "using"]
  <2>1. CASE pc' = [pc EXCEPT ![r] = "holding"]
    BY <2>1, OneMoves DEF Phases, Attached
  <2>2. CASE pc' = [pc EXCEPT ![r] = "parked"]
    <3>1. Phase' = [Phase EXCEPT ![r] = "waiting"]
      BY <2>2, OneMoves DEF Phases
    <3> QED BY <1>4, <3>1 DEF Phase
  <2> QED BY <1>1, <2>1, <2>2
<1>6. Contract!Cardinality(Contract!Using') <= limit'
  BY <1>0 DEF UseWithinLimit
<1> QED BY <1>1, <1>2, <1>3, <1>4, <1>5, <1>6 DEF Contract!Next, Contract!Shrink, Phase

LEMMA AcquireFailsImplements ==
  ASSUME PoolInv, TypeOK', NEW r \in Requests, NEW e \in OpenErrors, AcquireFails(r, e)
  PROVE  Contract!Next
<1> USE DEF PoolInv
<1>1. /\ pc[r] = "opening" /\ r \in AttachedRequests /\ r \notin HoldingRequests
      /\ ~(e = "capacity" /\ open - 1 > 0)
      /\ UNCHANGED <<limit, destroyed>>
  BY DEF AcquireFails, AttachedRequests, Attached, HoldingRequests
<1>2. \A q \in Range(waiting) : q \in Requests /\ pc[q] = "parked"
  BY DEF QueueIsParked
<1>3. ASSUME ~destroyed, open - 1 <= 0 PROVE HoldingRequests = {} /\ idle = {}
  <2>1. {client[q] : q \in AttachedRequests \ {r}} = {} /\ idle = {}
    BY <1>1, <1>3, NothingLeft
  <2>2. HoldingRequests \subseteq AttachedRequests \ {r}
    BY <1>1 DEF HoldingRequests, AttachedRequests, Attached
  <2> QED BY <2>1, <2>2
<1>4. CASE open - 1 = 0 /\ idle = {}
  <2> DEFINE S == {r} \cup Range(waiting)
  <2>1. RejectAll(S, e)
    BY <1>4 DEF AcquireFails
  <2>2. S # {} /\ S \in SUBSET Requests /\ \A q \in S : pc[q] \in {"parked", "opening", "replacing"}
    BY <1>1, <1>2
  <2>3. HoldingRequests = {} \/ destroyed
    BY <1>3, <1>4 DEF TypeOK
  <2> HIDE DEF S
  <2> QED BY <1>1, <2>1, <2>2, <2>3, RefuseImplements
<1>5. CASE ~(open - 1 = 0 /\ idle = {})
  <2>1. RejectAll({r}, e)
    BY <1>5 DEF AcquireFails
  <2>2. e = "fault" \/ destroyed
    <3> SUFFICES ASSUME e = "capacity", ~destroyed PROVE FALSE
      BY DEF OpenErrors
    <3>1. open - 1 <= 0
      BY <1>1 DEF TypeOK
    <3>2. open = Cardinality(Live) /\ Cardinality(Live) \in Nat /\ Cardinality(Live) # 0
      BY <1>1, DropFacts, LiveFacts DEF OpenCountsLive
    <3>3. idle = {}
      BY <1>3, <3>1
    <3> QED BY <1>5, <3>1, <3>2, <3>3
  <2> QED BY <1>1, <2>1, <2>2, RefuseImplements
<1> QED BY <1>4, <1>5

LEMMA CommandImplements ==
  ASSUME PoolInv, TypeOK', NEW r \in Requests, CommandSettles(r)
  PROVE  Contract!Next
<1> USE DEF PoolInv, PhaseMeaning
<1> DEFINE h == Head(waiting)
<1>1. /\ pc[r] = "holding" /\ Phase[r] = "using"
      /\ UNCHANGED <<limit, destroyed>>
      /\ \E e \in {"served", "command"} : outcome' = [outcome EXCEPT ![r] = e]
  BY PhaseFacts DEF CommandSettles, CommandSucceeds, CommandFails
<1>2. waiting # <<>> => h \in Requests /\ pc[h] = "parked" /\ h # r /\ Phase[h] = "waiting"
  <2> SUFFICES ASSUME waiting # <<>>
               PROVE  h \in Requests /\ pc[h] = "parked" /\ h # r /\ Phase[h] = "waiting"
    OBVIOUS
  <2>1. h \in Requests /\ pc[h] = "parked"
    BY ShiftFacts DEF QueueIsParked, Distinct, TypeOK
  <2> QED BY <1>1, <2>1, PhaseFacts
<1> HIDE DEF h
<1>3. CASE pc' = [pc EXCEPT ![r] = "done"] \/ pc' = [pc EXCEPT ![r] = "failed"]
  <2>1. Phase' = [Phase EXCEPT ![r] = "gone"]
    BY <1>3, OneMoves DEF Phases, Settled
  <2> QED BY <1>1, <2>1 DEF Contract!Next, Contract!Finish, Phase
<1>4. CASE waiting # <<>> /\ pc' = [pc EXCEPT ![r] = "done", ![h] = "holding"]
  <2>1. \A q \in Requests :
          pc'[q] = IF q = h THEN "holding" ELSE IF q = r THEN "done" ELSE pc[q]
    BY <1>2, <1>4 DEF TypeOK
  <2>2. Phase'[h] = "using" /\ Phase'[r] = "gone"
    BY <1>2, <1>4, <2>1, PhaseFactsNext
  <2>3. \A q \in Requests : q # h /\ q # r => Phase'[q] = Phase[q]
    BY <2>1 DEF Phase, ServicePhase
  <2>4. Phase' = [Phase EXCEPT ![r] = "gone", ![h] = "using"]
    BY <1>2, <1>4, <2>2, <2>3 DEF Phase
  <2> QED BY <1>1, <1>2, <1>4, <2>4 DEF Contract!Next, Contract!Finish, Phase
<1>5. CASE waiting # <<>> /\ pc' = [pc EXCEPT ![r] = "failed", ![h] = "replacing"]
  <2>1. \A q \in Requests :
          pc'[q] = IF q = h THEN "replacing" ELSE IF q = r THEN "failed" ELSE pc[q]
    BY <1>2, <1>5 DEF TypeOK
  <2>2. Phase'[h] = Phase[h] /\ Phase'[r] = "gone"
    BY <1>2, <1>5, <2>1, PhaseFactsNext
  <2>3. \A q \in Requests : q # h /\ q # r => Phase'[q] = Phase[q]
    BY <2>1 DEF Phase, ServicePhase
  <2>4. Phase' = [Phase EXCEPT ![r] = "gone"]
    BY <1>2, <1>5, <2>2, <2>3 DEF Phase
  <2> QED BY <1>1, <2>4 DEF Contract!Next, Contract!Finish, Phase
<1> QED
  BY <1>3, <1>4, <1>5
     DEF CommandSettles, CommandSucceeds, CommandFails, ReleaseIdle, ReleaseToWaiter,
         DiscardOnly, DiscardAndReplace, h

(* A replacement that cannot be had: served by an idle connection, told why, *)
(* or put back where it was, which the contract does not see.                *)
LEMMA ReplaceFailsImplements ==
  ASSUME PoolInv, TypeOK', NEW r \in Requests, NEW e \in OpenErrors, ReplaceFails(r, e)
  PROVE  Contract!Next \/ UNCHANGED Contract!cvars
<1> USE DEF PoolInv
<1>1. /\ pc[r] = "replacing" /\ r \in AttachedRequests /\ r \notin HoldingRequests
      /\ UNCHANGED <<limit, destroyed>>
  BY DEF ReplaceFails, AttachedRequests, Attached, HoldingRequests
<1>2. CASE ReplaceTakesIdle(r)
  <2>1. pc' = [pc EXCEPT ![r] = "holding"] /\ outcome' = outcome
    BY <1>2 DEF ReplaceTakesIdle, Attach
  <2> QED BY <1>1, <2>1, AdmitImplements
<1>3. CASE ReplaceGivesUp(r, e)
  <2> DEFINE S == {r} \cup Range(waiting)
  <2>1. idle = {} /\ open - 1 = 0 /\ RejectAll(S, e)
    BY <1>3 DEF ReplaceGivesUp
  <2>2. S # {} /\ S \in SUBSET Requests /\ \A q \in S : pc[q] \in {"parked", "opening", "replacing"}
    BY <1>1 DEF QueueIsParked
  <2>3. HoldingRequests = {} \/ destroyed
    <3> SUFFICES ASSUME ~destroyed PROVE HoldingRequests = {}
      OBVIOUS
    <3>1. open - 1 <= 0
      BY <2>1 DEF TypeOK
    <3>2. {client[q] : q \in AttachedRequests \ {r}} = {}
      BY <1>1, <3>1, NothingLeft
    <3>3. HoldingRequests \subseteq AttachedRequests \ {r}
      BY <1>1 DEF HoldingRequests, AttachedRequests, Attached
    <3> QED BY <3>2, <3>3
  <2> HIDE DEF S
  <2> QED BY <1>1, <2>1, <2>2, <2>3, RefuseImplements
<1>4. CASE ReplaceRequeues(r)
  <2>1. pc' = [pc EXCEPT ![r] = "parked"] /\ outcome' = outcome
    BY <1>4 DEF ReplaceRequeues, Attach
  <2>2. Phase' = [Phase EXCEPT ![r] = "waiting"] /\ Phase[r] = "waiting"
    BY <1>1, <2>1, OneMoves, PhaseFacts DEF Phases, PhaseMeaning
  <2>3. Phase' = Phase
    BY <2>2 DEF Phase
  <2> QED BY <1>1, <2>1, <2>3 DEF Contract!cvars, Phase
<1> QED BY <1>2, <1>3, <1>4 DEF ReplaceFails

LEMMA DestroyImplements == PoolInv /\ TypeOK' /\ Destroy => Contract!Next
<1> SUFFICES ASSUME PoolInv, TypeOK', Destroy PROVE Contract!Next
  OBVIOUS
<1>1. /\ destroyed' = TRUE /\ limit' = limit
      /\ Contract!Leave(Range(waiting), "destroyed")
  BY RejectedLeave DEF Destroy
<1>2. Range(waiting) \in SUBSET {r \in Requests : Phase[r] = "waiting"}
  BY PhaseFacts DEF PoolInv, QueueIsParked, PhaseMeaning
<1>3. Contract!Close
  BY <1>1, <1>2 DEF Contract!Close, Phase
<1> QED BY <1>3 DEF Contract!Next

-----------------------------------------------------------------------------

LEMMA InitImplements == Init => Contract!Init
<1> SUFFICES ASSUME Init PROVE Contract!Init
  OBVIOUS
<1>1. Phase = [r \in Requests |-> "new"]
  BY InitTypeOK, PhaseFacts DEF Init, PhaseMeaning, Phase
<1> QED BY <1>1 DEF Init, Contract!Init, Phase

LEMMA NextImplements ==
  PoolInv /\ PoolInv' /\ [Next]_vars => [Contract!Next]_(Contract!cvars)
<1> SUFFICES ASSUME PoolInv, PoolInv', [Next]_vars
             PROVE  Contract!Next \/ UNCHANGED Contract!cvars
  OBVIOUS
<1>1. TypeOK'
  BY DEF PoolInv
<1>2. ASSUME NEW r \in Requests, AcquireOpened(r) \/ ReplaceOpened(r) PROVE Contract!Next
  <2>1. /\ pc[r] \in {"opening", "replacing"}
        /\ pc' = [pc EXCEPT ![r] = "holding"]
        /\ UNCHANGED <<outcome, limit, destroyed>>
    BY <1>2 DEF AcquireOpened, ReplaceOpened, Attach
  <2> QED BY <1>1, <2>1, AdmitImplements
<1>3. ASSUME NEW r \in Requests, AcquireSettles(r) PROVE Contract!Next
  BY <1>1, <1>2, <1>3, ShrinkImplements, AcquireFailsImplements DEF AcquireSettles
<1>4. ASSUME NEW r \in Requests, ReplaceSettles(r)
      PROVE  Contract!Next \/ UNCHANGED Contract!cvars
  BY <1>1, <1>2, <1>4, ReplaceFailsImplements DEF ReplaceSettles
<1>5. CASE UNCHANGED vars
  BY <1>5 DEF vars, Contract!cvars, ServicePhase
<1> QED
  BY <1>1, <1>3, <1>4, <1>5, CallImplements, CommandImplements, DestroyImplements DEF Next

(* The pool keeps its contract (README "Connection pool"): a caller is       *)
(* admitted only while fewer than the limit are being served, leaves once,   *)
(* with one outcome, and callers who wait are refused for capacity, or       *)
(* several at a time, only when nobody is being served.                      *)
THEOREM PoolKeepsContract == Spec => ContractSpec
<1>1. Spec => Contract!Spec
  BY PoolInvariant, InitImplements, NextImplements, PTL DEF Spec, Contract!Spec
<1> QED BY <1>1 DEF ContractSpec
-----------------------------------------------------------------------------
(* Against a provider with a cap, for every cap, every configured number of *)
(* connections and every set of calls, while no command fails.              *)

(* The cap costs no call its result: the safety part of EveryCallServed.    *)
NobodyFails == \A r \in Requests : pc[r] # "failed"

(* While connections stay up, an accepted session is a live connection, and *)
(* the provider refuses a login only beside Cap others it has accepted.     *)
SteadyInv ==
  /\ PoolInv
  /\ ~destroyed
  /\ lingering = 0
  /\ accepted \subseteq Live
  /\ refused \subseteq Live
  /\ accepted \cap refused = {}
  /\ refused # {} => Cap <= Cardinality(accepted)
  /\ LimitCoversCap
  /\ NobodyFails

LEMMA CapTypes == Cap \in Nat /\ Cap # 0 /\ Configured \in Nat /\ Configured # 0
BY CapAssumption, ConnectionsAssumption DEF Configured

(* A refused connection is one more than the cap. *)
LEMMA RefusedIsBeyondCap ==
  ASSUME SteadyInv, NEW c \in refused
  PROVE  open \in Nat /\ Cap < open
<1>1. /\ open = Cardinality(Live) /\ Cardinality(Live) \in Nat /\ IsFiniteSet(Live)
      /\ Cardinality(Live \ {c}) = Cardinality(Live) - 1 /\ IsFiniteSet(Live \ {c})
  BY LiveFacts, FS_RemoveElement DEF SteadyInv, PoolInv, OpenCountsLive
<1>2. accepted \in SUBSET (Live \ {c}) /\ Cap <= Cardinality(accepted)
  BY DEF SteadyInv
<1>3. Cardinality(accepted) <= Cardinality(Live \ {c}) /\ Cardinality(accepted) \in Nat
  BY <1>1, <1>2, FS_Subset, FS_CardinalityType
<1> QED BY <1>1, <1>2, <1>3, CapTypes

LEMMA CallKeeps ==
  ASSUME SteadyInv, PoolInv', NEW r \in Requests, CallAtProvider(r)
  PROVE  SteadyInv'
<1>1. UNCHANGED <<accepted, refused, lingering>> /\ (CallOpens(r) \/ CallWaits(r))
  BY DEF CallAtProvider, Call, CallAfterDestroy, provider, SteadyInv
<1>2. UNCHANGED <<limit, destroyed>>
  BY <1>1 DEF CallOpens, CallWaits
<1>3. Live \subseteq Live'
  BY <1>1, CallOpensStep, CallWaitsStep DEF SteadyInv, PoolInv
<1>4. NobodyFails'
  BY <1>1 DEF CallOpens, CallWaits, WaitForConnection, Attach, NobodyFails, SteadyInv,
              PoolInv, TypeOK
<1> QED BY <1>1, <1>2, <1>3, <1>4 DEF SteadyInv, LimitCoversCap

LEMMA AcceptanceKeeps ==
  ASSUME SteadyInv, PoolInv', NEW r \in Requests, AcceptanceArrives(r)
  PROVE  SteadyInv'
<1>1. UNCHANGED <<accepted, refused, lingering>> /\ (AcquireOpened(r) \/ ReplaceOpened(r))
  BY DEF AcceptanceArrives, provider
<1>2. UNCHANGED <<limit, destroyed>> /\ pc' = [pc EXCEPT ![r] = "holding"]
  BY <1>1 DEF AcquireOpened, ReplaceOpened, Attach
<1>3. Live' = Live
  BY <1>1, OpenedStep DEF SteadyInv, PoolInv
<1>4. NobodyFails'
  BY <1>2 DEF NobodyFails, SteadyInv, PoolInv, TypeOK
<1> QED BY <1>1, <1>2, <1>3, <1>4 DEF SteadyInv, LimitCoversCap

LEMMA ServesKeeps ==
  ASSUME SteadyInv, PoolInv', NEW r \in Requests, ServesAtProvider(r)
  PROVE  SteadyInv'
<1>1. UNCHANGED <<accepted, refused, lingering>> /\ CommandSucceeds(r)
  BY DEF ServesAtProvider, provider
<1>2. UNCHANGED <<limit, destroyed>>
  BY <1>1 DEF CommandSucceeds
<1>3. Live' = Live
  BY <1>1, CommandSucceedsStep DEF SteadyInv, PoolInv
<1>4. NobodyFails'
  BY <1>1 DEF CommandSucceeds, ReleaseIdle, ReleaseToWaiter, NobodyFails, SteadyInv,
              PoolInv, TypeOK
<1> QED BY <1>1, <1>2, <1>3, <1>4 DEF SteadyInv, LimitCoversCap

LEMMA RefusalKeeps ==
  ASSUME SteadyInv, PoolInv', NEW r \in Requests, RefusalArrives(r)
  PROVE  SteadyInv'
<1>1. /\ client[r] \in refused /\ refused' = refused \ {client[r]}
      /\ UNCHANGED <<accepted, lingering>>
      /\ AcquireShrinks(r) \/ AcquireFails(r, "capacity") \/ ReplaceFails(r, "capacity")
  BY DEF RefusalArrives
<1>2. open \in Nat /\ Cap < open /\ open - 1 > 0
  BY <1>1, RefusedIsBeyondCap, CapTypes
<1>3. ~AcquireFails(r, "capacity") /\ ~ReplaceGivesUp(r, "capacity")
  BY <1>2 DEF AcquireFails, ReplaceGivesUp
<1>4. client[r] \notin accepted
  BY <1>1 DEF SteadyInv
<1>5. CASE AcquireShrinks(r)
  <2>1. limit' = open - 1 /\ UNCHANGED destroyed /\ WaitForConnection(r)
    BY <1>5 DEF AcquireShrinks
  <2>2. LimitCoversCap'
    BY <1>2, <2>1, CapTypes DEF LimitCoversCap
  <2>3. Live' = Live \ {client[r]}
    BY <1>5, AcquireShrinksStep DEF SteadyInv, PoolInv
  <2>4. NobodyFails'
    BY <2>1 DEF WaitForConnection, Attach, NobodyFails, SteadyInv, PoolInv, TypeOK
  <2> QED BY <1>1, <1>4, <2>1, <2>2, <2>3, <2>4 DEF SteadyInv
<1>6. CASE ReplaceFails(r, "capacity")
  <2>1. UNCHANGED <<limit, destroyed>> /\ (ReplaceTakesIdle(r) \/ ReplaceRequeues(r))
    BY <1>3, <1>6 DEF ReplaceFails
  <2>2. Live' = Live \ {client[r]}
    BY <1>6, ReplaceFailsStep DEF SteadyInv, PoolInv, OpenErrors
  <2>3. NobodyFails'
    BY <2>1 DEF ReplaceTakesIdle, ReplaceRequeues, Attach, NobodyFails, SteadyInv, PoolInv, TypeOK
  <2> QED BY <1>1, <1>4, <2>1, <2>2, <2>3 DEF SteadyInv, LimitCoversCap
<1> QED BY <1>1, <1>3, <1>5, <1>6

LEMMA ProviderKeeps ==
  ASSUME SteadyInv, PoolInv', NEW c \in Clients, ProviderAccepts(c) \/ ProviderRefuses(c)
  PROVE  SteadyInv'
<1>1. UNCHANGED vars /\ lingering' = lingering
  BY DEF ProviderAccepts, ProviderRefuses
<1>2. Live' = Live /\ LimitCoversCap' /\ NobodyFails' /\ ~destroyed'
  BY <1>1 DEF vars, Live, AttachedRequests, LimitCoversCap, NobodyFails, SteadyInv
<1>3. c \in Live /\ c \notin accepted /\ c \notin refused
  BY DEF ProviderAccepts, ProviderRefuses, Undecided, Live, AttachedRequests, Attached
<1>4. IsFiniteSet(accepted) /\ Cardinality(accepted) \in Nat
  BY LiveFacts, FS_Subset, FS_CardinalityType DEF SteadyInv, PoolInv
<1>5. CASE ProviderAccepts(c)
  <2>1. accepted' = accepted \cup {c} /\ refused' = refused
    BY <1>5 DEF ProviderAccepts
  <2>2. Cardinality(accepted') = Cardinality(accepted) + 1
    BY <1>3, <1>4, <2>1, FS_AddElement
  <2> QED BY <1>1, <1>2, <1>3, <1>4, <2>1, <2>2, CapTypes DEF SteadyInv
<1>6. CASE ProviderRefuses(c)
  <2>1. accepted' = accepted /\ refused' = refused \cup {c} /\ Sessions >= Cap
    BY <1>6 DEF ProviderRefuses
  <2>2. Cap <= Cardinality(accepted)
    BY <1>4, <2>1, CapTypes DEF Sessions, SteadyInv
  <2> QED BY <1>1, <1>2, <1>3, <2>1, <2>2 DEF SteadyInv
<1> QED BY <1>5, <1>6

LEMMA CapInitEstablishes == CapInit => SteadyInv
<1> SUFFICES ASSUME CapInit PROVE SteadyInv
  OBVIOUS
<1>1. PoolInv
  BY InitPoolInv DEF CapInit
<1>2. limit = Configured /\ ~destroyed /\ pc = [r \in Requests |-> "new"]
  BY DEF CapInit, Init
<1> QED BY <1>1, <1>2, CapTypes DEF CapInit, SteadyInv, LimitCoversCap, NobodyFails

LEMMA SteadyKeeps == SteadyInv /\ [SteadyNext]_pvars => SteadyInv'
<1> SUFFICES ASSUME SteadyInv, [SteadyNext]_pvars PROVE SteadyInv'
  OBVIOUS
<1>1. [Next]_vars
  BY DEF SteadyNext, ProviderAccepts, ProviderRefuses, CallAtProvider, AcceptanceArrives,
         RefusalArrives, ServesAtProvider, Next, AcquireSettles, ReplaceSettles,
         CommandSettles, OpenErrors, pvars
<1>2. PoolInv'
  BY <1>1, NextPoolInv DEF SteadyInv
<1>3. CASE UNCHANGED pvars
  BY <1>2, <1>3 DEF pvars, provider, vars, SteadyInv, Live, AttachedRequests,
                    LimitCoversCap, NobodyFails
<1> QED BY <1>2, <1>3, ProviderKeeps, CallKeeps, AcceptanceKeeps, RefusalKeeps, ServesKeeps
        DEF SteadyNext

(* However the answers of the provider are delayed, the learned limit never *)
(* falls below the cap of the account: a refusal is counted against Cap     *)
(* sessions the pool holds (pool.ts:160-172).  Not so once connections come *)
(* and go: that is the finding of the run provider_churn.                   *)
THEOREM LimitStaysAtCap == SteadySpec => []LimitCoversCap
<1>1. SteadyInv => LimitCoversCap
  BY DEF SteadyInv
<1> QED BY <1>1, CapInitEstablishes, SteadyKeeps, PTL DEF SteadySpec

(* No call fails for the cap: there is always another connection to wait    *)
(* for (pool.ts:162-173, 264-281).                                          *)
THEOREM CapFailsNobody == SteadySpec => []NobodyFails
<1>1. SteadyInv => NobodyFails
  BY DEF SteadyInv
<1> QED BY <1>1, CapInitEstablishes, SteadyKeeps, PTL DEF SteadySpec
=============================================================================
