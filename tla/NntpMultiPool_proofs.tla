------------------------- MODULE NntpMultiPool_proofs -------------------------
(***************************************************************************)
(* Proofs about NntpMultiPool, for every number of servers, every choice   *)
(* of overflow servers, any set of walks and any DownAfter.                *)
(***************************************************************************)
EXTENDS NntpMultiPool, FiniteSetTheorems, SequenceTheorems, WellFoundedInduction, TLAPS

Reasons  == {"gap", "capacity", "auth", "fault"}
Attempts == Seq([server : Servers, reason : Reasons])
States   == [requireSpillover : BOOLEAN, firstCapacity : 0 .. N, attempts : Attempts]
Results  == {"none", "served", "fatal", "capacity", "missing", "unavailable"}

MultiTypeOK ==
  /\ pc \in [Walks -> {"new", "asking", "settled"}]
  /\ asking \in [Walks -> 0 .. N]
  /\ excluded \in [Walks -> SUBSET Servers]
  /\ walk \in [Walks -> States]
  /\ result \in [Walks -> Results]
  /\ down \in [Servers -> {"up", "auth", "fault"}]
  /\ strikes \in [Servers -> Nat]

-----------------------------------------------------------------------------
(* The inductive invariant.  What is said of a walk is said of its WalkState *)
(* and of the position i it has come to: the server it asks, or N + 1 when   *)
(* it has ended.                                                             *)

Position(w) == IF asking[w] = 0 THEN N + 1 ELSE asking[w]

SaidIn(state, s, e) ==
  \E i \in DOMAIN state.attempts : state.attempts[i] = [server |-> s, reason |-> e]

AskedIn(state) == {state.attempts[i].server : i \in DOMAIN state.attempts}

(* In the order of the list, skipping the excluded, and past a full server *)
(* only the overflow ones.                                                 *)
Orderly(state, ex, i) ==
  /\ \A j \in DOMAIN state.attempts :
       state.attempts[j].server < i /\ state.attempts[j].server \notin ex
  /\ \A k, j \in DOMAIN state.attempts : k < j =>
       /\ state.attempts[k].server < state.attempts[j].server
       /\ state.attempts[k].reason = "capacity" => state.attempts[j].server \in Spillover

(* requireSpillover and firstCapacity sum up the attempts. *)
SummedUp(state) ==
  /\ state.requireSpillover <=> state.firstCapacity # 0
  /\ state.firstCapacity # 0 => SaidIn(state, state.firstCapacity, "capacity")
  /\ \A s \in Servers : SaidIn(state, s, "capacity") =>
       state.firstCapacity # 0 /\ state.firstCapacity <= s

(* No server before i was passed over that could have been asked. *)
Covered(state, ex, i, downNow) ==
  \A s \in Servers : s < i =>
    \/ s \in AskedIn(state)
    \/ s \in ex
    \/ downNow[s] # "up"
    \/ state.requireSpillover /\ s \notin Spillover

PhaseOK(w) ==
  /\ pc[w] = "asking" <=> asking[w] # 0
  /\ pc[w] # "settled" => result[w] = "none"
  /\ pc[w] = "new" => walk[w] = NewWalk
  /\ asking[w] # 0 =>
       /\ asking[w] \notin excluded[w]
       /\ walk[w].requireSpillover => asking[w] \in Spillover

WalkOK(w) ==
  /\ PhaseOK(w)
  /\ Orderly(walk[w], excluded[w], Position(w))
  /\ SummedUp(walk[w])
  /\ pc[w] = "asking" => Covered(walk[w], excluded[w], asking[w], down)
  /\ result[w] = "capacity" => walk[w].firstCapacity # 0
  /\ result[w] = "missing" =>
       AllGone(walk[w].attempts) /\ Covered(walk[w], excluded[w], N + 1, down)

Faulted(s) == {w \in Walks : Said(w, s, "fault")}

(* The strikes of a server are never more than the walks that saw it fail. *)
StrikesEarned ==
  \A s \in Servers :
    /\ IsFiniteSet(Faulted(s))
    /\ strikes[s] <= Cardinality(Faulted(s))
    /\ down[s] = "fault" => Cardinality(Faulted(s)) >= DownAfter
    /\ down[s] = "auth" => s # Primary /\ \E w \in Walks : Said(w, s, "auth")

MultiInv == MultiTypeOK /\ (\A w \in Walks : WalkOK(w)) /\ StrikesEarned

-----------------------------------------------------------------------------
(* The first candidate, and what recording an attempt adds to a walk. *)

LEMMA FirstIsLeast ==
  ASSUME NEW S \in SUBSET Servers, S # {}
  PROVE  First(S) \in S /\ \A t \in S : First(S) <= t
<1>1. S \subseteq Nat
  BY DEF Servers
<1>2. PICK m \in S : \A t \in S : ~(<<t, m>> \in OpToRel(<, Nat))
  BY <1>1, NatLessThanWellFounded, WFMin
<1>3. ASSUME NEW t \in S PROVE m <= t
  <2>1. ~(t < m)
    BY <1>1, <1>2 DEF OpToRel
  <2> QED BY <1>1, <2>1
<1> QED BY <1>3 DEF First

LEMMA RecordedFacts ==
  ASSUME NEW w \in Walks, walk[w] \in States, asking[w] \in Servers, NEW e \in Reasons
  PROVE  LET new == Recorded(w, e) IN
         /\ new \in States
         /\ new.requireSpillover = walk[w].requireSpillover
         /\ new.firstCapacity = walk[w].firstCapacity
         /\ DOMAIN new.attempts = 1 .. Len(walk[w].attempts) + 1
         /\ DOMAIN walk[w].attempts = 1 .. Len(walk[w].attempts)
         /\ Len(walk[w].attempts) \in Nat
         /\ \A j \in DOMAIN walk[w].attempts :
              /\ new.attempts[j] = walk[w].attempts[j]
              /\ walk[w].attempts[j] \in [server : Servers, reason : Reasons]
         /\ new.attempts[Len(walk[w].attempts) + 1] = [server |-> asking[w], reason |-> e]
<1> DEFINE a == walk[w].attempts
           one == [server |-> asking[w], reason |-> e]
           new == Recorded(w, e)
<1>1. a \in Attempts /\ one \in [server : Servers, reason : Reasons]
  BY DEF States
<1>2. /\ Append(a, one) \in Attempts
      /\ Len(Append(a, one)) = Len(a) + 1
      /\ \A j \in 1 .. Len(a) : Append(a, one)[j] = a[j]
      /\ Append(a, one)[Len(a) + 1] = one
  BY <1>1, AppendProperties DEF Attempts
<1>3. /\ Len(a) \in Nat /\ DOMAIN a = 1 .. Len(a) /\ DOMAIN Append(a, one) = 1 .. Len(a) + 1
      /\ \A j \in DOMAIN a : a[j] \in [server : Servers, reason : Reasons]
  BY <1>1, <1>2, LenProperties, ElementOfSeq DEF Attempts
<1>4. /\ new.attempts = Append(a, one) /\ new \in States
      /\ new.requireSpillover = walk[w].requireSpillover
      /\ new.firstCapacity = walk[w].firstCapacity
  BY <1>2 DEF Recorded, States
<1> QED BY <1>2, <1>3, <1>4

(* The attempt is the last so far and the only thing new to be said. *)
LEMMA RecordedSays ==
  ASSUME NEW w \in Walks, walk[w] \in States, asking[w] \in Servers, NEW e \in Reasons,
         NEW state, state.attempts = Recorded(w, e).attempts
  PROVE  /\ \A s, r : SaidIn(state, s, r) <=> SaidIn(walk[w], s, r) \/ (s = asking[w] /\ r = e)
         /\ AskedIn(state) = AskedIn(walk[w]) \cup {asking[w]}
<1> DEFINE a == walk[w].attempts
           n == Len(walk[w].attempts)
<1>1. /\ DOMAIN state.attempts = 1 .. n + 1 /\ DOMAIN a = 1 .. n /\ n \in Nat
      /\ \A j \in 1 .. n : state.attempts[j] = a[j]
      /\ state.attempts[n + 1] = [server |-> asking[w], reason |-> e]
  BY RecordedFacts
<1> HIDE DEF n
<1>2. n + 1 \in 1 .. n + 1 /\ 1 .. n + 1 = (1 .. n) \cup {n + 1}
  BY <1>1
<1>3. ASSUME NEW s, NEW r
      PROVE  SaidIn(state, s, r) <=> SaidIn(walk[w], s, r) \/ (s = asking[w] /\ r = e)
  BY <1>1, <1>2 DEF SaidIn
<1>4. AskedIn(state) = AskedIn(walk[w]) \cup {asking[w]}
  BY <1>1, <1>2 DEF AskedIn
<1> QED BY <1>3, <1>4

LEMMA RecordedOrderly ==
  ASSUME NEW w \in Walks, walk[w] \in States, asking[w] \in Servers, NEW e \in Reasons,
         NEW state, state.attempts = Recorded(w, e).attempts,
         Orderly(walk[w], excluded[w], asking[w]), SummedUp(walk[w]), PhaseOK(w)
  PROVE  Orderly(state, excluded[w], asking[w] + 1)
<1> DEFINE a == walk[w].attempts
           n == Len(walk[w].attempts)
           b == state.attempts
<1>1. /\ DOMAIN b = 1 .. n + 1 /\ DOMAIN a = 1 .. n /\ n \in Nat
      /\ \A j \in 1 .. n : b[j] = a[j] /\ a[j] \in [server : Servers, reason : Reasons]
      /\ b[n + 1] = [server |-> asking[w], reason |-> e]
  BY RecordedFacts
<1> HIDE DEF n
<1>2. asking[w] \in Int /\ asking[w] # 0 /\ \A j \in 1 .. n : b[j].server \in Int
  BY <1>1 DEF Servers
<1>3. asking[w] \notin excluded[w] /\ (walk[w].requireSpillover => asking[w] \in Spillover)
  BY <1>2 DEF PhaseOK
<1>4. ASSUME NEW j \in 1 .. n + 1 PROVE b[j].server < asking[w] + 1 /\ b[j].server \notin excluded[w]
  <2>1. CASE j \in 1 .. n
    <3>1. a[j].server < asking[w] /\ a[j].server \notin excluded[w]
      BY <1>1, <2>1 DEF Orderly
    <3> QED BY <1>1, <1>2, <2>1, <3>1, SMTT(20)
  <2>2. CASE j = n + 1
    BY <1>1, <1>2, <1>3, <2>2
  <2> QED BY <1>1, <2>1, <2>2
<1>5. ASSUME NEW k \in 1 .. n + 1, NEW j \in 1 .. n + 1, k < j
      PROVE  /\ b[k].server < b[j].server
             /\ b[k].reason = "capacity" => b[j].server \in Spillover
  <2>1. CASE j \in 1 .. n
    <3>1. k \in 1 .. n
      BY <1>1, <1>5, <2>1
    <3> QED BY <1>1, <1>5, <2>1, <3>1 DEF Orderly
  <2>2. CASE j = n + 1
    <3>1. k \in 1 .. n /\ b[k] = a[k]
      BY <1>1, <1>5, <2>2
    <3>2. b[j].server = asking[w] /\ b[k].server < asking[w]
      BY <1>1, <2>2, <3>1 DEF Orderly
    <3>3. ASSUME b[k].reason = "capacity" PROVE asking[w] \in Spillover
      <4>1. a[k].server \in Servers /\ a[k] = [server |-> a[k].server, reason |-> "capacity"]
        BY <1>1, <3>1, <3>3
      <4>2. SaidIn(walk[w], a[k].server, "capacity")
        BY <1>1, <3>1, <4>1 DEF SaidIn
      <4> QED BY <1>3, <4>1, <4>2 DEF SummedUp
    <3> QED BY <3>2, <3>3
  <2> QED BY <1>1, <2>1, <2>2
<1> QED BY <1>1, <1>4, <1>5 DEF Orderly

(* Servers never come back into the rotation. *)
NobodyReturns == \A s \in Servers : down[s] # "up" => down'[s] # "up"

LEMMA RecordedCovered ==
  ASSUME NEW w \in Walks, walk[w] \in States, asking[w] \in Servers, NEW e \in Reasons,
         NEW state, state.attempts = Recorded(w, e).attempts,
         walk[w].requireSpillover => state.requireSpillover,
         Covered(walk[w], excluded[w], asking[w], down), NobodyReturns
  PROVE  Covered(state, excluded[w], asking[w] + 1, down')
<1> SUFFICES ASSUME NEW s \in Servers, s < asking[w] + 1
             PROVE  \/ s \in AskedIn(state)
                    \/ s \in excluded[w]
                    \/ down'[s] # "up"
                    \/ state.requireSpillover /\ s \notin Spillover
  BY DEF Covered
<1>1. AskedIn(state) = AskedIn(walk[w]) \cup {asking[w]}
  BY RecordedSays
<1>2. s < asking[w] \/ s = asking[w]
  BY DEF Servers
<1> QED BY <1>1, <1>2 DEF Covered, NobodyReturns

(* A walk that records nothing only has to see that no server comes back. *)
LEMMA OthersKeep ==
  ASSUME NEW q \in Walks, WalkOK(q), NobodyReturns,
         pc'[q] = pc[q], asking'[q] = asking[q], excluded'[q] = excluded[q],
         walk'[q] = walk[q], result'[q] = result[q]
  PROVE  WalkOK(q)'
<1>1. ASSUME NEW i, Covered(walk[q], excluded[q], i, down)
      PROVE  Covered(walk'[q], excluded'[q], i, down')
  BY <1>1 DEF Covered, NobodyReturns
<1>2. PhaseOK(q)'
  BY DEF WalkOK, PhaseOK
<1>3. Orderly(walk[q], excluded[q], Position(q))' /\ SummedUp(walk[q])'
  BY DEF WalkOK, Position, Orderly, SummedUp, SaidIn
<1>4. (result[q] = "missing" => AllGone(walk[q].attempts))'
  BY DEF WalkOK, AllGone
<1> QED BY <1>1, <1>2, <1>3, <1>4 DEF WalkOK

(* The loop of #run from position i on: the next server asked, or the end,  *)
(* leaves the walk as the invariant wants it.                               *)
LEMMA ProceedKeeps ==
  ASSUME NEW w \in Walks, NEW i \in 1 .. N + 1, NEW ex \in SUBSET Servers, NEW state \in States,
         Proceed(w, i, ex, state), MultiTypeOK, pc[w] # "settled", result[w] = "none",
         excluded'[w] = ex, walk'[w] = state,
         Orderly(state, ex, i), SummedUp(state), Covered(state, ex, i, down')
  PROVE  /\ WalkOK(w)'
         /\ pc' \in [Walks -> {"new", "asking", "settled"}]
         /\ asking' \in [Walks -> 0 .. N]
         /\ result' \in [Walks -> Results]
         /\ \A q \in Walks \ {w} :
              pc'[q] = pc[q] /\ asking'[q] = asking[q] /\ result'[q] = result[q]
<1> DEFINE next == Candidates(i, ex, state, down')
<1>1. next \subseteq Servers
  BY DEF Candidates, Servers
<1>2. N \in Nat /\ \A j \in DOMAIN state.attempts : state.attempts[j].server \in Servers
  <2>1. state.attempts \in Seq([server : Servers, reason : Reasons])
    BY DEF States, Attempts
  <2>2. \A j \in DOMAIN state.attempts : state.attempts[j] \in [server : Servers, reason : Reasons]
    BY <2>1, ElementOfSeq, LenProperties
  <2> QED BY <2>2, ServersAssumption
<1>3. CASE next # {}
  <2> DEFINE f == First(next)
  <2>1. f \in next /\ \A t \in next : f <= t
    BY <1>1, <1>3, FirstIsLeast
  <2>2. /\ pc' = [pc EXCEPT ![w] = "asking"]
        /\ asking' = [asking EXCEPT ![w] = f]
        /\ UNCHANGED result
    BY <1>3 DEF Proceed
  <2>3. /\ f \in Servers /\ f \in Int /\ f # 0 /\ i <= f
        /\ f \notin ex
        /\ state.requireSpillover => f \in Spillover
    BY <2>1 DEF Candidates, Servers
  <2> HIDE DEF f
  <2>4. pc'[w] = "asking" /\ asking'[w] = f /\ result'[w] = "none"
    BY <2>2 DEF MultiTypeOK
  <2>5. Orderly(state, ex, f)
    BY <1>2, <2>3 DEF Orderly, Servers
  <2>6. Covered(state, ex, f, down')
    <3> SUFFICES ASSUME NEW s \in Servers, s < f
                 PROVE  \/ s \in AskedIn(state)
                        \/ s \in ex
                        \/ down'[s] # "up"
                        \/ state.requireSpillover /\ s \notin Spillover
      BY DEF Covered
    <3>1. s < i \/ s \in i .. N
      BY <1>2 DEF Servers
    <3>2. s \notin next
      BY <2>1, <2>3 DEF Servers
    <3> QED BY <3>1, <3>2 DEF Covered, Candidates
  <2>7. PhaseOK(w)'
    BY <2>3, <2>4 DEF PhaseOK
  <2>8. WalkOK(w)'
    BY <2>3, <2>4, <2>5, <2>6, <2>7 DEF WalkOK, Position
  <2>9. f \in 0 .. N
    BY <2>3 DEF Servers
  <2> QED BY <2>2, <2>8, <2>9 DEF MultiTypeOK
<1>4. CASE next = {}
  <2>1. Settle(w, Verdict(state))
    BY <1>4 DEF Proceed
  <2>2. /\ pc' = [pc EXCEPT ![w] = "settled"]
        /\ asking' = [asking EXCEPT ![w] = 0]
        /\ result' = [result EXCEPT ![w] = Verdict(state)]
    BY <2>1 DEF Settle
  <2>3. pc'[w] = "settled" /\ asking'[w] = 0 /\ result'[w] = Verdict(state)
    BY <2>2 DEF MultiTypeOK
  <2>4. /\ Verdict(state) \in Results
        /\ Verdict(state) = "capacity" => state.firstCapacity # 0
        /\ Verdict(state) = "missing" => state.firstCapacity = 0 /\ AllGone(state.attempts)
    BY DEF Verdict, Results
  <2>5. Orderly(state, ex, N + 1)
    BY <1>2 DEF Orderly, Servers
  <2>6. Covered(state, ex, N + 1, down')
    <3> SUFFICES ASSUME NEW s \in Servers
                 PROVE  \/ s \in AskedIn(state)
                        \/ s \in ex
                        \/ down'[s] # "up"
                        \/ state.requireSpillover /\ s \notin Spillover
      BY DEF Covered
    <3>1. s < i \/ s \in i .. N
      BY <1>2 DEF Servers
    <3> QED BY <1>4, <3>1 DEF Covered, Candidates
  <2>7. PhaseOK(w)'
    BY <2>3 DEF PhaseOK
  <2>8. WalkOK(w)'
    BY <2>3, <2>4, <2>5, <2>6, <2>7 DEF WalkOK, Position
  <2> QED BY <1>2, <2>2, <2>4, <2>8 DEF MultiTypeOK
<1> QED BY <1>3, <1>4

-----------------------------------------------------------------------------
(* One lemma per kind of step. *)

(* A step that leaves what the walks have said, and the verdicts on servers. *)
LEMMA EarnedKept ==
  ASSUME StrikesEarned, MultiTypeOK, walk' = walk, down' = down,
         \A s \in Servers : strikes'[s] = strikes[s] \/ strikes'[s] = 0
  PROVE  StrikesEarned'
<1>1. ASSUME NEW s \in Servers
      PROVE  /\ Faulted(s)' = Faulted(s)
             /\ Cardinality(Faulted(s)) \in Nat
             /\ \A w \in Walks : Said(w, s, "auth")' = Said(w, s, "auth")
  BY FS_CardinalityType DEF Faulted, Said, StrikesEarned
<1>2. \A s \in Servers : strikes'[s] <= Cardinality(Faulted(s))
  BY <1>1 DEF StrikesEarned, MultiTypeOK
<1> QED BY <1>1, <1>2 DEF StrikesEarned

LEMMA BeginKeeps ==
  ASSUME MultiInv, NEW w \in Walks, NEW ex \in Exclusions, Begin(w, ex)
  PROVE  MultiInv'
<1> USE DEF MultiInv
<1>1. /\ pc[w] = "new" /\ result[w] = "none" /\ walk[w] = NewWalk
      /\ excluded' = [excluded EXCEPT ![w] = ex]
      /\ UNCHANGED <<walk, down, strikes>>
      /\ Proceed(w, 1, ex, NewWalk)
  BY DEF Begin, health, WalkOK, PhaseOK
<1>2. ex \in SUBSET Servers /\ 1 \in 1 .. N + 1 /\ 0 \in 0 .. N
  BY ExclusionsAssumption, ServersAssumption
<1>3. NewWalk \in States /\ NewWalk.attempts = <<>>
  BY <1>2, EmptySeq DEF NewWalk, States, Attempts
<1>4. Orderly(NewWalk, ex, 1) /\ SummedUp(NewWalk)
  BY <1>3 DEF NewWalk, Orderly, SummedUp, SaidIn
<1>5. Covered(NewWalk, ex, 1, down')
  BY DEF Covered, Servers
<1>6. excluded'[w] = ex /\ walk'[w] = NewWalk /\ excluded' \in [Walks -> SUBSET Servers]
  BY <1>1, <1>2 DEF MultiTypeOK
<1>7. /\ WalkOK(w)'
      /\ pc' \in [Walks -> {"new", "asking", "settled"}]
      /\ asking' \in [Walks -> 0 .. N]
      /\ result' \in [Walks -> Results]
      /\ \A q \in Walks \ {w} :
           pc'[q] = pc[q] /\ asking'[q] = asking[q] /\ result'[q] = result[q]
  BY <1>1, <1>2, <1>3, <1>4, <1>5, <1>6, ProceedKeeps
<1>8. MultiTypeOK'
  BY <1>1, <1>6, <1>7 DEF MultiTypeOK
<1>9. \A q \in Walks : WalkOK(q)'
  <2>1. \A q \in Walks \ {w} : excluded'[q] = excluded[q] /\ walk'[q] = walk[q]
    BY <1>1 DEF MultiTypeOK
  <2>2. NobodyReturns
    BY <1>1 DEF NobodyReturns
  <2> QED BY <1>7, <2>1, <2>2, OthersKeep
<1>10. StrikesEarned'
  BY <1>1, EarnedKept
<1> QED BY <1>8, <1>9, <1>10

(* Ending at once: served, or by the fatal error. *)
LEMMA SettleKeeps ==
  ASSUME MultiInv, NEW w \in Walks, pc[w] # "settled", NEW r \in {"served", "fatal"},
         Settle(w, r), UNCHANGED <<excluded, down>>,
         walk'[w] \in States, Orderly(walk'[w], excluded[w], N + 1), SummedUp(walk'[w]),
         walk' = [walk EXCEPT ![w] = walk'[w]],
         strikes' \in [Servers -> Nat]
  PROVE  MultiTypeOK' /\ \A q \in Walks : WalkOK(q)'
<1> USE DEF MultiInv
<1>1. /\ pc' = [pc EXCEPT ![w] = "settled"]
      /\ asking' = [asking EXCEPT ![w] = 0]
      /\ result' = [result EXCEPT ![w] = r]
      /\ 0 \in 0 .. N
  BY ServersAssumption DEF Settle
<1>2. MultiTypeOK'
  BY <1>1 DEF MultiTypeOK, Results
<1>3. pc'[w] = "settled" /\ asking'[w] = 0 /\ result'[w] = r
  BY <1>1 DEF MultiTypeOK
<1>4. WalkOK(w)'
  BY <1>3 DEF WalkOK, PhaseOK, Position
<1>5. ASSUME NEW q \in Walks \ {w} PROVE WalkOK(q)'
  <2>1. /\ pc'[q] = pc[q] /\ asking'[q] = asking[q] /\ excluded'[q] = excluded[q]
        /\ walk'[q] = walk[q] /\ result'[q] = result[q]
    BY <1>1 DEF MultiTypeOK
  <2> QED BY <2>1, OthersKeep DEF NobodyReturns
<1> QED BY <1>2, <1>4, <1>5

LEMMA PositionBounds ==
  ASSUME MultiTypeOK, NEW w \in Walks, Orderly(walk[w], excluded[w], Position(w))
  PROVE  Orderly(walk[w], excluded[w], N + 1)
<1>1. asking[w] \in 0 .. N /\ N \in Nat
  BY ServersAssumption DEF MultiTypeOK
<1>2. \A j \in DOMAIN walk[w].attempts : walk[w].attempts[j].server \in Int
  <2>1. walk[w].attempts \in Seq([server : Servers, reason : Reasons])
    BY DEF States, Attempts, MultiTypeOK
  <2>2. \A j \in DOMAIN walk[w].attempts : walk[w].attempts[j] \in [server : Servers, reason : Reasons]
    BY <2>1, ElementOfSeq, LenProperties
  <2> QED BY <2>2 DEF Servers
<1> QED BY <1>1, <1>2 DEF Orderly, Position

(* What the walks have said after one attempt more. *)
LEMMA SaidNext ==
  ASSUME MultiTypeOK, NEW w \in Walks, asking[w] \in Servers, NEW e \in Reasons,
         NEW state, state.attempts = Recorded(w, e).attempts,
         walk' = [walk EXCEPT ![w] = state]
  PROVE  /\ \A q \in Walks : \A s, r :
              Said(q, s, r)' <=> Said(q, s, r) \/ (q = w /\ s = asking[w] /\ r = e)
         /\ \A s : Faulted(s)' =
              IF e = "fault" /\ s = asking[w] THEN Faulted(s) \cup {w} ELSE Faulted(s)
<1>1. walk[w] \in States
  BY DEF MultiTypeOK
<1>2. walk'[w] = state /\ \A q \in Walks : q # w => walk'[q] = walk[q]
  BY DEF MultiTypeOK
<1>3. \A s, r : SaidIn(state, s, r) <=> SaidIn(walk[w], s, r) \/ (s = asking[w] /\ r = e)
  BY <1>1, RecordedSays
<1>4. ASSUME NEW q \in Walks, NEW s, NEW r
      PROVE  Said(q, s, r)' <=> Said(q, s, r) \/ (q = w /\ s = asking[w] /\ r = e)
  BY <1>2, <1>3 DEF Said, SaidIn
<1>5. ASSUME NEW s
      PROVE  Faulted(s)' =
               IF e = "fault" /\ s = asking[w] THEN Faulted(s) \cup {w} ELSE Faulted(s)
  BY <1>4 DEF Faulted
<1> QED BY <1>4, <1>5

LEMMA SaidNow ==
  ASSUME MultiTypeOK, NEW w \in Walks, asking[w] \in Servers, NEW e \in Reasons,
         NEW state, state.attempts = Recorded(w, e).attempts,
         walk' = [walk EXCEPT ![w] = state], NEW s, s = asking[w]
  PROVE  Said(w, s, e)'
<1>1. walk[w] \in States /\ walk'[w] = state
  BY DEF MultiTypeOK
<1>2. SaidIn(state, s, e)
  BY <1>1, RecordedSays
<1> QED BY <1>1, <1>2 DEF Said, SaidIn

LEMMA NotYetFaulted ==
  ASSUME MultiInv, NEW w \in Walks, asking[w] \in Servers
  PROVE  w \notin Faulted(asking[w])
<1>1. Orderly(walk[w], excluded[w], asking[w])
  BY DEF MultiInv, WalkOK, Position, Servers
<1>2. ASSUME Said(w, asking[w], "fault") PROVE FALSE
  <2>1. PICK i \in DOMAIN walk[w].attempts :
          walk[w].attempts[i] = [server |-> asking[w], reason |-> "fault"]
    BY <1>2 DEF Said
  <2>2. asking[w] < asking[w]
    BY <1>1, <2>1 DEF Orderly
  <2> QED BY <2>2 DEF Servers
<1> QED BY <1>2 DEF Faulted

LEMMA EarnedAdded ==
  ASSUME MultiInv, MultiTypeOK', NEW w \in Walks, asking[w] \in Servers, NEW e \in Reasons,
         NEW state, state.attempts = Recorded(w, e).attempts,
         walk' = [walk EXCEPT ![w] = state],
         IF e = "fault"
           THEN /\ strikes' = [strikes EXCEPT ![asking[w]] = @ + 1]
                /\ down' = [down EXCEPT ![asking[w]] =
                              IF strikes[asking[w]] + 1 >= DownAfter THEN "fault" ELSE @]
           ELSE /\ strikes' = strikes
                /\ \/ down' = down
                   \/ /\ e = "auth" /\ asking[w] # Primary
                      /\ down' = [down EXCEPT ![asking[w]] = "auth"]
  PROVE  StrikesEarned'
<1> USE DEF MultiInv
<1>1. /\ \A q \in Walks : \A s, r :
           Said(q, s, r)' <=> Said(q, s, r) \/ (q = w /\ s = asking[w] /\ r = e)
      /\ \A s : Faulted(s)' =
           IF e = "fault" /\ s = asking[w] THEN Faulted(s) \cup {w} ELSE Faulted(s)
  BY SaidNext
<1> SUFFICES ASSUME NEW s \in Servers
             PROVE  /\ IsFiniteSet(Faulted(s)')
                    /\ strikes'[s] <= Cardinality(Faulted(s)')
                    /\ down'[s] = "fault" => Cardinality(Faulted(s)') >= DownAfter
                    /\ down'[s] = "auth" => s # Primary /\ \E q \in Walks : Said(q, s, "auth")'
  BY DEF StrikesEarned
<1>2. /\ IsFiniteSet(Faulted(s)) /\ Cardinality(Faulted(s)) \in Nat
      /\ strikes[s] <= Cardinality(Faulted(s)) /\ strikes[s] \in Nat
      /\ down[s] = "fault" => Cardinality(Faulted(s)) >= DownAfter
      /\ down[s] = "auth" => s # Primary /\ \E q \in Walks : Said(q, s, "auth")
      /\ DownAfter \in Nat
  BY FS_CardinalityType, DownAfterAssumption DEF StrikesEarned, MultiTypeOK
<1>3. down[s] = "auth" => s # Primary /\ \E q \in Walks : Said(q, s, "auth")'
  BY <1>1, <1>2
<1>4. CASE e = "fault" /\ s = asking[w]
  <2>1. Faulted(s)' = Faulted(s) \cup {w} /\ w \notin Faulted(s)
    BY <1>1, <1>4, NotYetFaulted
  <2>2. IsFiniteSet(Faulted(s)') /\ Cardinality(Faulted(s)') = Cardinality(Faulted(s)) + 1
    BY <1>2, <2>1, FS_AddElement
  <2>3. /\ strikes'[s] = strikes[s] + 1
        /\ down'[s] = IF strikes[s] + 1 >= DownAfter THEN "fault" ELSE down[s]
    BY <1>4 DEF MultiTypeOK
  <2>4. down'[s] = "fault" => Cardinality(Faulted(s)') >= DownAfter
    BY <1>2, <2>2, <2>3
  <2> QED BY <1>2, <1>3, <2>2, <2>3, <2>4
<1>5. CASE e = "fault" /\ s # asking[w]
  <2>1. Faulted(s)' = Faulted(s) /\ strikes'[s] = strikes[s] /\ down'[s] = down[s]
    BY <1>1, <1>5 DEF MultiTypeOK
  <2> QED BY <1>2, <1>3, <2>1
<1>6. CASE e # "fault"
  <2>1. Faulted(s)' = Faulted(s) /\ strikes' = strikes
    BY <1>1, <1>6
  <2>2. down'[s] = down[s] \/ (down'[s] = "auth" /\ s # Primary /\ e = "auth" /\ s = asking[w])
    BY <1>6 DEF MultiTypeOK
  <2>3. CASE down'[s] = down[s]
    BY <1>2, <1>3, <2>1, <2>3
  <2>4. CASE down'[s] = "auth" /\ s # Primary /\ e = "auth" /\ s = asking[w]
    <3>1. Said(w, s, e)'
      BY <2>4, SaidNow
    <3>2. \E q \in Walks : Said(q, s, "auth")'
      BY <2>4, <3>1
    <3>3. s # Primary /\ down'[s] # "fault"
      BY <2>4
    <3>4. IsFiniteSet(Faulted(s)') /\ strikes'[s] <= Cardinality(Faulted(s)')
      BY <1>2, <2>1
    <3> QED BY <3>2, <3>3, <3>4
  <2> QED BY <2>2, <2>3, <2>4
<1> QED BY <1>4, <1>5, <1>6

(* The rulings after which a walk goes on. *)
LEMMA GoOnKeeps ==
  ASSUME MultiInv, NEW w \in Walks, pc[w] = "asking", NEW e \in Reasons, NEW state \in States,
         state.attempts = Recorded(w, e).attempts,
         walk[w].requireSpillover => state.requireSpillover,
         SummedUp(state), GoOn(w, state), NobodyReturns,
         strikes' \in [Servers -> Nat], down' \in [Servers -> {"up", "auth", "fault"}]
  PROVE  /\ MultiTypeOK'
         /\ \A q \in Walks : WalkOK(q)'
         /\ walk' = [walk EXCEPT ![w] = state]
<1> USE DEF MultiInv
<1>1. /\ walk' = [walk EXCEPT ![w] = state]
      /\ excluded' = excluded
      /\ Proceed(w, asking[w] + 1, excluded[w], state)
  BY DEF GoOn
<1>2. /\ asking[w] \in Servers /\ asking[w] + 1 \in 1 .. N + 1
      /\ excluded[w] \in SUBSET Servers /\ excluded'[w] = excluded[w]
      /\ walk[w] \in States /\ walk'[w] = state
      /\ Position(w) = asking[w]
      /\ PhaseOK(w) /\ result[w] = "none"
    <2>1. PhaseOK(w) /\ asking[w] \in 0 .. N /\ N \in Nat
      BY ServersAssumption DEF MultiTypeOK, WalkOK
    <2>2. asking[w] # 0 /\ result[w] = "none"
      BY <2>1 DEF PhaseOK
    <2> QED BY <1>1, <2>1, <2>2 DEF MultiTypeOK, Position, Servers
<1>3. Orderly(state, excluded[w], asking[w] + 1)
  BY <1>2, RecordedOrderly DEF WalkOK
<1>4. Covered(state, excluded[w], asking[w] + 1, down')
  BY <1>2, RecordedCovered DEF WalkOK
<1>5. /\ WalkOK(w)'
      /\ pc' \in [Walks -> {"new", "asking", "settled"}]
      /\ asking' \in [Walks -> 0 .. N]
      /\ result' \in [Walks -> Results]
      /\ \A q \in Walks \ {w} :
           pc'[q] = pc[q] /\ asking'[q] = asking[q] /\ result'[q] = result[q]
  BY <1>1, <1>2, <1>3, <1>4, ProceedKeeps
<1>6. MultiTypeOK'
  BY <1>1, <1>5 DEF MultiTypeOK
<1>7. \A q \in Walks \ {w} : walk'[q] = walk[q] /\ excluded'[q] = excluded[q]
  BY <1>1 DEF MultiTypeOK
<1>8. \A q \in Walks : WalkOK(q)'
  BY <1>5, <1>7, OthersKeep
<1> QED BY <1>1, <1>6, <1>8

(* What a walk is when its ruling begins. *)
LEMMA AskingFacts ==
  ASSUME MultiInv, NEW w \in Walks, pc[w] = "asking"
  PROVE  /\ asking[w] \in Servers /\ Position(w) = asking[w]
         /\ walk[w] \in States /\ SummedUp(walk[w]) /\ PhaseOK(w)
         /\ Orderly(walk[w], excluded[w], asking[w])
         /\ \A s, r : SaidIn(walk[w], s, r) => s \in Servers /\ s < asking[w]
<1>1. PhaseOK(w) /\ asking[w] \in 0 .. N /\ N \in Nat
  BY ServersAssumption DEF MultiInv, MultiTypeOK, WalkOK
<1>2. asking[w] # 0 /\ asking[w] \in Servers
  BY <1>1 DEF PhaseOK, Servers
<1>3. walk[w] \in States /\ SummedUp(walk[w]) /\ Position(w) = asking[w]
  BY <1>2 DEF MultiInv, MultiTypeOK, WalkOK, Position
<1>4. Orderly(walk[w], excluded[w], asking[w])
  BY <1>3 DEF MultiInv, WalkOK
<1>5. ASSUME NEW s, NEW r, SaidIn(walk[w], s, r) PROVE s \in Servers /\ s < asking[w]
  <2>1. PICK j \in DOMAIN walk[w].attempts :
          walk[w].attempts[j] = [server |-> s, reason |-> r]
    BY <1>5 DEF SaidIn
  <2>2. walk[w].attempts \in Seq([server : Servers, reason : Reasons])
    BY <1>3 DEF States, Attempts
  <2>3. walk[w].attempts[j] \in [server : Servers, reason : Reasons]
    BY <2>1, <2>2, ElementOfSeq, LenProperties
  <2>4. walk[w].attempts[j].server < asking[w]
    BY <1>4, <2>1 DEF Orderly
  <2> QED BY <2>1, <2>3, <2>4
<1> QED BY <1>1, <1>2, <1>3, <1>4, <1>5

LEMMA RecordedSums ==
  ASSUME MultiInv, NEW w \in Walks, pc[w] = "asking", NEW e \in Reasons \ {"capacity"}
  PROVE  /\ Recorded(w, e) \in States
         /\ Recorded(w, e).requireSpillover = walk[w].requireSpillover
         /\ SummedUp(Recorded(w, e))
<1>1. asking[w] \in Servers /\ walk[w] \in States /\ SummedUp(walk[w])
  BY AskingFacts
<1> DEFINE new == Recorded(w, e)
<1>2. /\ new \in States
      /\ new.requireSpillover = walk[w].requireSpillover
      /\ new.firstCapacity = walk[w].firstCapacity
  BY <1>1, RecordedFacts
<1>3. \A s : SaidIn(new, s, "capacity") <=> SaidIn(walk[w], s, "capacity")
  BY <1>1, RecordedSays
<1> HIDE DEF new
<1>4. SummedUp(new)
  BY <1>1, <1>2, <1>3 DEF SummedUp
<1> QED BY <1>2, <1>4 DEF new

(* The walk that AtCapacity goes on with. *)
Overflowing(w) ==
  [Recorded(w, "capacity") EXCEPT
     !.requireSpillover = TRUE,
     !.firstCapacity = IF @ = 0 THEN asking[w] ELSE @]

(* The first full server stays the first: the servers heard before it were *)
(* earlier in the list and not full.                                       *)
LEMMA CapacitySums ==
  ASSUME MultiInv, NEW w \in Walks, pc[w] = "asking"
  PROVE  /\ Overflowing(w) \in States
         /\ Overflowing(w).requireSpillover
         /\ Overflowing(w).attempts = Recorded(w, "capacity").attempts
         /\ SummedUp(Overflowing(w))
<1> DEFINE state == Overflowing(w)
           new == Recorded(w, "capacity")
           fc == IF walk[w].firstCapacity = 0 THEN asking[w] ELSE walk[w].firstCapacity
<1>1. /\ asking[w] \in Servers /\ walk[w] \in States /\ SummedUp(walk[w])
      /\ \A s, r : SaidIn(walk[w], s, r) => s \in Servers /\ s < asking[w]
  BY AskingFacts
<1>2. new \in States /\ new.firstCapacity = walk[w].firstCapacity
  BY <1>1, RecordedFacts DEF Reasons
<1>3. asking[w] \in Int /\ asking[w] # 0 /\ Servers \subseteq 0 .. N
  BY <1>1, ServersAssumption DEF Servers
<1>4. /\ state = [requireSpillover |-> TRUE, firstCapacity |-> fc, attempts |-> new.attempts]
      /\ new.attempts \in Attempts /\ walk[w].firstCapacity \in 0 .. N
  <2>1. new.attempts \in Attempts /\ walk[w].firstCapacity \in 0 .. N
    BY <1>1, <1>2 DEF States
  <2>2. state = [new EXCEPT !.requireSpillover = TRUE, !.firstCapacity = fc]
    BY <1>2 DEF Overflowing
  <2> HIDE DEF new, fc, state
  <2> QED BY <1>2, <2>1, <2>2 DEF States
<1> HIDE DEF state
<1>5. /\ state \in States /\ state.requireSpillover
      /\ state.attempts = new.attempts /\ state.firstCapacity = fc
  <2>1. fc \in 0 .. N
    BY <1>1, <1>3, <1>4
  <2> HIDE DEF fc, new
  <2> QED BY <1>4, <2>1 DEF States
<1>6. \A s : SaidIn(state, s, "capacity") <=> SaidIn(walk[w], s, "capacity") \/ s = asking[w]
  <2>1. "capacity" \in Reasons
    BY DEF Reasons
  <2> HIDE DEF fc
  <2>2. \A s, r : SaidIn(state, s, r) <=> SaidIn(walk[w], s, r) \/ (s = asking[w] /\ r = "capacity")
    BY <1>1, <1>5, <2>1, RecordedSays
  <2> QED BY <2>2
<1> HIDE DEF new
<1>7. CASE walk[w].firstCapacity = 0
  <2>1. state.firstCapacity = asking[w]
    BY <1>5, <1>7
  <2>2. \A s \in Servers : SaidIn(state, s, "capacity") => s = asking[w]
    BY <1>1, <1>6, <1>7 DEF SummedUp
  <2>3. asking[w] <= asking[w]
    BY <1>3
  <2>4. SaidIn(state, state.firstCapacity, "capacity") /\ state.firstCapacity # 0
    BY <1>3, <1>6, <2>1
  <2>5. \A s \in Servers : SaidIn(state, s, "capacity") => state.firstCapacity <= s
    BY <2>1, <2>2, <2>3
  <2>6. SummedUp(state)
    BY <1>5, <2>4, <2>5 DEF SummedUp
  <2> HIDE DEF fc
  <2> QED BY <1>5, <2>6 DEF state, new
<1>8. CASE walk[w].firstCapacity # 0
  <2>1. state.firstCapacity = walk[w].firstCapacity
    BY <1>5, <1>8
  <2>2. SaidIn(walk[w], walk[w].firstCapacity, "capacity")
    BY <1>1, <1>8 DEF SummedUp
  <2>3. walk[w].firstCapacity <= asking[w]
    BY <1>1, <1>3, <1>4, <2>2
  <2>4. \A s \in Servers : SaidIn(state, s, "capacity") => walk[w].firstCapacity <= s
    BY <1>1, <1>6, <2>3 DEF SummedUp
  <2>5. SaidIn(state, state.firstCapacity, "capacity") /\ state.firstCapacity # 0
    BY <1>6, <1>8, <2>1, <2>2
  <2>6. \A s \in Servers : SaidIn(state, s, "capacity") => state.firstCapacity <= s
    BY <2>1, <2>4
  <2>7. SummedUp(state)
    BY <1>5, <2>5, <2>6 DEF SummedUp
  <2> HIDE DEF fc
  <2> QED BY <1>5, <2>7 DEF state, new
<1> QED BY <1>5, <1>7, <1>8 DEF new, state

LEMMA GapKeeps ==
  ASSUME MultiInv, NEW w \in Walks, pc[w] = "asking", Gap(w)
  PROVE  MultiInv'
<1>1. /\ GoOn(w, Recorded(w, "gap")) /\ down' = down /\ strikes' = strikes
      /\ "gap" \in Reasons \ {"capacity"}
  BY DEF Gap, Reasons
<1>2. /\ Recorded(w, "gap") \in States
      /\ Recorded(w, "gap").requireSpillover = walk[w].requireSpillover
      /\ SummedUp(Recorded(w, "gap"))
  BY <1>1, RecordedSums
<1>3. NobodyReturns /\ down' \in [Servers -> {"up", "auth", "fault"}] /\ strikes' \in [Servers -> Nat]
  BY <1>1 DEF NobodyReturns, MultiInv, MultiTypeOK
<1>4. /\ MultiTypeOK' /\ \A q \in Walks : WalkOK(q)'
      /\ walk' = [walk EXCEPT ![w] = Recorded(w, "gap")]
  BY <1>1, <1>2, <1>3, GoOnKeeps
<1>5. StrikesEarned'
  BY <1>1, <1>4, AskingFacts, EarnedAdded
<1> QED BY <1>4, <1>5 DEF MultiInv

LEMMA AtCapacityKeeps ==
  ASSUME MultiInv, NEW w \in Walks, pc[w] = "asking", AtCapacity(w)
  PROVE  MultiInv'
<1> DEFINE state == Overflowing(w)
<1>1. /\ GoOn(w, state) /\ down' = down /\ strikes' = strikes
      /\ "capacity" \in Reasons
  BY DEF AtCapacity, Overflowing, Reasons
<1>2. /\ state \in States /\ state.requireSpillover /\ SummedUp(state)
      /\ state.attempts = Recorded(w, "capacity").attempts
  BY CapacitySums
<1> HIDE DEF state
<1>3. NobodyReturns /\ down' \in [Servers -> {"up", "auth", "fault"}] /\ strikes' \in [Servers -> Nat]
  BY <1>1 DEF NobodyReturns, MultiInv, MultiTypeOK
<1>4. /\ MultiTypeOK' /\ \A q \in Walks : WalkOK(q)'
      /\ walk' = [walk EXCEPT ![w] = state]
  BY <1>1, <1>2, <1>3, GoOnKeeps
<1>5. StrikesEarned'
  BY <1>1, <1>2, <1>4, AskingFacts, EarnedAdded
<1> QED BY <1>4, <1>5 DEF MultiInv

LEMMA BackupAuthKeeps ==
  ASSUME MultiInv, NEW w \in Walks, pc[w] = "asking", BackupAuth(w)
  PROVE  MultiInv'
<1>1. /\ GoOn(w, Recorded(w, "auth")) /\ strikes' = strikes
      /\ asking[w] # Primary
      /\ down' = [down EXCEPT ![asking[w]] = "auth"]
      /\ "auth" \in Reasons \ {"capacity"}
  BY DEF BackupAuth, Reasons
<1>2. /\ Recorded(w, "auth") \in States
      /\ Recorded(w, "auth").requireSpillover = walk[w].requireSpillover
      /\ SummedUp(Recorded(w, "auth"))
  BY <1>1, RecordedSums
<1>3. NobodyReturns /\ down' \in [Servers -> {"up", "auth", "fault"}] /\ strikes' \in [Servers -> Nat]
  BY <1>1 DEF NobodyReturns, MultiInv, MultiTypeOK
<1>4. /\ MultiTypeOK' /\ \A q \in Walks : WalkOK(q)'
      /\ walk' = [walk EXCEPT ![w] = Recorded(w, "auth")]
  BY <1>1, <1>2, <1>3, GoOnKeeps
<1>5. StrikesEarned'
  BY <1>1, <1>4, AskingFacts, EarnedAdded
<1> QED BY <1>4, <1>5 DEF MultiInv

LEMMA FaultKeeps ==
  ASSUME MultiInv, NEW w \in Walks, pc[w] = "asking", Fault(w)
  PROVE  MultiInv'
<1>1. /\ GoOn(w, Recorded(w, "fault"))
      /\ strikes' = [strikes EXCEPT ![asking[w]] = @ + 1]
      /\ down' = [down EXCEPT ![asking[w]] =
                    IF strikes[asking[w]] + 1 >= DownAfter THEN "fault" ELSE @]
      /\ "fault" \in Reasons \ {"capacity"}
  BY DEF Fault, Reasons
<1>2. /\ Recorded(w, "fault") \in States
      /\ Recorded(w, "fault").requireSpillover = walk[w].requireSpillover
      /\ SummedUp(Recorded(w, "fault"))
  BY <1>1, RecordedSums
<1>3. strikes' \in [Servers -> Nat]
  BY <1>1, AskingFacts DEF MultiInv, MultiTypeOK
<1>4. NobodyReturns /\ down' \in [Servers -> {"up", "auth", "fault"}]
  BY <1>1, AskingFacts DEF NobodyReturns, MultiInv, MultiTypeOK
<1>5. /\ MultiTypeOK' /\ \A q \in Walks : WalkOK(q)'
      /\ walk' = [walk EXCEPT ![w] = Recorded(w, "fault")]
  BY <1>1, <1>2, <1>3, <1>4, GoOnKeeps
<1>6. StrikesEarned'
  BY <1>1, <1>5, AskingFacts, EarnedAdded
<1> QED BY <1>5, <1>6 DEF MultiInv

LEMMA PrimaryAuthKeeps ==
  ASSUME MultiInv, NEW w \in Walks, pc[w] = "asking", PrimaryAuth(w)
  PROVE  MultiInv'
<1> DEFINE state == Recorded(w, "auth")
<1>1. /\ Settle(w, "fatal") /\ UNCHANGED <<excluded, down, strikes>>
      /\ walk' = [walk EXCEPT ![w] = state]
      /\ "auth" \in Reasons \ {"capacity"} /\ "auth" \in Reasons
  BY DEF PrimaryAuth, Reasons
<1>2. /\ asking[w] \in Servers /\ walk[w] \in States /\ SummedUp(walk[w]) /\ PhaseOK(w)
      /\ Orderly(walk[w], excluded[w], asking[w])
  BY AskingFacts
<1>3. state \in States /\ SummedUp(state)
  BY <1>1, RecordedSums
<1>4. Orderly(state, excluded[w], asking[w] + 1)
  BY <1>1, <1>2, RecordedOrderly
<1>5. Orderly(state, excluded[w], N + 1)
  <2>1. \A j \in DOMAIN state.attempts : state.attempts[j] \in [server : Servers, reason : Reasons]
    <3>1. state.attempts \in Seq([server : Servers, reason : Reasons])
      BY <1>3 DEF States, Attempts
    <3> HIDE DEF state
    <3> QED BY <3>1, ElementOfSeq, LenProperties
  <2> HIDE DEF state
  <2>2. \A j \in DOMAIN state.attempts : state.attempts[j].server < N + 1
    BY <2>1, ServersAssumption DEF Servers
  <2> QED BY <1>4, <2>2 DEF Orderly
<1>6. walk'[w] = state /\ walk' = [walk EXCEPT ![w] = walk'[w]]
  BY <1>1 DEF MultiInv, MultiTypeOK
<1> HIDE DEF state
<1>7. strikes' \in [Servers -> Nat] /\ pc[w] # "settled" /\ "fatal" \in {"served", "fatal"}
  BY <1>1 DEF MultiInv, MultiTypeOK
<1>8. MultiTypeOK' /\ \A q \in Walks : WalkOK(q)'
  BY <1>1, <1>3, <1>5, <1>6, <1>7, SettleKeeps
<1>9. StrikesEarned'
  BY <1>1, <1>2, <1>8, EarnedAdded DEF state
<1> QED BY <1>8, <1>9 DEF MultiInv

LEMMA AnsweredKeeps ==
  ASSUME MultiInv, NEW w \in Walks, Answered(w)
  PROVE  MultiInv'
<1>1. /\ pc[w] = "asking" /\ Settle(w, "served") /\ UNCHANGED <<excluded, down>>
      /\ walk' = walk /\ strikes' = [strikes EXCEPT ![asking[w]] = 0]
  BY DEF Answered
<1>2. /\ asking[w] \in Servers /\ walk[w] \in States /\ SummedUp(walk[w])
      /\ Position(w) = asking[w] /\ Orderly(walk[w], excluded[w], asking[w])
  BY <1>1, AskingFacts
<1>3. Orderly(walk[w], excluded[w], N + 1)
  BY <1>2, PositionBounds DEF MultiInv
<1>4. strikes' \in [Servers -> Nat] /\ \A s \in Servers : strikes'[s] = strikes[s] \/ strikes'[s] = 0
  BY <1>1, <1>2 DEF MultiInv, MultiTypeOK
<1>5. walk' = [walk EXCEPT ![w] = walk'[w]] /\ walk'[w] = walk[w]
  BY <1>1 DEF MultiInv, MultiTypeOK
<1>6. MultiTypeOK' /\ \A q \in Walks : WalkOK(q)'
  <2>1. "served" \in {"served", "fatal"} /\ pc[w] # "settled"
    BY <1>1
  <2> QED BY <1>1, <1>2, <1>3, <1>4, <1>5, <2>1, SettleKeeps
<1>7. StrikesEarned'
  BY <1>1, <1>4, EarnedKept DEF MultiInv
<1> QED BY <1>6, <1>7 DEF MultiInv

LEMMA BeginFatalKeeps ==
  ASSUME MultiInv, NEW w \in Walks, BeginFatal(w)
  PROVE  MultiInv'
<1>1. /\ pc[w] = "new" /\ Settle(w, "fatal") /\ UNCHANGED <<excluded, down>>
      /\ walk' = walk /\ strikes' = strikes
  BY DEF BeginFatal, health
<1>2. /\ walk[w] \in States /\ SummedUp(walk[w])
      /\ Orderly(walk[w], excluded[w], Position(w))
  BY DEF MultiInv, WalkOK, MultiTypeOK
<1>3. Orderly(walk[w], excluded[w], N + 1)
  BY <1>2, PositionBounds DEF MultiInv
<1>4. strikes' \in [Servers -> Nat]
  BY <1>1 DEF MultiInv, MultiTypeOK
<1>5. walk' = [walk EXCEPT ![w] = walk'[w]] /\ walk'[w] = walk[w]
  BY <1>1 DEF MultiInv, MultiTypeOK
<1>6. MultiTypeOK' /\ \A q \in Walks : WalkOK(q)'
  <2>1. "fatal" \in {"served", "fatal"} /\ pc[w] # "settled"
    BY <1>1
  <2> QED BY <1>1, <1>2, <1>3, <1>4, <1>5, <2>1, SettleKeeps
<1>7. StrikesEarned'
  BY <1>1, EarnedKept DEF MultiInv
<1> QED BY <1>6, <1>7 DEF MultiInv

(* Nothing the invariant speaks of changes: destroy(), or no step at all. *)
LEMMA SameKeeps ==
  ASSUME MultiInv, UNCHANGED <<pc, asking, excluded, walk, result, down, strikes>>
  PROVE  MultiInv'
<1>1. MultiTypeOK'
  BY DEF MultiInv, MultiTypeOK
<1>2. \A q \in Walks : WalkOK(q)'
  BY OthersKeep DEF MultiInv, NobodyReturns
<1>3. StrikesEarned'
  BY EarnedKept DEF MultiInv
<1> QED BY <1>1, <1>2, <1>3 DEF MultiInv

-----------------------------------------------------------------------------
(* The invariant, and what it says of every behaviour. *)

LEMMA InitMultiInv == Init => MultiInv
<1> SUFFICES ASSUME Init PROVE MultiInv
  OBVIOUS
<1>1. N \in Nat /\ 0 \in 0 .. N /\ DownAfter \in Nat \ {0}
  BY ServersAssumption, DownAfterAssumption
<1>2. NewWalk \in States /\ NewWalk.attempts = <<>>
  BY <1>1, EmptySeq DEF NewWalk, States, Attempts
<1>3. MultiTypeOK
  BY <1>1, <1>2 DEF Init, MultiTypeOK, Results
<1>4. ASSUME NEW w \in Walks PROVE WalkOK(w)
  <2>1. walk[w] = NewWalk /\ pc[w] = "new" /\ asking[w] = 0 /\ result[w] = "none"
    BY <1>4 DEF Init
  <2>2. Orderly(NewWalk, excluded[w], Position(w)) /\ SummedUp(NewWalk)
    BY <1>2 DEF NewWalk, Orderly, SummedUp, SaidIn
  <2> QED BY <2>1, <2>2 DEF WalkOK, PhaseOK
<1>5. ASSUME NEW s \in Servers
      PROVE  Faulted(s) = {} /\ strikes[s] = 0 /\ down[s] = "up"
  BY <1>2 DEF Init, Faulted, Said
<1>6. StrikesEarned
  BY <1>5, FS_EmptySet DEF StrikesEarned
<1> QED BY <1>3, <1>4, <1>6 DEF MultiInv

LEMMA NextMultiInv == MultiInv /\ [Next]_vars => MultiInv'
<1> SUFFICES ASSUME MultiInv, [Next]_vars PROVE MultiInv'
  OBVIOUS
<1>1. ASSUME NEW w \in Walks, BeginFatal(w) PROVE MultiInv'
  BY <1>1, BeginFatalKeeps
<1>2. ASSUME NEW w \in Walks, NEW ex \in Exclusions, Begin(w, ex) PROVE MultiInv'
  BY <1>2, BeginKeeps
<1>3. ASSUME NEW w \in Walks, Answered(w) PROVE MultiInv'
  BY <1>3, AnsweredKeeps
<1>4. ASSUME NEW w \in Walks, Refused(w) PROVE MultiInv'
  <2>1. pc[w] = "asking"
    BY <1>4 DEF Refused
  <2>2. Gap(w) \/ AtCapacity(w) \/ PrimaryAuth(w) \/ BackupAuth(w) \/ Fault(w)
    BY <1>4 DEF Refused
  <2> QED BY <2>1, <2>2, GapKeeps, AtCapacityKeeps, PrimaryAuthKeeps, BackupAuthKeeps, FaultKeeps
<1>5. CASE Destroy
  BY <1>5, SameKeeps DEF Destroy, health
<1>6. CASE UNCHANGED vars
  BY <1>6, SameKeeps DEF vars
<1> QED BY <1>1, <1>2, <1>3, <1>4, <1>5, <1>6 DEF Next

(* The invariant that all the properties of the walks are read from: the    *)
(* attempts of a walk are in the order of the list, requireSpillover and    *)
(* firstCapacity sum them up, nobody was passed over, and the servers'      *)
(* strikes and places were earned by what the walks heard.                  *)
THEOREM WalksInvariant == Spec => []MultiInv
<1> QED BY InitMultiInv, NextMultiInv, PTL DEF Spec

(* Overflow is opt-in, for any list of servers and any interleaving: after  *)
(* a full server a walk asks only the ones that allow spillover, always     *)
(* further down the list, never one its caller excluded                     *)
(* (multi-pool.ts:158-160, 177-183).                                        *)
THEOREM OverflowOnlyWhereAllowed == Spec => []OverflowIsOptIn
<1>1. ASSUME MultiInv PROVE OverflowIsOptIn
  <2> DEFINE Trail(w) ==
        IF asking[w] = 0 THEN walk[w].attempts
        ELSE Append(walk[w].attempts, [server |-> asking[w], reason |-> "gap"])
  <2> SUFFICES ASSUME NEW w \in Walks, NEW j \in DOMAIN Trail(w)
               PROVE  /\ Trail(w)[j].server \notin excluded[w]
                      /\ \A i \in 1 .. j - 1 :
                           /\ Trail(w)[i].server < Trail(w)[j].server
                           /\ Trail(w)[i].reason = "capacity" => Trail(w)[j].server \in Spillover
    BY DEF OverflowIsOptIn
  <2>1. WalkOK(w) /\ walk[w] \in States /\ asking[w] \in 0 .. N
    BY <1>1 DEF MultiInv, MultiTypeOK
  <2>2. walk[w].attempts \in Seq([server : Servers, reason : Reasons])
    BY <2>1 DEF States, Attempts
  <2>3. CASE asking[w] = 0
    <3>1. Trail(w) = walk[w].attempts /\ Orderly(walk[w], excluded[w], N + 1)
      BY <2>1, <2>3 DEF WalkOK, Position
    <3>2. DOMAIN walk[w].attempts = 1 .. Len(walk[w].attempts) /\ Len(walk[w].attempts) \in Nat
      BY <2>2, LenProperties
    <3> HIDE DEF Trail
    <3>3. \A i \in 1 .. j - 1 : i \in DOMAIN walk[w].attempts /\ i < j
      BY <3>1, <3>2
    <3> QED BY <3>1, <3>2, <3>3 DEF Orderly
  <2>4. CASE asking[w] # 0
    <3> DEFINE state == Recorded(w, "gap")
    <3>1. Trail(w) = state.attempts
      BY <2>1, <2>4 DEF Recorded, States
    <3>2. asking[w] \in Servers /\ PhaseOK(w) /\ SummedUp(walk[w])
      BY <2>1, <2>4, ServersAssumption DEF WalkOK, Servers
    <3>3. Orderly(walk[w], excluded[w], asking[w])
      BY <2>1, <2>4 DEF WalkOK, Position
    <3>4. Orderly(state, excluded[w], asking[w] + 1)
      BY <2>1, <3>2, <3>3, RecordedOrderly DEF Reasons
    <3>5. DOMAIN state.attempts = 1 .. Len(walk[w].attempts) + 1 /\ Len(walk[w].attempts) \in Nat
      BY <2>1, <3>2, RecordedFacts DEF Reasons
    <3> HIDE DEF Trail, state
    <3>6. \A i \in 1 .. j - 1 : i \in DOMAIN state.attempts /\ i < j
      BY <3>1, <3>5
    <3> QED BY <3>1, <3>4, <3>5, <3>6 DEF Orderly
  <2> QED BY <2>3, <2>4
<1> QED BY <1>1, WalksInvariant, PTL

(* 430 is never reported while a server that is in the rotation and was not *)
(* excluded has not itself said so, however many walks run at once and      *)
(* change the servers' health under each other (multi-pool.ts:201-214).     *)
THEOREM MissingOnlyAfterAll == Spec => []MissingMeansAllReadyAsked
<1>1. ASSUME MultiInv PROVE MissingMeansAllReadyAsked
  <2> SUFFICES ASSUME NEW w \in Walks, result[w] = "missing", NEW s \in Servers
               PROVE  Said(w, s, "gap") \/ s \in excluded[w] \/ down[s] # "up"
    BY DEF MissingMeansAllReadyAsked
  <2> DEFINE a == walk[w].attempts
  <2>1. /\ AllGone(a) /\ SummedUp(walk[w]) /\ walk[w] \in States
        /\ Covered(walk[w], excluded[w], N + 1, down)
    BY <1>1 DEF MultiInv, MultiTypeOK, WalkOK
  <2>2. \A j \in DOMAIN a : a[j] \in [server : Servers, reason : Reasons] /\ a[j].reason = "gap"
    <3>1. a \in Seq([server : Servers, reason : Reasons])
      BY <2>1 DEF States, Attempts
    <3>2. \A j \in DOMAIN a : a[j].reason = "gap"
      BY <2>1 DEF AllGone
    <3> HIDE DEF a
    <3>3. \A j \in DOMAIN a : a[j] \in [server : Servers, reason : Reasons]
      BY <3>1, ElementOfSeq, LenProperties
    <3> QED BY <3>2, <3>3
  <2>3. ~walk[w].requireSpillover
    BY <2>1, <2>2 DEF SummedUp, SaidIn
  <2>4. s < N + 1
    BY ServersAssumption DEF Servers
  <2>5. s \in AskedIn(walk[w]) \/ s \in excluded[w] \/ down[s] # "up"
    BY <2>1, <2>3, <2>4 DEF Covered
  <2>6. ASSUME s \in AskedIn(walk[w]) PROVE Said(w, s, "gap")
    <3>1. PICK j \in DOMAIN a : a[j].server = s
      BY <2>6 DEF AskedIn
    <3>2. a[j] = [server |-> s, reason |-> "gap"]
      BY <2>2, <3>1
    <3> QED BY <3>2 DEF Said
  <2> QED BY <2>5, <2>6
<1> QED BY <1>1, WalksInvariant, PTL

(* The capacity error a caller sees is that of the earliest full server its *)
(* walk met (multi-pool.ts:161-164).                                        *)
THEOREM BlameIsTheFirst == Spec => []CapacityBlamesEarliest
<1>1. ASSUME MultiInv PROVE CapacityBlamesEarliest
  <2> SUFFICES ASSUME NEW w \in Walks, result[w] = "capacity"
               PROVE  /\ Said(w, walk[w].firstCapacity, "capacity")
                      /\ \A s \in Servers :
                           Said(w, s, "capacity") => walk[w].firstCapacity <= s
    BY DEF CapacityBlamesEarliest
  <2>1. SummedUp(walk[w]) /\ walk[w].firstCapacity # 0
    BY <1>1 DEF MultiInv, WalkOK
  <2> QED BY <2>1 DEF SummedUp, SaidIn, Said
<1> QED BY <1>1, WalksInvariant, PTL

(* A server leaves the rotation only on DownAfter faults that as many walks *)
(* met, or a backup's refused login: never for a missing article or for     *)
(* being full (multi-pool-failure.ts:64-122).                               *)
THEOREM RotationIsLostOnEvidence == Spec => []DownIsEarned
<1>1. ASSUME MultiInv PROVE DownIsEarned
  BY <1>1 DEF MultiInv, StrikesEarned, Faulted, DownIsEarned
<1> QED BY <1>1, WalksInvariant, PTL

(* Whoever the loop of #run newly asks was in the rotation when it did. *)
LEMMA ProceedAsksTheUp ==
  ASSUME MultiTypeOK, NEW q \in Walks, NEW i \in 1 .. N + 1, NEW ex, NEW state,
         Proceed(q, i, ex, state), NobodyReturns,
         NEW w \in Walks, asking'[w] # 0, asking'[w] # asking[w]
  PROVE  w = q /\ down[asking'[w]] = "up"
<1> DEFINE next == Candidates(i, ex, state, down')
<1>1. N \in Nat /\ next \in SUBSET Servers
  BY ServersAssumption DEF Candidates, Servers
<1>2. CASE next # {}
  <2>1. First(next) \in next
    BY <1>1, <1>2, FirstIsLeast
  <2>2. asking' = [asking EXCEPT ![q] = First(next)]
    BY <1>2 DEF Proceed
  <2>3. w = q /\ asking'[w] = First(next)
    BY <2>2 DEF MultiTypeOK
  <2>4. First(next) \in Servers /\ down'[First(next)] = "up"
    BY <1>1, <2>1 DEF Candidates
  <2> QED BY <2>3, <2>4 DEF NobodyReturns
<1>3. CASE next = {}
  <2>1. asking' = [asking EXCEPT ![q] = 0]
    BY <1>3 DEF Proceed, Settle
  <2> QED BY <2>1 DEF MultiTypeOK
<1> QED BY <1>2, <1>3

(* A walk asks only servers that are in the rotation at that moment, and    *)
(* none that starts after the fatal error asks any (multi-pool.ts:170-180). *)
THEOREM NothingNewWhenOver == Spec => NothingNewAfterFatalOrDown
<1> DEFINE NothingNew ==
      \A w \in Walks :
        asking'[w] # 0 /\ asking'[w] # asking[w] =>
          /\ pc[w] = "new" => ~fatal
          /\ down[asking'[w]] = "up"
<1>1. ASSUME MultiInv, [Next]_vars PROVE [NothingNew]_vars
  <2> SUFFICES ASSUME NEW w \in Walks, asking'[w] # 0, asking'[w] # asking[w]
               PROVE  (pc[w] = "new" => ~fatal) /\ down[asking'[w]] = "up"
    OBVIOUS
  <2>1. MultiTypeOK /\ N \in Nat
    BY <1>1, ServersAssumption DEF MultiInv
  <2>2. ASSUME NEW q \in Walks, NEW r, Settle(q, r) PROVE FALSE
    BY <2>1, <2>2 DEF Settle, MultiTypeOK
  <2>3. ASSUME NEW q \in Walks, NEW state, pc[q] = "asking", GoOn(q, state), NobodyReturns
        PROVE  (pc[w] = "new" => ~fatal) /\ down[asking'[w]] = "up"
    <3>1. asking[q] + 1 \in 1 .. N + 1
      BY <1>1, <2>1, <2>3, AskingFacts DEF Servers
    <3>2. w = q /\ down[asking'[w]] = "up"
      BY <2>1, <2>3, <3>1, ProceedAsksTheUp DEF GoOn
    <3> QED BY <2>3, <3>2
  <2>4. ASSUME NEW q \in Walks, NEW ex \in Exclusions, Begin(q, ex)
        PROVE  (pc[w] = "new" => ~fatal) /\ down[asking'[w]] = "up"
    <3>1. Proceed(q, 1, ex, NewWalk) /\ NobodyReturns /\ 1 \in 1 .. N + 1 /\ ~fatal
      BY <2>1, <2>4 DEF Begin, health, NobodyReturns
    <3> QED BY <2>1, <3>1, ProceedAsksTheUp
  <2>5. ASSUME NEW q \in Walks, Refused(q)
        PROVE  (pc[w] = "new" => ~fatal) /\ down[asking'[w]] = "up"
    <3>1. pc[q] = "asking" /\ asking[q] \in Servers
      BY <1>1, <2>5, AskingFacts DEF Refused
    <3>2. CASE Gap(q) \/ AtCapacity(q)
      BY <2>3, <3>1, <3>2 DEF Gap, AtCapacity, NobodyReturns
    <3>3. CASE PrimaryAuth(q)
      BY <2>2, <3>3 DEF PrimaryAuth
    <3>4. CASE BackupAuth(q)
      <4>1. NobodyReturns
        BY <2>1, <3>4 DEF BackupAuth, NobodyReturns, MultiTypeOK
      <4> QED BY <2>3, <3>1, <3>4, <4>1 DEF BackupAuth
    <3>5. CASE Fault(q)
      <4>1. NobodyReturns
        BY <2>1, <3>1, <3>5 DEF Fault, NobodyReturns, MultiTypeOK
      <4> QED BY <2>3, <3>1, <3>5, <4>1 DEF Fault
    <3> QED BY <2>5, <3>2, <3>3, <3>4, <3>5 DEF Refused
  <2>6. ASSUME NEW q \in Walks, BeginFatal(q) \/ Answered(q) PROVE FALSE
    BY <2>2, <2>6 DEF BeginFatal, Answered
  <2> QED BY <1>1, <2>4, <2>5, <2>6 DEF Next, Destroy, vars
<1>2. Spec => [][NothingNew]_vars
  BY <1>1, WalksInvariant, PTL DEF Spec
<1> QED BY <1>2 DEF NothingNewAfterFatalOrDown
=============================================================================
