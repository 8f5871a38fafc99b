---------------------------- MODULE PoolContract ----------------------------
(***************************************************************************)
(* What a pool promises its callers, without connections: a caller waits,  *)
(* is admitted while fewer than `permits` are, and leaves exactly once.    *)
(* NntpPool implements it (NntpPool!ContractSpec), and it is all that      *)
(* NntpMultiPool relies on when it awaits call(entry.pool).                *)
(***************************************************************************)
EXTENDS Integers, FiniteSets

CONSTANTS Requests, MaxPermits

VARIABLES
  phase,    \* new, waiting, using, gone
  result,   \* why a request is gone
  permits,  \* how many may use the service at once
  closed

cvars == <<phase, result, permits, closed>>

Using == {r \in Requests : phase[r] = "using"}

Init ==
  /\ phase = [r \in Requests |-> "new"]
  /\ result = [r \in Requests |-> "none"]
  /\ permits = MaxPermits
  /\ closed = FALSE

(* The requests of S leave with result e. *)
Leave(S, e) ==
  /\ phase' = [q \in Requests |-> IF q \in S THEN "gone" ELSE phase[q]]
  /\ result' = [q \in Requests |-> IF q \in S THEN e ELSE result[q]]

Room == Cardinality(Using) < permits

Turned(r) ==
  /\ phase[r] = "new"
  /\ closed
  /\ Leave({r}, "destroyed")
  /\ UNCHANGED <<permits, closed>>

Ask(r) ==
  /\ phase[r] = "new"
  /\ ~closed
  /\ \/ phase' = [phase EXCEPT ![r] = "waiting"]
     \/ Room /\ phase' = [phase EXCEPT ![r] = "using"]
  /\ UNCHANGED <<result, permits, closed>>

Admit(r) ==
  /\ phase[r] = "waiting"
  /\ Room
  /\ phase' = [phase EXCEPT ![r] = "using"]
  /\ UNCHANGED <<result, permits, closed>>

(* A caller is done and, possibly in the same step, another takes its place. *)
Finish(r) ==
  /\ phase[r] = "using"
  /\ \E e \in {"served", "command"} : result' = [result EXCEPT ![r] = e]
  /\ \/ phase' = [phase EXCEPT ![r] = "gone"]
     \/ \E w \in Requests :
          /\ phase[w] = "waiting"
          /\ phase' = [phase EXCEPT ![r] = "gone", ![w] = "using"]
  /\ UNCHANGED <<permits, closed>>

(* One caller may be refused for a fault of its own attempt.  A refusal for *)
(* capacity, or of several at once, means nobody is being served.           *)
Refuse(S, e) ==
  /\ S # {}
  /\ \A r \in S : phase[r] = "waiting"
  /\ \/ Using = {}
     \/ closed
     \/ e = "fault" /\ Cardinality(S) = 1
  /\ Leave(S, e)
  /\ UNCHANGED <<permits, closed>>

(* Fewer permits than before, never fewer than are in use, never none; the *)
(* caller that found out may be admitted within what remains.              *)
Shrink(n) ==
  /\ n < permits
  /\ permits' = n
  /\ \/ phase' = phase
     \/ \E r \in Requests :
          phase[r] = "waiting" /\ phase' = [phase EXCEPT ![r] = "using"]
  /\ Cardinality(Using') <= n
  /\ UNCHANGED <<result, closed>>

(* Closing dismisses callers that wait; those being served finish. *)
Close ==
  /\ closed' = TRUE
  /\ \E S \in SUBSET {r \in Requests : phase[r] = "waiting"} : Leave(S, "destroyed")
  /\ UNCHANGED permits

Next ==
  \/ \E r \in Requests : Turned(r) \/ Ask(r) \/ Admit(r) \/ Finish(r)
  \/ \E S \in SUBSET Requests, e \in {"capacity", "fault"} : Refuse(S, e)
  \/ \E n \in 1 .. MaxPermits : Shrink(n)
  \/ Close

Spec == Init /\ [][Next]_cvars
=============================================================================
