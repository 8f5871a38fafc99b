----------------------------- MODULE ProviderCap -----------------------------
(***************************************************************************)
(* NntpPool against a provider that allows Cap sessions per account.       *)
(*                                                                         *)
(* The provider is outside the repository; what is assumed of it is what   *)
(* auth.ts and the pool's capacity handling assume: it decides when the    *)
(* login reaches it, on the sessions it counts at that moment, and its     *)
(* answer (accepted, or 502) travels back while the pool does other work.  *)
(* A connection the client destroyed stays counted until the provider      *)
(* notices.  Opens fail here for capacity only, and the pool is not        *)
(* destroyed: those hazards are NntpPool's.                                *)
(***************************************************************************)
EXTENDS NntpPool

CONSTANT Cap

ASSUME CapAssumption == Cap \in Nat \ {0}

VARIABLES
  accepted,  \* clients whose login the provider has accepted
  refused,   \* clients it has refused, the answer still under way
  lingering  \* sessions it counts whose connection is already destroyed

provider == <<accepted, refused, lingering>>
pvars == <<vars, provider>>

CapInit ==
  /\ Init
  /\ accepted = {}
  /\ refused = {}
  /\ lingering = 0

Sessions == Cardinality(accepted) + lingering

Undecided ==
  {client[r] : r \in {q \in Requests : pc[q] \in {"opening", "replacing"}}}
    \ (accepted \cup refused)

ProviderAccepts(c) ==
  /\ c \in Undecided
  /\ Sessions < Cap
  /\ accepted' = accepted \cup {c}
  /\ UNCHANGED <<vars, refused, lingering>>

ProviderRefuses(c) ==
  /\ c \in Undecided
  /\ Sessions >= Cap
  /\ refused' = refused \cup {c}
  /\ UNCHANGED <<vars, accepted, lingering>>

ProviderNoticesClose ==
  /\ lingering > 0
  /\ lingering' = lingering - 1
  /\ UNCHANGED <<vars, accepted, refused>>

CallAtProvider(r) == Call(r) /\ UNCHANGED provider

AcceptanceArrives(r) ==
  /\ client[r] \in accepted
  /\ AcquireOpened(r) \/ ReplaceOpened(r)
  /\ UNCHANGED provider

RefusalArrives(r) ==
  /\ client[r] \in refused
  /\ AcquireShrinks(r) \/ AcquireFails(r, "capacity") \/ ReplaceFails(r, "capacity")
  /\ refused' = refused \ {client[r]}
  /\ UNCHANGED <<accepted, lingering>>

ServesAtProvider(r) == CommandSucceeds(r) /\ UNCHANGED provider

(* A failed command -- "430 no such article" is one -- costs the connection. *)
FailsAtProvider(r) ==
  /\ CommandFails(r)
  /\ accepted' = accepted \ {client[r]}
  /\ lingering' = lingering + 1
  /\ UNCHANGED refused

SteadyNext ==
  \/ \E c \in Clients : ProviderAccepts(c) \/ ProviderRefuses(c)
  \/ \E r \in Requests :
       CallAtProvider(r) \/ AcceptanceArrives(r) \/ RefusalArrives(r) \/ ServesAtProvider(r)

ChurnNext ==
  \/ SteadyNext
  \/ \E r \in Requests : FailsAtProvider(r)
  \/ ProviderNoticesClose

CapFairness ==
  /\ \A c \in Clients : WF_pvars(ProviderAccepts(c) \/ ProviderRefuses(c))
  /\ \A r \in Requests :
       WF_pvars(AcceptanceArrives(r) \/ RefusalArrives(r) \/ ServesAtProvider(r))

(* Every article asked for exists and every connection stays up. *)
SteadySpec == CapInit /\ [][SteadyNext]_pvars /\ CapFairness

(* Some commands fail, so connections come and go. *)
ChurnSpec == CapInit /\ [][ChurnNext]_pvars /\ CapFairness

-----------------------------------------------------------------------------

(* However many connections are configured over the provider's cap, the cap *)
(* costs no request: every call is served, the refused ones over another    *)
(* connection (pool.ts:160-169; README "At a provider's connection cap").   *)
EveryCallServed == \A r \in Requests : pc[r] # "new" ~> pc[r] = "done"

(* The learned limit leaves the pool able to use every session the account  *)
(* allows: "shrinking limit to what the account actually gives", a little   *)
(* above the cap at most (nntp README:159, 171-174), never below.           *)
LimitCoversCap ==
  limit >= (IF Cap < Configured THEN Cap ELSE Configured)
=============================================================================
