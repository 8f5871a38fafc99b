----------------------------- MODULE Credentials -----------------------------
(***************************************************************************)
(* A pool's password (packages/nntp/src/auth.ts): memoizeCredentials, and  *)
(* the logins that send a literal user name and then, if the server asks,  *)
(* the password.  A user name that comes from a provider has a cache of    *)
(* its own, the same function over that provider.                          *)
(*                                                                         *)
(* memoize is external: it keeps a value until it has expired, lets those  *)
(* who ask during a lookup share it, and keeps no failure                  *)
(* (test/memoize-credentials.test.ts:34-48, 119-136).                      *)
(***************************************************************************)
EXTENDS Integers, Sequences

CONSTANTS
  Logins,   \* connections that log in, once each
  Ttls,     \* what credentialTtlMs may be
  Forever,  \* undefined
  MaxClock  \* bound: how far the clock runs

ASSUME TtlsAssumption == Ttls \subseteq Nat \cup {Forever} /\ Forever \notin Int

VARIABLES
  ttl,
  clock,       \* Date.now()
  phase,       \* of each login
  lookup,      \* when the lookup under way began, or -1
  resolvedAt,  \* of the value held, or -1
  trips,       \* history: when each lookup that succeeded began and ended
  given        \* history: the trip whose value each login got, and when it asked

credentialVars == <<ttl, clock, phase, lookup, resolvedAt, trips, given>>

CredentialsInit ==
  /\ ttl = -1 /\ clock = 0
  /\ phase = [l \in Logins |-> "idle"]
  /\ lookup = -1 /\ resolvedAt = -1
  /\ trips = <<>> /\ given = [l \in Logins |-> <<0, 0>>]

MemoizeCredentials ==
  /\ ttl = -1
  /\ ttl' \in Ttls
  /\ UNCHANGED <<clock, phase, lookup, resolvedAt, trips, given>>

(* runAuthInfo: AUTHINFO USER. *)
SendUser(l) ==
  /\ ttl # -1 /\ phase[l] = "idle"
  /\ phase' = [phase EXCEPT ![l] = "user"]
  /\ UNCHANGED <<ttl, clock, lookup, resolvedAt, trips, given>>

Expired == ttl # Forever /\ clock - resolvedAt >= ttl

(* 381: the password, out of the cache, or by the lookup under way or a new *)
(* one.                                                                     *)
PasswordRequired(l) ==
  /\ phase[l] = "user"
  /\ IF lookup = -1 /\ resolvedAt # -1 /\ ~Expired
       THEN /\ phase' = [phase EXCEPT ![l] = "pass"]
            /\ given' = [given EXCEPT ![l] = <<Len(trips), clock>>]
            /\ UNCHANGED lookup
       ELSE /\ phase' = [phase EXCEPT ![l] = "resolving"]
            /\ given' = [given EXCEPT ![l] = <<0, clock>>]
            /\ lookup' = IF lookup = -1 THEN clock ELSE lookup
  /\ UNCHANGED <<ttl, clock, resolvedAt, trips>>

BugResolvedAt == lookup

(* Stamped after the provider answered. *)
ResolvedAt == clock

Resolving == {l \in Logins : phase[l] = "resolving"}

ProviderAnswers ==
  /\ lookup # -1
  /\ resolvedAt' = ResolvedAt
  /\ trips' = Append(trips, <<lookup, clock>>)
  /\ lookup' = -1
  /\ phase' = [l \in Logins |-> IF l \in Resolving THEN "pass" ELSE phase[l]]
  /\ given' = [l \in Logins |-> IF l \in Resolving THEN <<Len(trips'), given[l][2]>> ELSE given[l]]
  /\ UNCHANGED <<ttl, clock>>

(* ProviderError: those who waited fail, and the next to ask tries again. *)
ProviderFails ==
  /\ lookup # -1
  /\ lookup' = -1
  /\ phase' = [l \in Logins |-> IF l \in Resolving THEN "over" ELSE phase[l]]
  /\ UNCHANGED <<ttl, clock, resolvedAt, trips, given>>

(* 281 to the user name alone, or an answer to the password. *)
LoginEnds(l) ==
  /\ phase[l] \in {"user", "pass"}
  /\ phase' = [phase EXCEPT ![l] = "over"]
  /\ UNCHANGED <<ttl, clock, lookup, resolvedAt, trips, given>>

Tick ==
  /\ ttl # -1 /\ clock < MaxClock
  /\ clock' = clock + 1
  /\ UNCHANGED <<ttl, phase, lookup, resolvedAt, trips, given>>

CredentialsNext ==
  \/ MemoizeCredentials
  \/ \E l \in Logins : SendUser(l) \/ PasswordRequired(l) \/ LoginEnds(l)
  \/ ProviderAnswers \/ ProviderFails \/ Tick

CredentialsSpec == CredentialsInit /\ [][CredentialsNext]_credentialVars

-----------------------------------------------------------------------------
(* What a trip brought has outlived its lifetime, counted from its arrival. *)
Outlived(n, now) == ttl # Forever /\ now - trips[n][2] >= ttl

(* However slow the source and whenever the connections of a pool log in,   *)
(* none is given a password older than its lifetime when it asked for one,  *)
(* and while a trip to the source is under way, or what it brought has not  *)
(* outlived its lifetime, no other is made (auth.ts:39-41, 66-70;           *)
(* README.md:55-65).                                                        *)
SecretIsFresh ==
  /\ \A n \in 2 .. Len(trips) : Outlived(n - 1, trips[n][1])
  /\ lookup # -1 /\ trips # <<>> => Outlived(Len(trips), lookup)
  /\ \A l \in Logins :
       LET trip == given[l][1]
           asked == given[l][2]
       IN trip # 0 /\ trips[trip][2] < asked => ~Outlived(trip, asked)
=============================================================================
