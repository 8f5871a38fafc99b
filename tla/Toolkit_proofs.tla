---------------------------- MODULE Toolkit_proofs ----------------------------
(***************************************************************************)
(* Theorems about the smaller parts: how fresh a cached secret is          *)
(* (Credentials), for any logins, any lifetimes and any bound on the       *)
(* clock; what the release script may report (BootstrapPackage), for any   *)
(* packages; that the replies a client is given are those that were sent   *)
(* (ResponseBuffer), for any bodies and however the stream is cut; and     *)
(* that an article decodes to what was posted (Yenc).                      *)
(***************************************************************************)
EXTENDS Credentials, ResponseBuffer, BootstrapPackage,
        SequenceTheorems, WellFoundedInduction, TLAPS

-----------------------------------------------------------------------------
(* Secrets in the cache.                                                     *)

(* Times do not run ahead of the clock, and the value held is that of the   *)
(* last trip.                                                               *)
TimesInOrder ==
  /\ clock \in Nat
  /\ lookup \in Int /\ -1 <= lookup /\ lookup <= clock
  /\ trips \in Seq(Nat \X Nat)
  /\ \A n \in 1 .. Len(trips) : trips[n][1] <= trips[n][2] /\ trips[n][2] <= clock
  /\ resolvedAt = IF trips = <<>> THEN -1 ELSE trips[Len(trips)][2]

(* What a login was given was brought by a trip that has been made, and it  *)
(* asked in the past.                                                       *)
GivenIsPast ==
  /\ given \in [Logins -> Nat \X Nat]
  /\ \A l \in Logins : given[l][1] <= Len(trips) /\ given[l][2] <= clock

(* Before there is a cache, nobody has asked it.                            *)
NothingYet ==
  ttl = -1 => trips = <<>> /\ lookup = -1 /\ \A l \in Logins : phase[l] = "idle"

Phases == {"idle", "user", "resolving", "pass", "over"}

Types == ttl \in Nat \cup {-1, Forever} /\ phase \in [Logins -> Phases]

CredentialsInv == Types /\ TimesInOrder /\ GivenIsPast /\ NothingYet /\ SecretIsFresh

(* The times of a trip and of a login are numbers. *)
LEMMA TimesAreNumbers ==
  ASSUME CredentialsInv
  PROVE  /\ clock \in Nat /\ Len(trips) \in Nat
         /\ \A l \in Logins : given[l][1] \in Nat /\ given[l][2] \in Nat
         /\ \A n \in 1 .. Len(trips) : trips[n][1] \in Nat /\ trips[n][2] \in Nat
<1>1. clock \in Nat /\ Len(trips) \in Nat
  BY DEF CredentialsInv, TimesInOrder
<1>2. ASSUME NEW l \in Logins PROVE given[l][1] \in Nat /\ given[l][2] \in Nat
  <2>1. given[l] \in Nat \X Nat
    BY DEF CredentialsInv, GivenIsPast
  <2> QED BY <2>1
<1>3. ASSUME NEW n \in 1 .. Len(trips) PROVE trips[n][1] \in Nat /\ trips[n][2] \in Nat
  <2>1. trips[n] \in Nat \X Nat
    BY DEF CredentialsInv, TimesInOrder
  <2> QED BY <2>1
<1> QED BY <1>1, <1>2, <1>3

(* Nothing is held, asked or given at the start. *)
LEMMA CredentialsInitInv == CredentialsInit => CredentialsInv
BY TtlsAssumption
   DEF CredentialsInit, CredentialsInv, Types, Phases, TimesInOrder, GivenIsPast, NothingYet,
       SecretIsFresh

(* Steps that leave the trips, the lookup and what was given alone, and do  *)
(* not turn the clock back.                                                 *)
LEMMA QuietStep ==
  ASSUME CredentialsInv,
         UNCHANGED <<ttl, lookup, resolvedAt, trips, given>>,
         clock' \in Nat, clock <= clock',
         phase' \in [Logins -> Phases],
         ttl = -1 => UNCHANGED phase
  PROVE  CredentialsInv'
<1>1. Types' /\ NothingYet'
  BY DEF CredentialsInv, Types, NothingYet
<1>2. TimesInOrder'
  BY TimesAreNumbers DEF CredentialsInv, TimesInOrder
<1>3. GivenIsPast'
  BY TimesAreNumbers DEF CredentialsInv, GivenIsPast
<1>4. SecretIsFresh'
  BY DEF CredentialsInv, SecretIsFresh, Outlived
<1> QED BY <1>1, <1>2, <1>3, <1>4 DEF CredentialsInv

(* The lifetime is chosen before anyone has asked. *)
LEMMA MemoizeCredentialsInv ==
  ASSUME CredentialsInv, MemoizeCredentials
  PROVE  CredentialsInv'
<1>1. Types'
  BY TtlsAssumption DEF MemoizeCredentials, CredentialsInv, Types
<1>2. trips = <<>> /\ Len(trips) = 0 /\ lookup = -1
  BY DEF MemoizeCredentials, CredentialsInv, NothingYet
<1>3. TimesInOrder' /\ GivenIsPast'
  BY DEF MemoizeCredentials, CredentialsInv, TimesInOrder, GivenIsPast
<1>4. NothingYet'
  BY DEF MemoizeCredentials, CredentialsInv, NothingYet
<1>5. SecretIsFresh'
  <2>1. \A l \in Logins : given[l][1] \in Nat /\ given[l][1] <= Len(trips)
    <3>1. GivenIsPast
      BY DEF CredentialsInv
    <3> QED BY <3>1, TimesAreNumbers DEF GivenIsPast
  <2>2. ASSUME NEW l \in Logins PROVE given[l][1] = 0
    <3> DEFINE g == given[l][1]
    <3>1. g \in Nat /\ g <= 0
      BY <1>2, <2>1
    <3> HIDE DEF g
    <3>2. g = 0
      BY <3>1
    <3> QED BY <3>2 DEF g
  <2> QED BY <1>2, <2>2 DEF MemoizeCredentials, SecretIsFresh
<1> QED BY <1>1, <1>3, <1>4, <1>5 DEF CredentialsInv

(* A login takes the value held only if it has not expired, and goes to the *)
(* source only if it has, or if there is none.                              *)
LEMMA PasswordRequiredInv ==
  ASSUME CredentialsInv, NEW l \in Logins, PasswordRequired(l)
  PROVE  CredentialsInv'
<1>1. ttl # -1
  BY DEF PasswordRequired, CredentialsInv, NothingYet
<1>2. Types' /\ NothingYet'
  BY <1>1 DEF PasswordRequired, CredentialsInv, Types, Phases, NothingYet
<1>3. TimesInOrder'
  BY DEF PasswordRequired, CredentialsInv, TimesInOrder
<1>4. given' = [given EXCEPT ![l] = <<given'[l][1], clock>>] /\ given'[l][1] \in {0, Len(trips)}
  BY DEF PasswordRequired, CredentialsInv, GivenIsPast
<1>5. GivenIsPast'
  <2>1. <<given'[l][1], clock>> \in Nat \X Nat
    BY <1>4, TimesAreNumbers
  <2>2. given' \in [Logins -> Nat \X Nat]
    BY <1>4, <2>1 DEF CredentialsInv, GivenIsPast
  <2>3. ASSUME NEW m \in Logins PROVE given'[m][1] <= Len(trips) /\ given'[m][2] <= clock
    <3>1. GivenIsPast
      BY DEF CredentialsInv
    <3>2. CASE m = l
      BY <1>4, <3>1, <3>2, TimesAreNumbers DEF GivenIsPast
    <3>3. CASE m # l
      BY <1>4, <3>1, <3>3 DEF GivenIsPast
    <3> QED BY <3>2, <3>3
  <2> QED BY <2>2, <2>3 DEF PasswordRequired, GivenIsPast
<1>6. CASE lookup = -1 /\ resolvedAt # -1 /\ ~Expired
  <2>1. trips # <<>> /\ resolvedAt = trips[Len(trips)][2]
    BY <1>6 DEF CredentialsInv, TimesInOrder
  <2>2. given'[l] = <<Len(trips), clock>> /\ UNCHANGED <<lookup, trips, ttl>>
    BY <1>6 DEF PasswordRequired, CredentialsInv, GivenIsPast
  <2>3. ~Outlived(Len(trips), clock)
    BY <1>6, <2>1 DEF Expired, Outlived
  <2>4. SecretIsFresh'
    <3>1. SecretIsFresh
      BY DEF CredentialsInv
    <3>2. \A m \in Logins \ {l} : given'[m] = given[m]
      BY <1>4 DEF CredentialsInv, GivenIsPast
    <3> QED BY <2>2, <2>3, <3>1, <3>2 DEF SecretIsFresh, Outlived
  <2> QED BY <1>2, <1>3, <1>5, <2>4 DEF CredentialsInv
<1>7. CASE ~(lookup = -1 /\ resolvedAt # -1 /\ ~Expired)
  <2>1. /\ given'[l] = <<0, clock>> /\ UNCHANGED <<trips, ttl>>
        /\ lookup' = IF lookup = -1 THEN clock ELSE lookup
    BY <1>7 DEF PasswordRequired, CredentialsInv, GivenIsPast
  <2>2. lookup = -1 /\ trips # <<>> => Outlived(Len(trips), clock)
    <3> SUFFICES ASSUME lookup = -1, trips # <<>>
                 PROVE  Outlived(Len(trips), clock)
      OBVIOUS
    <3>1. Len(trips) \in 1 .. Len(trips) /\ trips[Len(trips)][2] \in Nat
      BY DEF CredentialsInv, TimesInOrder
    <3>2. resolvedAt = trips[Len(trips)][2] /\ resolvedAt # -1
      BY <3>1 DEF CredentialsInv, TimesInOrder
    <3> QED BY <1>7, <3>2 DEF Expired, Outlived
  <2>3. SecretIsFresh'
    <3>1. SecretIsFresh
      BY DEF CredentialsInv
    <3>2. \A m \in Logins \ {l} : given'[m] = given[m]
      BY <1>4 DEF CredentialsInv, GivenIsPast
    <3> QED BY <2>1, <2>2, <3>1, <3>2 DEF SecretIsFresh, Outlived
  <2> QED BY <1>2, <1>3, <1>5, <2>3 DEF CredentialsInv
<1> QED BY <1>6, <1>7

(* The answer is stamped as it arrives, and goes to all who waited for it.  *)
LEMMA ProviderAnswersInv ==
  ASSUME CredentialsInv, ProviderAnswers
  PROVE  CredentialsInv'
<1> DEFINE N == Len(trips) + 1
<1>1. /\ clock \in Nat /\ lookup \in Nat /\ lookup <= clock
      /\ trips \in Seq(Nat \X Nat) /\ Len(trips) \in Nat
  BY DEF ProviderAnswers, CredentialsInv, TimesInOrder
<1>2. /\ trips' \in Seq(Nat \X Nat) /\ trips' # <<>> /\ Len(trips') = N
      /\ \A n \in 1 .. Len(trips) : trips'[n] = trips[n]
      /\ trips'[N] = <<lookup, clock>>
      /\ UNCHANGED <<ttl, clock>> /\ lookup' = -1 /\ resolvedAt' = clock
  BY <1>1, SMTT(20) DEF ProviderAnswers, ResolvedAt
<1>3. ttl # -1
  BY DEF ProviderAnswers, CredentialsInv, NothingYet
<1>4. /\ given' \in [Logins -> Nat \X Nat]
      /\ \A l \in Logins : /\ given'[l][1] \in {given[l][1], N}
                          /\ given'[l][2] = given[l][2]
  BY <1>1, <1>2 DEF ProviderAnswers, CredentialsInv, GivenIsPast
<1>5. Types' /\ NothingYet'
  BY <1>2, <1>3 DEF ProviderAnswers, CredentialsInv, Types, Phases, NothingYet
<1>6. TimesInOrder'
  <2>1. TimesInOrder
    BY DEF CredentialsInv
  <2>2. ASSUME NEW n \in 1 .. N PROVE trips'[n][1] <= trips'[n][2] /\ trips'[n][2] <= clock
    <3>1. CASE n = N
      <4>1. trips'[n] = <<lookup, clock>>
        BY <1>2, <3>1
      <4> QED BY <1>1, <4>1
    <3>2. CASE n # N
      <4>1. n \in 1 .. Len(trips)
        BY <1>1, <3>2
      <4> QED BY <1>2, <2>1, <4>1 DEF TimesInOrder
    <3> QED BY <3>1, <3>2
  <2> QED BY <1>1, <1>2, <2>2 DEF TimesInOrder
<1>7. GivenIsPast'
  <2>1. GivenIsPast
    BY DEF CredentialsInv
  <2>2. ASSUME NEW l \in Logins PROVE given'[l][1] <= N /\ given'[l][2] <= clock
    <3>1. /\ given[l][1] \in Nat /\ given[l][1] <= Len(trips)
          /\ given[l][2] \in Nat /\ given[l][2] <= clock
      BY <2>1, TimesAreNumbers DEF GivenIsPast
    <3>2. CASE given'[l][1] = given[l][1]
      BY <1>1, <1>4, <3>1, <3>2
    <3>3. CASE given'[l][1] = N
      BY <1>1, <1>4, <3>1, <3>3
    <3> QED BY <1>4, <3>2, <3>3
  <2> QED BY <1>2, <1>4, <2>2 DEF GivenIsPast
<1>8. SecretIsFresh'
  <2> HIDE DEF N
  <2>0. SecretIsFresh /\ GivenIsPast /\ N = Len(trips) + 1
    BY DEF CredentialsInv, N
  <2>1. \A n \in 2 .. N : Outlived(n - 1, trips[n][1])'
    <3> SUFFICES ASSUME NEW n \in 2 .. N
                 PROVE  Outlived(n - 1, trips[n][1])'
      OBVIOUS
    <3>1. CASE n = N
      <4>1. trips # <<>> /\ Outlived(Len(trips), lookup)
        BY <1>1, <2>0, <3>1 DEF SecretIsFresh
      <4>2. Len(trips) \in 1 .. Len(trips) /\ n - 1 = Len(trips)
        BY <1>1, <2>0, <3>1
      <4>3. trips'[n - 1] = trips[n - 1] /\ trips'[n][1] = lookup
        BY <1>2, <3>1, <4>2
      <4> QED BY <1>2, <4>1, <4>2, <4>3 DEF Outlived
    <3>2. CASE n # N
      <4>1. n \in 2 .. Len(trips) /\ n - 1 \in 1 .. Len(trips)
        BY <1>1, <2>0, <3>2
      <4>2. trips'[n] = trips[n] /\ trips'[n - 1] = trips[n - 1]
        BY <1>1, <1>2, <4>1
      <4>3. Outlived(n - 1, trips[n][1])
        BY <2>0, <4>1 DEF SecretIsFresh
      <4> QED BY <1>2, <4>2, <4>3 DEF Outlived
    <3> QED BY <3>1, <3>2
  <2>2. ASSUME NEW l \in Logins, given'[l][1] # 0, trips'[given'[l][1]][2] < given'[l][2]
        PROVE  ~Outlived(given[l][1], given[l][2])'
    <3>1. given'[l][1] = given[l][1] /\ given[l][1] \in 1 .. Len(trips)
      <4>1. given[l][1] \in Nat /\ given[l][1] <= Len(trips) /\ given'[l][2] <= clock
        BY <1>4, <2>0, TimesAreNumbers DEF GivenIsPast
      <4>2. given'[l][1] # N
        BY <1>1, <1>2, <1>4, <2>2, <4>1, TimesAreNumbers
      <4> QED BY <1>1, <1>4, <2>2, <4>1, <4>2
    <3> QED BY <1>2, <1>4, <2>0, <2>2, <3>1 DEF SecretIsFresh, Outlived
  <2> QED BY <1>2, <2>0, <2>1, <2>2 DEF SecretIsFresh
<1> QED BY <1>5, <1>6, <1>7, <1>8 DEF CredentialsInv

(* A failure is not kept: the value held, if any, stays what it was. *)
LEMMA ProviderFailsInv ==
  ASSUME CredentialsInv, ProviderFails
  PROVE  CredentialsInv'
<1>1. Types' /\ NothingYet'
  BY DEF ProviderFails, CredentialsInv, Types, Phases, NothingYet
<1>2. TimesInOrder' /\ GivenIsPast'
  BY DEF ProviderFails, CredentialsInv, TimesInOrder, GivenIsPast
<1>3. SecretIsFresh'
  BY DEF ProviderFails, CredentialsInv, SecretIsFresh, Outlived
<1> QED BY <1>1, <1>2, <1>3 DEF CredentialsInv

(* Every step keeps the invariant. *)
LEMMA CredentialsNextInv ==
  CredentialsInv /\ [CredentialsNext]_credentialVars => CredentialsInv'
<1> SUFFICES ASSUME CredentialsInv, [CredentialsNext]_credentialVars
             PROVE  CredentialsInv'
  OBVIOUS
<1>1. CASE MemoizeCredentials
  BY <1>1, MemoizeCredentialsInv
<1>2. ASSUME NEW l \in Logins, SendUser(l)
      PROVE  CredentialsInv'
  <2>1. clock' = clock /\ clock \in Nat /\ phase' \in [Logins -> Phases] /\ ttl # -1
    BY <1>2 DEF SendUser, CredentialsInv, Types, Phases, TimesInOrder
  <2> QED BY <1>2, <2>1, QuietStep DEF SendUser
<1>3. ASSUME NEW l \in Logins, PasswordRequired(l)
      PROVE  CredentialsInv'
  BY <1>3, PasswordRequiredInv
<1>4. ASSUME NEW l \in Logins, LoginEnds(l)
      PROVE  CredentialsInv'
  <2>1. clock' = clock /\ clock \in Nat /\ phase' \in [Logins -> Phases] /\ ttl # -1
    BY <1>4 DEF LoginEnds, CredentialsInv, Types, Phases, TimesInOrder, NothingYet
  <2> QED BY <1>4, <2>1, QuietStep DEF LoginEnds
<1>5. CASE ProviderAnswers
  BY <1>5, ProviderAnswersInv
<1>6. CASE ProviderFails
  BY <1>6, ProviderFailsInv
<1>7. CASE Tick
  <2>1. clock' \in Nat /\ clock <= clock' /\ phase' \in [Logins -> Phases]
    BY <1>7 DEF Tick, CredentialsInv, Types, TimesInOrder
  <2> QED BY <1>7, <2>1, QuietStep DEF Tick
<1>8. CASE UNCHANGED credentialVars
  <2>1. clock' = clock /\ clock \in Nat /\ phase' \in [Logins -> Phases]
    BY <1>8 DEF credentialVars, CredentialsInv, Types, TimesInOrder
  <2> QED BY <1>8, <2>1, QuietStep DEF credentialVars
<1> QED BY <1>1, <1>2, <1>3, <1>4, <1>5, <1>6, <1>7, <1>8 DEF CredentialsNext

(* No login of a pool is given a credential that had outlived credentialTtlMs *)
(* when it asked, and the source is not asked again before that (auth.ts's   *)
(* cache), for any number of connections and any lifetime.                   *)
THEOREM SecretAlwaysFresh == CredentialsSpec => []SecretIsFresh
<1>1. CredentialsSpec => []CredentialsInv
  BY CredentialsInitInv, CredentialsNextInv, PTL DEF CredentialsSpec
<1>2. CredentialsInv => SecretIsFresh
  BY DEF CredentialsInv
<1> QED BY <1>1, <1>2, PTL

-----------------------------------------------------------------------------
(* The release script.                                                       *)

(* Where the script is with each package.  One that left the second phase   *)
(* was deprecated, or counts as a failure; one that is on its way is        *)
(* deprecated only if its placeholder was seen.                             *)
Steps == {"wait", "deprecate", "tag"}
Under == IF current = <<>> THEN {} ELSE {Current}

RegistryOK ==
  /\ versions \in [Packages -> SUBSET {Placeholder, Release}]
  /\ latest \in [Packages -> {"", Placeholder, Release}]
  /\ deprecated \subseteq Packages
  /\ \A p \in Packages :
       /\ versions[p] = {} => latest[p] = ""
       /\ p \in deprecated => Placeholder \in versions[p]
       /\ Placeholder \in versions[p] => p \in tagged \/ latest[p] = Release

ScriptOK ==
  /\ phase2 \subseteq Packages
  /\ current # <<>> => current \in Steps \X Packages
  /\ current # <<>> => status \in {"deprecating", "crashed"}
  /\ status \in {"listing", "publishing"} => phase2 = Packages
  /\ At("deprecate") => Placeholder \in versions[Current]
  /\ At("tag") => Current \in deprecated \cup failures
  /\ status = "deprecating" => Packages \subseteq phase2 \cup failures \cup deprecated \cup Under
  /\ status = "succeeded" => Packages \subseteq deprecated

BootstrapInv == RegistryOK /\ ScriptOK

LEMMA BootstrapInitInv == BootstrapInit => BootstrapInv
BY DEF BootstrapInit, BootstrapInv, RegistryOK, ScriptOK, At, Steps

(* The registry and CI move only what they may, and leave the script alone. *)
LEMMA RegistryMoves ==
  ASSUME BootstrapInv, NEW p \in Packages, Appear(p) \/ PublishRelease(p)
  PROVE  BootstrapInv'
<1>1. UNCHANGED <<tagged, deprecated, phase2, current, failures, status>>
  BY DEF Appear, PublishRelease
<1>2. RegistryOK'
  <2>1. CASE Appear(p)
    BY <2>1 DEF Appear, BootstrapInv, RegistryOK
  <2>2. CASE PublishRelease(p)
    <3>1. /\ versions' = [versions EXCEPT ![p] = versions[p] \cup {Release}]
          /\ latest' = [latest EXCEPT ![p] = Release]
      BY <2>2 DEF PublishRelease
    <3> QED BY <1>1, <3>1 DEF BootstrapInv, RegistryOK
  <2> QED BY <2>1, <2>2
<1>3. \A q \in Packages : Placeholder \in versions[q] => Placeholder \in versions'[q]
  BY DEF Appear, PublishRelease, BootstrapInv, RegistryOK
<1>4. ScriptOK'
  BY <1>1, <1>3 DEF BootstrapInv, ScriptOK, At, Current, Under
<1> QED BY <1>2, <1>4 DEF BootstrapInv

LEMMA PublishOneInv ==
  ASSUME BootstrapInv, NEW p \in Packages, PublishOne(p)
  PROVE  BootstrapInv'
<1>1. /\ status = "publishing" /\ UNCHANGED <<deprecated, phase2, current, status>>
      /\ failures' \in {failures, failures \cup {p}}
      /\ \/ /\ versions' = [versions EXCEPT ![p] = versions[p] \cup {Placeholder}]
            /\ latest' = [latest EXCEPT ![p] = IF latest[p] = "" THEN Placeholder ELSE latest[p]]
            /\ tagged' = tagged \cup {p}
         \/ UNCHANGED <<versions, latest, tagged>>
  BY DEF PublishOne, Accepted
<1>2. RegistryOK'
  <2>1. CASE UNCHANGED <<versions, latest, tagged>>
    BY <1>1, <2>1 DEF BootstrapInv, RegistryOK
  <2>2. CASE /\ versions' = [versions EXCEPT ![p] = versions[p] \cup {Placeholder}]
             /\ latest' = [latest EXCEPT ![p] = IF latest[p] = "" THEN Placeholder ELSE latest[p]]
             /\ tagged' = tagged \cup {p}
    <3>1. /\ versions' \in [Packages -> SUBSET {Placeholder, Release}]
          /\ latest' \in [Packages -> {"", Placeholder, Release}]
      BY <2>2 DEF BootstrapInv, RegistryOK
    <3>2. Placeholder \in versions'[p] /\ versions'[p] # {} /\ p \in tagged'
      BY <2>2 DEF BootstrapInv, RegistryOK
    <3>3. \A q \in Packages \ {p} :
            versions'[q] = versions[q] /\ latest'[q] = latest[q] /\ (q \in tagged' <=> q \in tagged)
      BY <2>2 DEF BootstrapInv, RegistryOK
    <3> QED BY <1>1, <3>1, <3>2, <3>3 DEF BootstrapInv, RegistryOK
  <2> QED BY <1>1, <2>1, <2>2
<1>3. ScriptOK'
  BY <1>1 DEF BootstrapInv, ScriptOK, At, Current, Under
<1> QED BY <1>2, <1>3 DEF BootstrapInv

(* The steps of the script that leave the registry alone. *)
LEMMA QuietScript ==
  ASSUME BootstrapInv,
         \/ StartRun \/ Published \/ WaitUntilVisible \/ LatestFails \/ End
         \/ (\E p \in Packages : List(p) \/ Take(p)) \/ UNCHANGED bootstrapVars
  PROVE  BootstrapInv'
<1>1. UNCHANGED registry
  BY DEF StartRun, Published, WaitUntilVisible, LatestFails, End, List, Take, bootstrapVars
<1>2. RegistryOK'
  BY <1>1 DEF BootstrapInv, RegistryOK, registry
<1>3. ScriptOK'
  <2>1. CASE StartRun
    BY <2>1 DEF StartRun, ScriptOK, At, Steps
  <2>2. ASSUME NEW p \in Packages, List(p) PROVE ScriptOK'
    BY <2>2 DEF List, BootstrapInv, ScriptOK, At, Under, Current
  <2>3. CASE Published
    BY <2>3 DEF Published, BootstrapInv, ScriptOK, At, Under, Current
  <2>4. ASSUME NEW p \in Packages, Take(p) PROVE ScriptOK'
    <3>1. /\ status = "deprecating" /\ current = <<>> /\ current' = <<"wait", p>>
          /\ phase2' = phase2 \ {p} /\ UNCHANGED <<failures, deprecated, status>>
      BY <2>4 DEF Take, registry
    <3>2. current' \in Steps \X Packages /\ current' # <<>> /\ current'[1] = "wait" /\ Current' = p
      BY <3>1 DEF Steps, Current
    <3>3. Packages \subseteq phase2 \cup failures \cup deprecated
      BY <3>1 DEF BootstrapInv, ScriptOK, Under
    <3>4. Packages \subseteq phase2' \cup failures \cup deprecated \cup {p}
      BY <3>1, <3>3
    <3> QED BY <3>1, <3>2, <3>4 DEF BootstrapInv, ScriptOK, At, Under
  <2>5. CASE WaitUntilVisible
    <3>1. /\ status = "deprecating" /\ current # <<>> /\ current[1] = "wait"
          /\ status' = status /\ phase2' = phase2 /\ versions' = versions /\ deprecated' = deprecated
      BY <2>5 DEF WaitUntilVisible, At, registry
    <3>2. \/ /\ Placeholder \in versions[Current] /\ failures' = failures
             /\ current' = <<"deprecate", Current>>
          \/ current' = <<>> /\ failures' = failures \cup {Current}
      BY <2>5 DEF WaitUntilVisible, View, NeverVisible
    <3>3. Current \in Packages
      BY <3>1 DEF BootstrapInv, ScriptOK, Current
    <3> QED BY <3>1, <3>2, <3>3 DEF BootstrapInv, ScriptOK, At, Under, Current, Steps
  <2>6. CASE LatestFails
    BY <2>6 DEF LatestFails, BootstrapInv, ScriptOK, At, Under, Current
  <2>7. CASE End
    <3>1. /\ status = "deprecating" /\ current = <<>> /\ phase2 = {}
          /\ status' = IF failures = {} THEN "succeeded" ELSE "failed"
          /\ UNCHANGED <<current, phase2, failures, deprecated>>
      BY <2>7 DEF End, registry
    <3>2. Packages \subseteq failures \cup deprecated
      BY <3>1 DEF BootstrapInv, ScriptOK, Under
    <3> QED BY <3>1, <3>2 DEF BootstrapInv, ScriptOK, At
  <2>8. CASE UNCHANGED bootstrapVars
    BY <2>8 DEF bootstrapVars, registry, BootstrapInv, ScriptOK, At, Under, Current
  <2> QED BY <2>1, <2>2, <2>3, <2>4, <2>5, <2>6, <2>7, <2>8
<1> QED BY <1>2, <1>3 DEF BootstrapInv

LEMMA DeprecateInv ==
  ASSUME BootstrapInv, Deprecate PROVE BootstrapInv'
<1>1. /\ status = "deprecating" /\ current # <<>> /\ current[1] = "deprecate"
      /\ current' = <<"tag", Current>>
      /\ deprecated' \in {deprecated, deprecated \cup {Current}}
      /\ failures' \in {failures, failures \cup {Current}}
      /\ Current \in deprecated' \cup failures'
      /\ UNCHANGED <<versions, latest, tagged, phase2, status>>
  BY DEF Deprecate, At
<1>2. Current \in Packages /\ Placeholder \in versions[Current]
  BY <1>1 DEF BootstrapInv, ScriptOK, At, Current
<1>3. RegistryOK'
  BY <1>1, <1>2 DEF BootstrapInv, RegistryOK
<1>4. Current' = Current /\ current' # <<>> /\ current'[1] = "tag"
  BY <1>1 DEF Current
<1>5. ScriptOK'
  <2>1. current' \in Steps \X Packages
    BY <1>1, <1>2 DEF Steps
  <2>2. Packages \subseteq phase2 \cup failures' \cup deprecated' \cup {Current}
    BY <1>1 DEF BootstrapInv, ScriptOK, Under
  <2> QED BY <1>1, <1>4, <2>1, <2>2 DEF BootstrapInv, ScriptOK, At, Under
<1> QED BY <1>3, <1>5 DEF BootstrapInv

LEMMA DropTagInv ==
  ASSUME BootstrapInv, DropTag PROVE BootstrapInv'
<1>1. /\ status = "deprecating" /\ current # <<>> /\ current[1] = "tag" /\ current' = <<>>
      /\ failures' \in {failures, failures \cup {Current}}
      /\ tagged' = tagged \/ (tagged' = tagged \ {Current} /\ latest[Current] \notin {"", Placeholder})
      /\ UNCHANGED <<versions, latest, deprecated, phase2, status>>
  BY DEF DropTag, At, View
<1>2. Current \in Packages /\ Current \in deprecated \cup failures
  BY <1>1 DEF BootstrapInv, ScriptOK, At, Current
<1>3. RegistryOK'
  BY <1>1, <1>2 DEF BootstrapInv, RegistryOK
<1>4. ScriptOK'
  BY <1>1, <1>2 DEF BootstrapInv, ScriptOK, At, Under
<1> QED BY <1>3, <1>4 DEF BootstrapInv

(* Success is reported only when every package's placeholder is there and     *)
(* deprecated, for any number of packages and runs and whichever calls fail   *)
(* or succeed without saying so; and none is left with neither its tag nor a  *)
(* release (bootstrap-package.mjs:193-221, 235-245).                          *)
THEOREM SuccessIsTrue == BootstrapSpec => []SuccessMeansDeprecated
<1>1. BootstrapInv /\ [BootstrapNext]_bootstrapVars => BootstrapInv'
  BY RegistryMoves, PublishOneInv, QuietScript, DeprecateInv, DropTagInv DEF BootstrapNext
<1>2. BootstrapInv => SuccessMeansDeprecated
  BY DEF BootstrapInv, RegistryOK, ScriptOK, SuccessMeansDeprecated
<1> QED BY <1>1, <1>2, BootstrapInitInv, PTL DEF BootstrapSpec

-----------------------------------------------------------------------------
(* Induction over the numbers, for a set of them.                            *)

LEMMA Induction ==
  ASSUME NEW G, 0 \in G, \A n \in Nat : n \in G => n + 1 \in G
  PROVE  \A n \in Nat : n \in G
<1> DEFINE Bad == {n \in Nat : n \notin G}
<1>1. ASSUME Bad # {} PROVE FALSE
  <2>1. Bad \subseteq Nat
    OBVIOUS
  <2> HIDE DEF Bad
  <2>2. PICK n \in Bad : \A m \in Bad : ~(<<m, n>> \in OpToRel(<, Nat))
    BY <1>1, <2>1, NatLessThanWellFounded, WFMin
  <2>3. n \in Nat /\ n \notin G
    BY DEF Bad
  <2>4. n - 1 \in Nat /\ n = (n - 1) + 1
    BY <2>3
  <2>5. n - 1 \notin G
    BY <2>3, <2>4
  <2>6. <<n - 1, n>> \in OpToRel(<, Nat)
    BY <2>3, <2>4 DEF OpToRel
  <2> QED BY <2>2, <2>4, <2>5, <2>6 DEF Bad
<1> QED BY <1>1

(* What FlattenSeq computes: the concatenation, one sequence after another. *)
Flattens(h, X, k, seqs) ==
  /\ h[0] = <<>> /\ \A i \in 0 .. k : h[i] \in Seq(X)
  /\ \A i \in 1 .. k : h[i] = h[i - 1] \o seqs[i]
  /\ FlattenSeq(seqs) = h[k]

LEMMA FlattenFacts ==
  ASSUME NEW X, NEW k \in Nat, NEW seqs, Len(seqs) = k, k = 0 => seqs = <<>>,
         \A i \in 1 .. k : seqs[i] \in Seq(X)
  PROVE  \E h : Flattens(h, X, k, seqs)
<1>1. CASE k = 0
  <2> DEFINE h == [i \in 0 .. 0 |-> <<>>]
  <2>1. h[0] = <<>> /\ <<>> \in Seq(X)
    OBVIOUS
  <2>2. FlattenSeq(seqs) = <<>>
    BY <1>1 DEF FlattenSeq
  <2>3. 1 .. k = {} /\ 0 .. k = {0}
    BY <1>1
  <2> HIDE DEF h
  <2> QED BY <1>1, <2>1, <2>2, <2>3 DEF Flattens
<1>2. CASE k # 0
  <2> DEFINE Concats(f, n) == /\ DOMAIN f = 1 .. n
                              /\ f = [i \in 1 .. n |-> IF i = 1 THEN seqs[i] ELSE f[i - 1] \o seqs[i]]
                              /\ \A i \in 1 .. n : f[i] \in Seq(X)
             Made == {n \in Nat : n > k \/ n = 0 \/ \E f : Concats(f, n)}
             Whole(f) == f = [i \in 1 .. k |-> IF i = 1 THEN seqs[i] ELSE f[i - 1] \o seqs[i]]
             flatten == CHOOSE f : Whole(f)
  <2> HIDE DEF Concats
  <2>1. FlattenSeq(seqs) = flatten[k]
    BY <1>2 DEF FlattenSeq
  <2>2. ASSUME NEW n \in Nat, n \in Made PROVE n + 1 \in Made
    <3>1. CASE n >= k
      BY <3>1
    <3>2. CASE n = 0
      <4> DEFINE g == [i \in 1 .. 1 |-> seqs[1]]
      <4>1. 1 \in 1 .. k /\ g[1] = seqs[1] /\ \A i \in 1 .. 1 : i = 1
        BY <1>2
      <4>2. g = [i \in 1 .. 1 |-> IF i = 1 THEN seqs[i] ELSE g[i - 1] \o seqs[i]]
        BY <4>1
      <4>3. Concats(g, 1)
        BY <4>1, <4>2 DEF Concats
      <4> QED BY <3>2, <4>3
    <3>3. CASE n # 0 /\ n < k
      <4>1. PICK f : Concats(f, n)
        BY <2>2, <3>3
      <4> DEFINE more == f[n] \o seqs[n + 1]
                 g == [i \in 1 .. n + 1 |-> IF i <= n THEN f[i] ELSE more]
      <4> HIDE DEF more
      <4>2. /\ n \in 1 .. n /\ n + 1 \in 1 .. k /\ ~(n + 1 <= n)
            /\ \A i \in 1 .. n + 1 : i \in 1 .. n \/ i = n + 1
            /\ \A i \in 1 .. n : i <= n /\ (i # 1 => i - 1 \in 1 .. n)
        BY <3>3
      <4>3. /\ \A i \in 1 .. n : g[i] = f[i]
            /\ g[n + 1] = more /\ DOMAIN g = 1 .. n + 1
        BY <4>2
      <4> HIDE DEF g
      <4>4. \A i \in 1 .. n + 1 : g[i] = IF i = 1 THEN seqs[i] ELSE g[i - 1] \o seqs[i]
        <5>1. \A i \in 1 .. n : g[i] = IF i = 1 THEN seqs[i] ELSE g[i - 1] \o seqs[i]
          <6> SUFFICES ASSUME NEW i \in 1 .. n
                       PROVE  g[i] = IF i = 1 THEN seqs[i] ELSE g[i - 1] \o seqs[i]
            OBVIOUS
          <6>1. f[i] = IF i = 1 THEN seqs[i] ELSE f[i - 1] \o seqs[i]
            BY <4>1 DEF Concats
          <6> QED BY <4>2, <4>3, <6>1
        <5>2. n + 1 # 1 /\ (n + 1) - 1 = n
          BY <3>3
        <5>3. g[n + 1] = g[n] \o seqs[n + 1]
          BY <4>2, <4>3 DEF more
        <5> QED BY <4>2, <5>1, <5>2, <5>3
      <4>5. \A i \in 1 .. n + 1 : g[i] \in Seq(X)
        <5>1. f[n] \in Seq(X) /\ seqs[n + 1] \in Seq(X)
          BY <4>1, <4>2 DEF Concats
        <5>2. more \in Seq(X)
          BY <5>1, ConcatProperties DEF more
        <5> QED BY <4>1, <4>2, <4>3, <5>2 DEF Concats
      <4>6. g = [i \in 1 .. n + 1 |-> g[i]]
        BY <4>3 DEF g
      <4>7. g = [i \in 1 .. n + 1 |-> IF i = 1 THEN seqs[i] ELSE g[i - 1] \o seqs[i]]
        BY <4>4, <4>6
      <4>8. Concats(g, n + 1)
        BY <4>3, <4>5, <4>7 DEF Concats
      <4> QED BY <4>8
    <3> QED BY <3>1, <3>2, <3>3
  <2>3. k \in Made
    <3> HIDE DEF Made
    <3>1. 0 \in Made
      BY DEF Made
    <3> QED BY <2>2, <3>1, Induction
  <2>4. PICK f : Concats(f, k)
    BY <1>2, <2>3
  <2>5. Whole(flatten)
    <3>1. Whole(f)
      BY <2>4 DEF Concats
    <3> HIDE DEF Whole
    <3> QED BY <3>1
  <2> HIDE DEF flatten
  <2>6. \A i \in 1 .. k : flatten[i] = IF i = 1 THEN seqs[i] ELSE flatten[i - 1] \o seqs[i]
    BY <2>5
  <2> HIDE DEF Whole, Made
  <2> DEFINE h == [i \in 0 .. k |-> IF i = 0 THEN <<>> ELSE flatten[i]]
             Typed == {i \in Nat : i > k \/ h[i] \in Seq(X)}
  <2>7. h[0] = <<>> /\ \A i \in 1 .. k : h[i] = flatten[i] /\ i - 1 \in 0 .. k
    OBVIOUS
  <2>8. \A i \in 1 .. k : h[i] = h[i - 1] \o seqs[i]
    <3> SUFFICES ASSUME NEW i \in 1 .. k PROVE h[i] = h[i - 1] \o seqs[i]
      OBVIOUS
    <3>1. CASE i = 1
      <4>1. <<>> \o seqs[i] = seqs[i]
        BY ConcatEmptySeq
      <4>2. h[i] = seqs[i] /\ i - 1 = 0
        BY <2>6, <2>7, <3>1
      <4> HIDE DEF h
      <4> QED BY <2>7, <4>1, <4>2
    <3>2. CASE i # 1
      <4>1. i - 1 \in 1 .. k
        BY <3>2
      <4> HIDE DEF h
      <4> QED BY <2>6, <2>7, <3>2, <4>1
    <3> QED BY <3>1, <3>2
  <2> HIDE DEF h
  <2>9. ASSUME NEW i \in Nat, i \in Typed PROVE i + 1 \in Typed
    <3>1. CASE i >= k
      BY <3>1
    <3>2. CASE i < k
      <4>0. i + 1 \in Nat
        OBVIOUS
      <4>1. i + 1 \in 1 .. k /\ (i + 1) - 1 = i /\ h[i] \in Seq(X)
        BY <2>9, <3>2
      <4>2. h[i] \o seqs[i + 1] \in Seq(X)
        BY <4>1, ConcatProperties
      <4>3. h[i + 1] = h[i] \o seqs[i + 1]
        BY <2>8, <4>1
      <4> QED BY <4>0, <4>2, <4>3
    <3> QED BY <3>1, <3>2
  <2>10. \A i \in 0 .. k : h[i] \in Seq(X)
    <3>1. 0 \in Typed
      BY <2>7, EmptySeq
    <3>2. \A i \in Nat : i \in Typed
      <4> HIDE DEF Typed
      <4> QED BY <2>9, <3>1, Induction
    <3> QED BY <3>2
  <2>11. FlattenSeq(seqs) = h[k]
    BY <1>2, <2>1, <2>7
  <2> QED BY <2>7, <2>8, <2>10, <2>11 DEF Flattens
<1> QED BY <1>1, <1>2


-----------------------------------------------------------------------------
(* Stuffing: where each byte of a body stands in what is sent.               *)

Dotted(body, k) == body[k] = Dot /\ StartsLine(body, k)

Placed(body, S, pos) ==
  /\ pos[0] = 0 /\ pos[Len(body)] = Len(S)
  /\ \A k \in 0 .. Len(body) : pos[k] \in 0 .. Len(S)
  /\ \A k \in 1 .. Len(body) :
       /\ pos[k] = pos[k - 1] + (IF Dotted(body, k) THEN 2 ELSE 1)
       /\ S[pos[k]] = body[k]
       /\ Dotted(body, k) => S[pos[k] - 1] = Dot

LEMMA StuffPlaces ==
  ASSUME NEW X, NEW body \in Seq(X)
  PROVE  /\ Stuff(body) \in Seq(X \cup {Dot})
         /\ \E pos : Placed(body, Stuff(body), pos)
<1> DEFINE Y == X \cup {Dot}
           N == Len(body)
           seqs == [i \in DOMAIN body |->
                      IF body[i] = Dot /\ StartsLine(body, i) THEN <<Dot, Dot>> ELSE <<body[i]>>]
           S == Stuff(body)
<1>1. N \in Nat /\ DOMAIN body = 1 .. N /\ \A i \in 1 .. N : body[i] \in Y
  BY LenProperties
<1>2. S = FlattenSeq(seqs)
  BY DEF Stuff
<1>3. /\ DOMAIN seqs = 1 .. N /\ Len(seqs) = N
      /\ N = 0 => seqs = <<>>
      /\ \A i \in 1 .. N : seqs[i] = IF Dotted(body, i) THEN <<Dot, Dot>> ELSE <<body[i]>>
  BY <1>1 DEF Dotted
<1> HIDE DEF seqs
<1>4. ASSUME NEW i \in 1 .. N
      PROVE  /\ seqs[i] \in Seq(Y) /\ Len(seqs[i]) = IF Dotted(body, i) THEN 2 ELSE 1
             /\ seqs[i][Len(seqs[i])] = body[i]
             /\ Dotted(body, i) => seqs[i][1] = Dot
  <2>1. CASE Dotted(body, i)
    <3>1. seqs[i] = <<Dot, Dot>> /\ Dot \in Y /\ body[i] = Dot
      BY <1>3, <2>1 DEF Dotted
    <3> HIDE DEF Y
    <3> QED BY <2>1, <3>1
  <2>2. CASE ~Dotted(body, i)
    <3>1. seqs[i] = <<body[i]>> /\ body[i] \in Y
      BY <1>1, <1>3, <2>2
    <3> HIDE DEF Y
    <3> QED BY <2>2, <3>1
  <2> QED BY <2>1, <2>2
<1> HIDE DEF Y, S
<1>5. PICK h : /\ h[0] = <<>> /\ \A i \in 0 .. N : h[i] \in Seq(Y)
               /\ \A i \in 1 .. N : h[i] = h[i - 1] \o seqs[i]
               /\ S = h[N]
  <2>1. \A i \in 1 .. N : seqs[i] \in Seq(Y)
    BY <1>4
  <2> HIDE DEF N
  <2>2. \E h : Flattens(h, Y, N, seqs)
    BY <1>1, <1>3, <2>1, FlattenFacts, Zenon
  <2> QED BY <1>2, <2>2 DEF Flattens
<1> DEFINE pos == [i \in 0 .. N |-> Len(h[i])]
           Begins(i, m) == pos[i] <= pos[m] /\ \A j \in 1 .. pos[i] : h[m][j] = h[i][j]
<1> HIDE DEF N
<1>6. ASSUME NEW i \in 1 .. N
      PROVE  /\ pos[i] \in Nat /\ pos[i - 1] \in Nat /\ i - 1 \in 0 .. N
             /\ pos[i] = pos[i - 1] + (IF Dotted(body, i) THEN 2 ELSE 1)
             /\ \A j \in 1 .. pos[i - 1] : h[i][j] = h[i - 1][j]
             /\ h[i][pos[i]] = body[i]
             /\ Dotted(body, i) => h[i][pos[i] - 1] = Dot
  <2> DEFINE a == h[i - 1]
             b == seqs[i]
             c == h[i]
  <2>1. i - 1 \in 0 .. N /\ i \in 0 .. N
    BY <1>1
  <2>2. a \in Seq(Y) /\ b \in Seq(Y) /\ c = a \o b
    BY <1>4, <1>5, <2>1
  <2>3. pos[i] = Len(c) /\ pos[i - 1] = Len(a)
    BY <2>1
  <2>4. /\ Len(b) = IF Dotted(body, i) THEN 2 ELSE 1
        /\ b[Len(b)] = body[i]
        /\ Dotted(body, i) => b[1] = Dot
    BY <1>4
  <2> HIDE DEF a, b, c, pos
  <2>5. /\ Len(a) \in Nat /\ Len(b) \in Nat /\ Len(c) = Len(a) + Len(b)
        /\ \A j \in 1 .. Len(a) + Len(b) : c[j] = IF j <= Len(a) THEN a[j] ELSE b[j - Len(a)]
    BY <2>2, ConcatProperties, LenProperties
  <2>6. \A j \in 1 .. Len(a) : c[j] = a[j]
    BY <2>5
  <2>7. c[Len(c)] = body[i]
    <3>1. Len(c) \in 1 .. Len(a) + Len(b) /\ ~(Len(c) <= Len(a)) /\ Len(c) - Len(a) = Len(b)
      BY <2>4, <2>5
    <3> QED BY <2>4, <2>5, <3>1
  <2>8. Dotted(body, i) => c[Len(c) - 1] = Dot
    <3> SUFFICES ASSUME Dotted(body, i) PROVE c[Len(c) - 1] = Dot
      OBVIOUS
    <3>1. /\ Len(c) - 1 \in 1 .. Len(a) + Len(b) /\ ~(Len(c) - 1 <= Len(a))
          /\ (Len(c) - 1) - Len(a) = 1
      BY <2>4, <2>5
    <3> QED BY <2>4, <2>5, <3>1
  <2>9. /\ pos[i] \in Nat /\ pos[i - 1] \in Nat
        /\ pos[i] = pos[i - 1] + (IF Dotted(body, i) THEN 2 ELSE 1)
    BY <2>3, <2>4, <2>5
  <2>10. \A j \in 1 .. pos[i - 1] : c[j] = a[j]
    BY <2>3, <2>6
  <2> QED BY <2>1, <2>3, <2>7, <2>8, <2>9, <2>10 DEF a, c
<1>7. pos[0] = 0 /\ \A i \in 0 .. N : pos[i] \in Nat
  <2>1. \A i \in 0 .. N : Len(h[i]) \in Nat
    BY <1>5, LenProperties
  <2>2. Len(h[0]) = 0 /\ 0 \in 0 .. N
    BY <1>1, <1>5, EmptySeq
  <2> QED BY <2>1, <2>2
<1> HIDE DEF pos
<1>8. \A m \in 0 .. N : \A i \in 0 .. m : Begins(i, m)
  <2> DEFINE Good == {m \in Nat : m > N \/ \A i \in 0 .. m : Begins(i, m)}
  <2>1. 0 \in Good
    <3>1. \A i \in 0 .. 0 : i = 0
      OBVIOUS
    <3> QED BY <1>7, <3>1
  <2> HIDE DEF Begins
  <2>2. ASSUME NEW m \in Nat, m \in Good PROVE m + 1 \in Good
    <3>1. CASE m + 1 > N
      BY <3>1
    <3>2. CASE ~(m + 1 > N)
      <4>1. /\ m + 1 \in 1 .. N /\ (m + 1) - 1 = m /\ m + 1 \in Nat /\ m \in 0 .. N
            /\ \A i \in 0 .. m : Begins(i, m)
            /\ \A i \in 0 .. m + 1 : i \in 0 .. m \/ i = m + 1
            /\ \A i \in 0 .. m : i \in 0 .. N
        BY <1>1, <2>2, <3>2
      <4>2. /\ pos[m + 1] \in Nat /\ pos[m] \in Nat /\ pos[m] <= pos[m + 1]
            /\ \A j \in 1 .. pos[m] : h[m + 1][j] = h[m][j]
        BY <1>6, <4>1
      <4>3. ASSUME NEW i \in 0 .. m PROVE Begins(i, m + 1)
        <5>1. pos[i] \in Nat /\ pos[i] <= pos[m] /\ \A j \in 1 .. pos[i] : h[m][j] = h[i][j]
          BY <1>7, <4>1 DEF Begins
        <5>2. \A j \in 1 .. pos[i] : j \in 1 .. pos[m]
          BY <4>2, <5>1
        <5>3. pos[i] <= pos[m + 1]
          BY <4>2, <5>1
        <5>4. \A j \in 1 .. pos[i] : h[m + 1][j] = h[i][j]
          BY <4>2, <5>1, <5>2
        <5> QED BY <5>3, <5>4 DEF Begins
      <4>4. Begins(m + 1, m + 1)
        BY <4>2 DEF Begins
      <4>5. \A i \in 0 .. m + 1 : Begins(i, m + 1)
        BY <4>1, <4>3, <4>4
      <4> QED BY <4>1, <4>5
    <3> QED BY <3>1, <3>2
  <2>3. \A m \in Nat : m \in Good
    <3> HIDE DEF Good
    <3> QED BY <2>1, <2>2, Induction
  <2> QED BY <1>1, <2>3
<1>9. /\ pos[N] = Len(S) /\ \A k \in 0 .. N : pos[k] \in 0 .. Len(S) /\ \A j \in 1 .. pos[k] : S[j] = h[k][j]
  <2>1. pos[N] = Len(S) /\ N \in 0 .. N
    BY <1>1, <1>5 DEF pos
  <2> SUFFICES ASSUME NEW k \in 0 .. N
               PROVE  pos[k] \in 0 .. Len(S) /\ \A j \in 1 .. pos[k] : S[j] = h[k][j]
    BY <2>1
  <2>2. Begins(k, N)
    BY <1>1, <1>8, <2>1
  <2> QED BY <1>5, <1>7, <2>1, <2>2
<1>10. ASSUME NEW k \in 1 .. N
       PROVE  /\ S[pos[k]] = body[k]
              /\ Dotted(body, k) => S[pos[k] - 1] = Dot
  <2>1. /\ k \in 0 .. N /\ pos[k] \in 1 .. pos[k]
        /\ Dotted(body, k) => pos[k] - 1 \in 1 .. pos[k]
    BY <1>6
  <2> QED BY <1>6, <1>9, <2>1
<1>11. S \in Seq(Y)
  BY <1>1, <1>5
<1>12. Placed(body, S, pos)
  <2>1. \A k \in 1 .. N : pos[k] = pos[k - 1] + (IF Dotted(body, k) THEN 2 ELSE 1)
    BY <1>6
  <2> QED BY <1>7, <1>9, <1>10, <2>1 DEF Placed, N
<1> QED BY <1>11, <1>12 DEF S, Y

(* A line starts in what is sent where one starts in the body. *)
LEMMA LinesAgree ==
  ASSUME NEW X, NEW body \in Seq(X), NEW S, NEW pos, Placed(body, S, pos), NEW k \in 0 .. Len(body),
         Len(S) \in Nat
  PROVE  StartsLine(S, pos[k] + 1) <=> StartsLine(body, k + 1)
<1>1. Len(body) \in Nat
  BY LenProperties
<1>2. CASE k = 0
  BY <1>2 DEF Placed, StartsLine
<1>3. CASE k # 0
  <2>1. k \in 1 .. Len(body) /\ k - 1 \in 0 .. Len(body)
    BY <1>1, <1>3
  <2>2. /\ pos[k] \in Nat /\ pos[k - 1] \in Nat
        /\ pos[k] = pos[k - 1] + (IF Dotted(body, k) THEN 2 ELSE 1)
        /\ S[pos[k]] = body[k]
    BY <1>1, <2>1 DEF Placed
  <2>3. pos[k] # 0 /\ pos[k] + 1 # 1 /\ k + 1 # 1 /\ (pos[k] + 1) - 1 = pos[k] /\ (k + 1) - 1 = k
    BY <2>1, <2>2
  <2>4. CASE body[k] # LF
    BY <2>2, <2>3, <2>4 DEF StartsLine
  <2>5. CASE body[k] = LF
    <3>1. ~Dotted(body, k)
      BY <2>5 DEF Dotted, Dot, LF
    <3>2. pos[k] = pos[k - 1] + 1 /\ (pos[k] + 1) - 2 = pos[k - 1] /\ (k + 1) - 2 = k - 1
      BY <2>1, <2>2, <3>1
    <3>3. CASE k = 1
      <4>1. pos[k - 1] = 0
        BY <3>3 DEF Placed
      <4> QED BY <3>2, <3>3, <4>1 DEF StartsLine
    <3>4. CASE k # 1
      <4>1. k - 1 \in 1 .. Len(body) /\ (k - 1) - 1 \in 0 .. Len(body)
        BY <1>1, <2>1, <3>4
      <4>2. S[pos[k - 1]] = body[k - 1] /\ pos[(k - 1) - 1] \in Nat
            /\ pos[k - 1] = pos[(k - 1) - 1] + (IF Dotted(body, k - 1) THEN 2 ELSE 1)
        BY <1>1, <4>1 DEF Placed
      <4>3. pos[k - 1] >= 1
        BY <2>2, <4>2
      <4>4. pos[k] + 1 > 2 /\ k + 1 > 2
        BY <2>2, <3>2, <4>1, <4>3
      <4>5. StartsLine(S, pos[k] + 1) <=> S[pos[k - 1]] = CR
        BY <2>2, <2>3, <2>5, <3>2, <4>4 DEF StartsLine
      <4>6. StartsLine(body, k + 1) <=> body[k - 1] = CR
        BY <2>3, <2>5, <3>2, <4>4 DEF StartsLine
      <4> QED BY <4>2, <4>5, <4>6
    <3> QED BY <3>3, <3>4
  <2> QED BY <2>4, <2>5
<1> QED BY <1>2, <1>3

(* Which of the bytes sent is a dot that starts a line: the one before the   *)
(* body's own, and nothing else.                                             *)
LEMMA OnlyDottedStarts ==
  ASSUME NEW X, NEW body \in Seq(X), NEW S, NEW pos, Placed(body, S, pos), NEW k \in 1 .. Len(body),
         Len(S) \in Nat
  PROVE  /\ ~(S[pos[k]] = Dot /\ StartsLine(S, pos[k]))
         /\ Dotted(body, k) => S[pos[k] - 1] = Dot /\ StartsLine(S, pos[k] - 1)
         /\ pos[k] \in 1 .. Len(S) /\ pos[k - 1] \in 0 .. Len(S)
         /\ Dotted(body, k) => pos[k] - 1 \in 1 .. Len(S)
<1>1. Len(body) \in Nat
  BY LenProperties
<1>2. k - 1 \in 0 .. Len(body) /\ (k - 1) + 1 = k /\ k \in 0 .. Len(body)
  BY <1>1
<1>3. /\ pos[k] \in 0 .. Len(S) /\ pos[k - 1] \in 0 .. Len(S)
      /\ pos[k] = pos[k - 1] + (IF Dotted(body, k) THEN 2 ELSE 1)
      /\ S[pos[k]] = body[k]
      /\ Dotted(body, k) => S[pos[k] - 1] = Dot
  BY <1>2 DEF Placed
<1>4. StartsLine(S, pos[k - 1] + 1) <=> StartsLine(body, k)
  BY <1>2, LinesAgree
<1>5. CASE Dotted(body, k)
  <2>1. pos[k] - 1 = pos[k - 1] + 1 /\ pos[k] # 1 /\ pos[k] \in 1 .. Len(S) /\ pos[k] - 1 \in 1 .. Len(S)
    <3>1. pos[k] = pos[k - 1] + 2
      BY <1>3, <1>5
    <3>2. pos[k] \in 0 .. Len(S) /\ pos[k - 1] \in 0 .. Len(S)
      BY <1>3
    <3> QED BY <3>1, <3>2
  <2>2. ~StartsLine(S, pos[k])
    BY <1>3, <1>5, <2>1 DEF StartsLine, Dot, LF
  <2> QED BY <1>3, <1>4, <1>5, <2>1, <2>2 DEF Dotted
<1>6. CASE ~Dotted(body, k)
  <2>1. pos[k] = pos[k - 1] + 1 /\ pos[k] \in 1 .. Len(S)
    BY <1>3, <1>6
  <2> QED BY <1>3, <1>4, <1>6, <2>1 DEF Dotted
<1> QED BY <1>5, <1>6

LEMMA EveryPlace ==
  ASSUME NEW X, NEW body \in Seq(X), NEW S, NEW pos, Placed(body, S, pos), Len(S) \in Nat
  PROVE  \A j \in 1 .. Len(S) :
           \E k \in 1 .. Len(body) : j = pos[k] \/ (Dotted(body, k) /\ j = pos[k] - 1)
<1> DEFINE N == Len(body)
           Known(j) == \E k \in 1 .. N : j = pos[k] \/ (Dotted(body, k) /\ j = pos[k] - 1)
           Good == {m \in Nat : m > N \/ \A j \in 1 .. pos[m] : Known(j)}
<1>1. N \in Nat
  BY LenProperties
<1>2. /\ pos[0] = 0 /\ pos[N] = Len(S) /\ \A k \in 0 .. N : pos[k] \in Nat
      /\ \A k \in 1 .. N : pos[k] = pos[k - 1] + (IF Dotted(body, k) THEN 2 ELSE 1)
  BY DEF Placed
<1> HIDE DEF N
<1>3. 0 \in Good
  BY <1>2
<1> HIDE DEF Known
<1>4. ASSUME NEW m \in Nat, m \in Good PROVE m + 1 \in Good
  <2>1. CASE m + 1 > N
    BY <2>1
  <2>2. CASE ~(m + 1 > N)
    <3>1. m + 1 \in 1 .. N /\ (m + 1) - 1 = m /\ m \in 0 .. N /\ m + 1 \in Nat /\ m + 1 \in 0 .. N
      BY <1>1, <2>2
    <3>2. \A j \in 1 .. pos[m] : Known(j)
      BY <1>1, <1>4, <3>1
    <3>3. pos[m] \in Nat /\ pos[m + 1] \in Nat
          /\ pos[m + 1] = pos[m] + (IF Dotted(body, m + 1) THEN 2 ELSE 1)
      BY <1>2, <3>1
    <3>4. \A j \in 1 .. pos[m + 1] :
            \/ j \in 1 .. pos[m] \/ j = pos[m + 1]
            \/ Dotted(body, m + 1) /\ j = pos[m + 1] - 1
      BY <3>3
    <3>5. \A j \in 1 .. pos[m + 1] : Known(j)
      <4> SUFFICES ASSUME NEW j \in 1 .. pos[m + 1] PROVE Known(j)
        OBVIOUS
      <4>1. CASE j \in 1 .. pos[m]
        BY <3>2, <4>1
      <4>2. CASE j = pos[m + 1] \/ (Dotted(body, m + 1) /\ j = pos[m + 1] - 1)
        BY <3>1, <4>2 DEF Known
      <4> QED BY <3>4, <4>1, <4>2
    <3> QED BY <3>1, <3>5
  <2> QED BY <2>1, <2>2
<1>5. N \in Good
  <2> HIDE DEF Good
  <2> QED BY <1>1, <1>3, <1>4, Induction
<1> QED BY <1>1, <1>2, <1>5 DEF N, Known


(* What is taken out is what was put in. *)
LEMMA UnstuffUndoes ==
  ASSUME NEW X, NEW body \in Seq(X)
  PROVE  Unstuff(Stuff(body)) = body
<1> DEFINE Y == X \cup {Dot}
           N == Len(body)
           S == Stuff(body)
           Stuffed == {i \in DOMAIN S : S[i] = Dot /\ StartsLine(S, i)}
           seqs == [i \in DOMAIN S |-> IF i \in Stuffed THEN <<>> ELSE <<S[i]>>]
<1>1. N \in Nat /\ S \in Seq(Y)
  BY StuffPlaces, LenProperties
<1>2. PICK pos : Placed(body, S, pos)
  BY StuffPlaces
<1>3. Unstuff(S) = FlattenSeq(seqs)
  BY DEF Unstuff
<1> HIDE DEF S, Y
<1>4. Len(S) \in Nat /\ DOMAIN S = 1 .. Len(S)
  BY <1>1, LenProperties
<1>5. /\ DOMAIN seqs = 1 .. Len(S) /\ Len(seqs) = Len(S)
      /\ Len(S) = 0 => seqs = <<>>
      /\ \A i \in 1 .. Len(S) : seqs[i] = IF i \in Stuffed THEN <<>> ELSE <<S[i]>>
  <2> HIDE DEF Stuffed
  <2> QED BY <1>4
<1> HIDE DEF seqs
<1>6. \A i \in 1 .. Len(S) : seqs[i] \in Seq(Y)
  <2> SUFFICES ASSUME NEW i \in 1 .. Len(S) PROVE seqs[i] \in Seq(Y)
    OBVIOUS
  <2>1. S[i] \in Y
    BY <1>1, ElementOfSeq
  <2>2. <<S[i]>> \in Seq(Y) /\ <<>> \in Seq(Y)
    BY <2>1
  <2> HIDE DEF Stuffed
  <2> QED BY <1>5, <2>2
<1>7. \E g : Flattens(g, Y, Len(S), seqs)
  BY <1>4, <1>5, <1>6, FlattenFacts, Zenon
<1>8. PICK g : /\ g[0] = <<>> /\ \A i \in 0 .. Len(S) : g[i] \in Seq(Y)
               /\ \A i \in 1 .. Len(S) : g[i] = g[i - 1] \o seqs[i]
               /\ FlattenSeq(seqs) = g[Len(S)]
  BY <1>7 DEF Flattens
<1>9. ASSUME NEW k \in 1 .. N PROVE g[pos[k]] = g[pos[k - 1]] \o <<body[k]>>
  <2>1. /\ ~(S[pos[k]] = Dot /\ StartsLine(S, pos[k]))
        /\ Dotted(body, k) => S[pos[k] - 1] = Dot /\ StartsLine(S, pos[k] - 1)
        /\ pos[k] \in 1 .. Len(S) /\ pos[k - 1] \in 0 .. Len(S)
        /\ Dotted(body, k) => pos[k] - 1 \in 1 .. Len(S)
    BY <1>2, <1>4, OnlyDottedStarts
  <2>2. S[pos[k]] = body[k] /\ pos[k] = pos[k - 1] + (IF Dotted(body, k) THEN 2 ELSE 1)
    BY <1>2 DEF Placed
  <2>3. pos[k] \notin Stuffed
    BY <2>1
  <2>4. seqs[pos[k]] = <<body[k]>>
    <3> HIDE DEF Stuffed
    <3> QED BY <1>5, <2>1, <2>2, <2>3
  <2>5. g[pos[k]] = g[pos[k] - 1] \o <<body[k]>>
    BY <1>8, <2>1, <2>4
  <2>6. CASE ~Dotted(body, k)
    <3>1. pos[k] - 1 = pos[k - 1]
      BY <1>4, <2>1, <2>2, <2>6
    <3> QED BY <2>5, <3>1
  <2>7. CASE Dotted(body, k)
    <3>1. pos[k] - 1 \in Stuffed /\ pos[k] - 1 \in 1 .. Len(S) /\ (pos[k] - 1) - 1 = pos[k - 1]
      BY <1>4, <2>1, <2>2, <2>7
    <3>2. seqs[pos[k] - 1] = <<>>
      <4> HIDE DEF Stuffed
      <4> QED BY <1>5, <3>1
    <3>3. g[pos[k] - 1] = g[pos[k - 1]] \o <<>>
      BY <1>8, <3>1, <3>2
    <3>4. g[pos[k - 1]] \in Seq(Y)
      BY <1>8, <2>1
    <3>5. g[pos[k] - 1] = g[pos[k - 1]]
      BY <3>3, <3>4, ConcatEmptySeq
    <3> QED BY <2>5, <3>5
  <2> QED BY <2>6, <2>7
<1> DEFINE Good == {k \in Nat : k > N \/ g[pos[k]] = SubSeq(body, 1, k)}
<1>10. 0 \in Good
  <2>1. pos[0] = 0 /\ g[0] = <<>>
    BY <1>2, <1>8 DEF Placed
  <2>2. SubSeq(body, 1, 0) = <<>>
    BY SubSeqEmpty
  <2> QED BY <2>1, <2>2
<1>11. ASSUME NEW k \in Nat, k \in Good PROVE k + 1 \in Good
  <2>1. CASE k + 1 > N
    BY <2>1
  <2>2. CASE ~(k + 1 > N)
    <3>1. k + 1 \in 1 .. N /\ (k + 1) - 1 = k /\ 1 \in 1 .. Len(body) /\ k + 1 \in 1 .. Len(body) /\ k + 1 \in Nat
      BY <1>1, <2>2
    <3>2. g[pos[k]] = SubSeq(body, 1, k)
      BY <1>1, <1>11, <3>1
    <3>3. SubSeq(body, 1, k + 1) = SubSeq(body, 1, (k + 1) - 1) \o <<body[k + 1]>>
      BY <3>1, SubSeqRecursiveSecond
    <3>4. g[pos[k + 1]] = g[pos[(k + 1) - 1]] \o <<body[k + 1]>>
      BY <1>9, <3>1
    <3>5. g[pos[k + 1]] = SubSeq(body, 1, k + 1)
      BY <3>1, <3>2, <3>3, <3>4
    <3> QED BY <3>1, <3>5
  <2> QED BY <2>1, <2>2
<1>12. N \in Good
  <2> HIDE DEF Good, N
  <2> QED BY <1>1, <1>10, <1>11, Induction
<1>13. g[pos[N]] = SubSeq(body, 1, N) /\ pos[N] = Len(S)
  <2>1. ~(N > N)
    BY <1>1
  <2> QED BY <1>2, <1>12, <2>1 DEF Placed
<1>14. SubSeq(body, 1, N) = body
  BY SubSeqFull
<1> QED BY <1>3, <1>8, <1>13, <1>14 DEF S

(* Inside what is sent no line is a dot alone, and after it a line starts.   *)
LEMMA StuffedIsSafe ==
  ASSUME NEW X, NEW body \in Seq(X), StartsLine(body, Len(body) + 1)
  PROVE  LET S == Stuff(body)
         IN /\ Len(S) \in Nat
            /\ \A j \in 1 .. Len(S) : S[j] = Dot /\ StartsLine(S, j) =>
                 j + 1 \in 1 .. Len(S) /\ S[j + 1] = Dot
            /\ StartsLine(S, Len(S) + 1)
<1> DEFINE S == Stuff(body)
<1>1. Len(body) \in Nat /\ Len(S) \in Nat
  BY StuffPlaces, LenProperties
<1>2. PICK pos : Placed(body, S, pos)
  BY StuffPlaces
<1> HIDE DEF S
<1>3. ASSUME NEW j \in 1 .. Len(S), S[j] = Dot, StartsLine(S, j)
      PROVE  j + 1 \in 1 .. Len(S) /\ S[j + 1] = Dot
  <2>1. PICK k \in 1 .. Len(body) : j = pos[k] \/ (Dotted(body, k) /\ j = pos[k] - 1)
    BY <1>1, <1>2, EveryPlace
  <2>2. ~(S[pos[k]] = Dot /\ StartsLine(S, pos[k])) /\ pos[k] \in 1 .. Len(S)
    BY <1>1, <1>2, OnlyDottedStarts
  <2>3. Dotted(body, k) /\ j = pos[k] - 1
    BY <1>3, <2>1, <2>2
  <2>4. S[pos[k]] = Dot /\ j + 1 = pos[k]
    BY <1>2, <2>2, <2>3 DEF Placed, Dotted
  <2> QED BY <2>2, <2>4
<1>4. StartsLine(S, Len(S) + 1)
  <2>1. Len(body) \in 0 .. Len(body) /\ pos[Len(body)] = Len(S)
    BY <1>1, <1>2 DEF Placed
  <2>2. StartsLine(S, pos[Len(body)] + 1) <=> StartsLine(body, Len(body) + 1)
    BY <1>1, <1>2, <2>1, LinesAgree
  <2> QED BY <2>1, <2>2
<1> QED BY <1>1, <1>3, <1>4 DEF S


-----------------------------------------------------------------------------
(* The stream, byte by byte, and where each reply ends in it.                *)

Bytes == Int \cup {Ybegin, Ypart, Yend}
Block == Stuff(sent.body)

Ends == <<3, Len(Block) + 6, Len(Block) + 9>>
Consumed(n) == IF n = 0 THEN 0 ELSE Ends[n]
Replies == <<<<Status>>, sent.body, <<Status>>>>

StreamFacts ==
  /\ Stream \in Seq(Bytes \cup {Status, Dot}) /\ Len(Block) \in Nat
  /\ Len(Stream) = Len(Block) + 9
  /\ Stream[1] = Status /\ Stream[2] = CR /\ Stream[3] = LF
  /\ \A i \in 1 .. Len(Block) : Stream[3 + i] = Block[i]
  /\ Stream[Len(Block) + 4] = Dot /\ Stream[Len(Block) + 5] = CR /\ Stream[Len(Block) + 6] = LF
  /\ Stream[Len(Block) + 7] = Status /\ Stream[Len(Block) + 8] = CR /\ Stream[Len(Block) + 9] = LF

Joins(u, X, s, m, t, n) ==
  /\ u \in Seq(X) /\ Len(u) = m + n
  /\ \A i \in 1 .. m : u[i] = s[i]
  /\ \A i \in 1 .. n : u[m + i] = t[i]

LEMMA Joined ==
  ASSUME NEW X, NEW s \in Seq(X), NEW t \in Seq(X), NEW m \in Nat, NEW n \in Nat, Len(s) = m, Len(t) = n
  PROVE  Joins(s \o t, X, s, m, t, n)
<1> DEFINE u == s \o t
<1>1. /\ u \in Seq(X) /\ Len(u) = m + n
      /\ \A i \in 1 .. m + n : u[i] = IF i <= m THEN s[i] ELSE t[i - m]
  BY ConcatProperties
<1> HIDE DEF u
<1>2. \A i \in 1 .. m : i \in 1 .. m + n /\ i <= m
  OBVIOUS
<1>3. \A i \in 1 .. n : m + i \in 1 .. m + n /\ ~(m + i <= m) /\ (m + i) - m = i
  OBVIOUS
<1> QED BY <1>1, <1>2, <1>3 DEF u, Joins

LEMMA StreamIs == sent \in Bodies => StreamFacts
<1> SUFFICES ASSUME sent \in Bodies PROVE StreamFacts
  OBVIOUS
<1> DEFINE Y == Bytes \cup {Status, Dot}
           a == <<Status>>
           b == a \o CRLF
           c == b \o Block
           d == c \o Terminator
           e == d \o a
<1>1. sent.body \in Seq(Bytes)
  BY BodiesAssumption DEF Bytes
<1>2. Block \in Seq(Y)
  <2>1. Block \in Seq(Bytes \cup {Dot}) /\ Bytes \cup {Dot} \subseteq Y
    BY <1>1, StuffPlaces DEF Block
  <2> HIDE DEF Y
  <2> QED BY <2>1, SeqMonotonic
<1>3. /\ a \in Seq(Y) /\ CRLF \in Seq(Y) /\ Terminator \in Seq(Y)
      /\ Len(a) = 1 /\ Len(CRLF) = 2 /\ Len(Terminator) = 3
      /\ a[1] = Status /\ CRLF[1] = CR /\ CRLF[2] = LF
      /\ Terminator[1] = Dot /\ Terminator[2] = CR /\ Terminator[3] = LF
  <2>1. CR \in Y /\ LF \in Y /\ Dot \in Y /\ Status \in Y
    BY DEF CR, LF, Bytes
  <2> HIDE DEF Y
  <2> QED BY <2>1 DEF CRLF, Terminator
<1>4. Stream = e \o CRLF
  BY DEF Stream, Block
<1> HIDE DEF Y, a
<1>5. b \in Seq(Y) /\ Len(b) = 3 /\ b[1] = Status /\ b[2] = CR /\ b[3] = LF
  <2>1. Joins(b, Y, a, 1, CRLF, 2)
    BY <1>3, Joined
  <2> HIDE DEF b
  <2>2. b \in Seq(Y) /\ Len(b) = 3 /\ b[1] = a[1] /\ b[2] = CRLF[1] /\ b[3] = CRLF[2]
    BY <2>1 DEF Joins
  <2> QED BY <1>3, <2>1, <2>2
<1> HIDE DEF b
<1> DEFINE n == Len(Block)
<1>6. n \in Nat
  BY <1>2, LenProperties
<1> HIDE DEF n
<1>7. /\ c \in Seq(Y) /\ Len(c) = n + 3 /\ c[1] = Status /\ c[2] = CR /\ c[3] = LF
      /\ \A i \in 1 .. n : c[3 + i] = Block[i]
  <2>0. Len(Block) = n
    BY DEF n
  <2>1. Joins(c, Y, b, 3, Block, n)
    BY <1>2, <1>5, <1>6, <2>0, Joined
  <2> HIDE DEF c
  <2>2. c[1] = b[1] /\ c[2] = b[2] /\ c[3] = b[3]
    BY <2>1 DEF Joins
  <2> QED BY <1>5, <1>6, <2>1, <2>2 DEF Joins
<1> HIDE DEF c
<1>8. /\ d \in Seq(Y) /\ Len(d) = n + 6 /\ \A i \in 1 .. n + 3 : d[i] = c[i]
      /\ d[n + 4] = Dot /\ d[n + 5] = CR /\ d[n + 6] = LF
  <2>0. n + 3 \in Nat
    BY <1>6
  <2>1. Joins(d, Y, c, n + 3, Terminator, 3)
    BY <1>3, <1>7, <2>0, Joined
  <2> HIDE DEF d
  <2>2. d[n + 4] = Terminator[1] /\ d[n + 5] = Terminator[2] /\ d[n + 6] = Terminator[3]
    BY <1>6, <2>1 DEF Joins
  <2> QED BY <1>3, <1>6, <2>1, <2>2 DEF Joins
<1> HIDE DEF d
<1>9. /\ e \in Seq(Y) /\ Len(e) = n + 7 /\ \A i \in 1 .. n + 6 : e[i] = d[i]
      /\ e[n + 7] = Status
  <2>0. n + 6 \in Nat
    BY <1>6
  <2>1. Joins(e, Y, d, n + 6, a, 1)
    BY <1>3, <1>8, <2>0, Joined
  <2> HIDE DEF e
  <2>2. e[n + 7] = a[1]
    BY <1>6, <2>1 DEF Joins
  <2> QED BY <1>3, <1>6, <2>1, <2>2 DEF Joins
<1> HIDE DEF e
<1>10. /\ Stream \in Seq(Y) /\ Len(Stream) = n + 9 /\ \A i \in 1 .. n + 7 : Stream[i] = e[i]
       /\ Stream[n + 8] = CR /\ Stream[n + 9] = LF
  <2>0. n + 7 \in Nat
    BY <1>6
  <2>1. Joins(Stream, Y, e, n + 7, CRLF, 2)
    BY <1>3, <1>4, <1>9, <2>0, Joined
  <2>2. Stream[n + 8] = CRLF[1] /\ Stream[n + 9] = CRLF[2]
    BY <1>6, <2>1 DEF Joins
  <2> QED BY <1>3, <1>6, <2>1, <2>2 DEF Joins
<1>11. \A i \in 1 .. n + 3 : Stream[i] = c[i]
  BY <1>6, <1>8, <1>9, <1>10
<1>12. /\ Stream[1] = Status /\ Stream[2] = CR /\ Stream[3] = LF
       /\ \A i \in 1 .. n : Stream[3 + i] = Block[i]
  BY <1>6, <1>7, <1>11
<1>13. /\ Stream[n + 4] = Dot /\ Stream[n + 5] = CR /\ Stream[n + 6] = LF /\ Stream[n + 7] = Status
  BY <1>6, <1>8, <1>9, <1>10
<1> QED BY <1>6, <1>10, <1>12, <1>13 DEF StreamFacts, n, Y

(* What has arrived and not been consumed. *)
Unread(c, a) == SubSeq(Stream, c + 1, a)

LEMMA UnreadIs ==
  ASSUME StreamFacts, NEW c \in Nat, NEW a \in Nat, c <= a, a <= Len(Stream)
  PROVE  /\ Len(Unread(c, a)) = a - c
         /\ Unread(c, a) \in Seq(Bytes \cup {Status, Dot})
         /\ \A i \in 1 .. a - c : Unread(c, a)[i] = Stream[c + i]
<1>1. Stream \in Seq(Bytes \cup {Status, Dot}) /\ Len(Stream) \in Nat
  BY LenProperties DEF StreamFacts
<1>2. \A i \in c + 1 .. a : Stream[i] \in Bytes \cup {Status, Dot}
  BY <1>1, ElementOfSeq
<1>3. c + 1 \in Int /\ a \in Int /\ a - (c + 1) + 1 = a - c /\ \A i \in Int : (c + 1) + i - 1 = c + i
  OBVIOUS
<1>4. /\ Unread(c, a) \in Seq(Bytes \cup {Status, Dot})
      /\ Len(Unread(c, a)) = IF c + 1 <= a THEN a - (c + 1) + 1 ELSE 0
      /\ \A i \in 1 .. a - (c + 1) + 1 : Unread(c, a)[i] = Stream[(c + 1) + i - 1]
  BY <1>2, <1>3, SubSeqProperties DEF Unread
<1> DEFINE u == Unread(c, a)
<1> HIDE DEF u
<1>5. u \in Seq(Bytes \cup {Status, Dot}) /\ Len(u) = a - c
  BY <1>3, <1>4 DEF u
<1>6. \A i \in 1 .. a - c : u[i] = Stream[c + i]
  <2>1. \A i \in 1 .. a - c : u[i] = Stream[(c + 1) + i - 1]
    BY <1>3, <1>4 DEF u
  <2> QED BY <1>3, <2>1
<1> QED BY <1>5, <1>6 DEF u

(* More arrives; some is consumed. *)
LEMMA UnreadGrows ==
  ASSUME StreamFacts, NEW c \in Nat, NEW a \in Nat, NEW b \in Nat, c <= a, a <= b, b <= Len(Stream)
  PROVE  Unread(c, a) \o SubSeq(Stream, a + 1, b) = Unread(c, b)
<1> DEFINE Y == Bytes \cup {Status, Dot}
           u == Unread(c, a)
           v == Unread(a, b)
           w == Unread(c, b)
<1>1. /\ u \in Seq(Y) /\ v \in Seq(Y) /\ w \in Seq(Y)
      /\ Len(u) = a - c /\ Len(v) = b - a /\ Len(w) = b - c
      /\ \A i \in 1 .. a - c : u[i] = Stream[c + i]
      /\ \A i \in 1 .. b - a : v[i] = Stream[a + i]
      /\ \A i \in 1 .. b - c : w[i] = Stream[c + i]
  <2>1. c <= b /\ a <= Len(Stream)
    BY DEF StreamFacts
  <2> QED BY <2>1, UnreadIs
<1> HIDE DEF Y, u, v, w
<1> DEFINE uv == u \o v
<1>2. Joins(uv, Y, u, a - c, v, b - a)
  <2>1. a - c \in Nat /\ b - a \in Nat
    OBVIOUS
  <2> QED BY <1>1, <2>1, Joined
<1> HIDE DEF uv
<1>3. ASSUME NEW i \in 1 .. b - c PROVE uv[i] = w[i]
  <2>1. CASE i <= a - c
    <3>1. i \in 1 .. a - c
      BY <2>1
    <3>2. uv[i] = u[i]
      BY <1>2, <3>1 DEF Joins
    <3>3. u[i] = Stream[c + i] /\ w[i] = Stream[c + i]
      BY <1>1, <3>1
    <3> QED BY <3>2, <3>3
  <2>2. CASE ~(i <= a - c)
    <3> DEFINE j == i - (a - c)
    <3>1. j \in 1 .. b - a /\ (a - c) + j = i /\ a + j = c + i
      BY <2>2
    <3> HIDE DEF j
    <3>2. uv[i] = v[j]
      BY <1>2, <3>1 DEF Joins
    <3>3. v[j] = Stream[a + j] /\ w[i] = Stream[c + i]
      BY <1>1, <3>1
    <3> QED BY <3>1, <3>2, <3>3
  <2> QED BY <2>1, <2>2
<1>4. uv = w
  <2>1. uv \in Seq(Y) /\ w \in Seq(Y) /\ Len(uv) = Len(w) /\ Len(uv) = b - c
    BY <1>1, <1>2 DEF Joins
  <2> QED BY <1>3, <2>1, SeqEqual
<1> QED BY <1>4 DEF uv, u, v, w, Unread

LEMMA UnreadShrinks ==
  ASSUME StreamFacts, NEW c \in Nat, NEW a \in Nat, NEW k \in Nat, c + k <= a, a <= Len(Stream)
  PROVE  SubSeq(Unread(c, a), k + 1, Len(Unread(c, a))) = Unread(c + k, a)
<1> DEFINE Y == Bytes \cup {Status, Dot}
           u == Unread(c, a)
           n == a - c
           v == SubSeq(u, k + 1, n)
           w == Unread(c + k, a)
<1>1. n \in Nat /\ c <= a /\ c + k \in Nat
  OBVIOUS
<1>2. /\ u \in Seq(Y) /\ Len(u) = n /\ \A i \in 1 .. n : u[i] = Stream[c + i]
      /\ w \in Seq(Y) /\ Len(w) = a - (c + k) /\ \A i \in 1 .. a - (c + k) : w[i] = Stream[(c + k) + i]
  BY <1>1, UnreadIs
<1> HIDE DEF Y, u, w
<1>3. /\ v \in Seq(Y) /\ Len(v) = a - (c + k) /\ \A i \in 1 .. a - (c + k) : v[i] = u[k + i]
  <2>1. \A i \in k + 1 .. n : u[i] \in Y
    BY <1>1, <1>2, ElementOfSeq
  <2>2. /\ v \in Seq(Y) /\ Len(v) = IF k + 1 <= n THEN n - (k + 1) + 1 ELSE 0
        /\ \A i \in 1 .. n - (k + 1) + 1 : v[i] = u[(k + 1) + i - 1]
    <3> DEFINE m == k + 1
    <3>1. m \in Int /\ n \in Int
      BY <1>1
    <3>2. \A i \in m .. n : u[i] \in Y
      BY <2>1
    <3> HIDE DEF m, n
    <3>3. /\ SubSeq(u, m, n) \in Seq(Y) /\ Len(SubSeq(u, m, n)) = IF m <= n THEN n - m + 1 ELSE 0
          /\ \A i \in 1 .. n - m + 1 : SubSeq(u, m, n)[i] = u[m + i - 1]
      BY <3>1, <3>2, SubSeqProperties
    <3> QED BY <3>3 DEF m
  <2>3. n - (k + 1) + 1 = a - (c + k) /\ \A i \in Int : (k + 1) + i - 1 = k + i
    OBVIOUS
  <2> HIDE DEF v, n
  <2>4. n - k = a - (c + k) /\ k <= n /\ n \in Nat
    BY DEF n
  <2> QED BY <2>2, <2>3, <2>4
<1> HIDE DEF v
<1>4. ASSUME NEW i \in 1 .. a - (c + k) PROVE v[i] = w[i]
  <2>1. k + i \in 1 .. n /\ c + (k + i) = (c + k) + i
    OBVIOUS
  <2> QED BY <1>2, <1>3, <2>1
<1>5. v = w
  BY <1>2, <1>3, <1>4, SeqEqual
<1> QED BY <1>2, <1>5 DEF u, v, w


-----------------------------------------------------------------------------
(* What the searches find.                                                   *)

LEMMA LeastIs ==
  ASSUME NEW S, NEW m \in S, S \subseteq Int, \A i \in S : m <= i
  PROVE  Min(S) = m
<1> DEFINE Least(x) == x \in S /\ \A y \in S : x <= y
<1>1. Least(m)
  OBVIOUS
<1>2. Min(S) = CHOOSE x : Least(x)
  BY DEF Min
<1>3. ASSUME NEW x, Least(x) PROVE x = m
  BY <1>1, <1>3
<1> HIDE DEF Least
<1>4. Least(CHOOSE x : Least(x))
  BY <1>1
<1> QED BY <1>2, <1>3, <1>4

LEMMA CrlfOccurs ==
  ASSUME NEW X, NEW text \in Seq(X), NEW i \in Nat \ {0}
  PROVE  OccursAt(text, CRLF, i) <=> i + 1 <= Len(text) /\ text[i] = CR /\ text[i + 1] = LF
<1>1. Len(CRLF) = 2 /\ CRLF[1] = CR /\ CRLF[2] = LF /\ CRLF \in Seq({CR, LF})
  BY DEF CRLF
<1>2. Len(text) \in Nat
  BY LenProperties
<1>3. OccursAt(text, CRLF, i) <=> i + 1 <= Len(text) /\ SubSeq(text, i, i + 1) = CRLF
  BY <1>1 DEF OccursAt
<1>4. ASSUME i + 1 <= Len(text)
      PROVE  SubSeq(text, i, i + 1) = CRLF <=> text[i] = CR /\ text[i + 1] = LF
  <2> DEFINE s == SubSeq(text, i, i + 1)
             Y == X \cup {CR, LF}
  <2>1. \A j \in i .. i + 1 : text[j] \in Y
    <3>1. \A j \in i .. i + 1 : j \in 1 .. Len(text)
      BY <1>2, <1>4
    <3> QED BY <3>1, ElementOfSeq
  <2> HIDE DEF Y
  <2>2. /\ s \in Seq(Y) /\ Len(s) = IF i <= i + 1 THEN (i + 1) - i + 1 ELSE 0
        /\ \A j \in 1 .. (i + 1) - i + 1 : s[j] = text[i + j - 1]
    BY <2>1, SubSeqProperties
  <2>3. Len(s) = 2 /\ s[1] = text[i] /\ s[2] = text[i + 1]
    BY <2>2
  <2>4. CRLF \in Seq(Y)
    BY DEF CRLF, Y
  <2> HIDE DEF s
  <2>5. s = CRLF <=> s[1] = CRLF[1] /\ s[2] = CRLF[2]
    <3>1. ASSUME s[1] = CRLF[1], s[2] = CRLF[2] PROVE s = CRLF
      <4>1. \A j \in 1 .. Len(s) : j = 1 \/ j = 2
        BY <2>3
      <4> QED BY <1>1, <2>2, <2>3, <2>4, <3>1, <4>1, SeqEqual
    <3> QED BY <3>1
  <2> QED BY <1>1, <2>3, <2>5 DEF s
<1> QED BY <1>3, <1>4

LEMMA TerminatorOccurs ==
  ASSUME NEW X, NEW text \in Seq(X), NEW i \in Nat \ {0}
  PROVE  OccursAt(text, Terminator, i) <=>
           i + 2 <= Len(text) /\ text[i] = Dot /\ text[i + 1] = CR /\ text[i + 2] = LF
<1>1. Len(Terminator) = 3 /\ Terminator[1] = Dot /\ Terminator[2] = CR /\ Terminator[3] = LF
  BY DEF Terminator
<1>2. Len(text) \in Nat
  BY LenProperties
<1>3. OccursAt(text, Terminator, i) <=> i + 2 <= Len(text) /\ SubSeq(text, i, i + 2) = Terminator
  BY <1>1 DEF OccursAt
<1>4. ASSUME i + 2 <= Len(text)
      PROVE  SubSeq(text, i, i + 2) = Terminator <=>
               text[i] = Dot /\ text[i + 1] = CR /\ text[i + 2] = LF
  <2> DEFINE s == SubSeq(text, i, i + 2)
             Y == X \cup {Dot, CR, LF}
  <2>1. \A j \in i .. i + 2 : text[j] \in Y
    <3>1. \A j \in i .. i + 2 : j \in 1 .. Len(text)
      BY <1>2, <1>4
    <3> QED BY <3>1, ElementOfSeq
  <2> HIDE DEF Y
  <2>2. /\ s \in Seq(Y) /\ Len(s) = IF i <= i + 2 THEN (i + 2) - i + 1 ELSE 0
        /\ \A j \in 1 .. (i + 2) - i + 1 : s[j] = text[i + j - 1]
    BY <2>1, SubSeqProperties
  <2>3. Len(s) = 3 /\ s[1] = text[i] /\ s[2] = text[i + 1] /\ s[3] = text[i + 2]
    BY <2>2
  <2>4. Terminator \in Seq(Y)
    BY DEF Terminator, Y
  <2> HIDE DEF s
  <2>5. s = Terminator <=> s[1] = Terminator[1] /\ s[2] = Terminator[2] /\ s[3] = Terminator[3]
    <3>1. ASSUME s[1] = Terminator[1], s[2] = Terminator[2], s[3] = Terminator[3] PROVE s = Terminator
      <4>1. \A j \in 1 .. Len(s) : j = 1 \/ j = 2 \/ j = 3
        BY <2>3
      <4> QED BY <1>1, <2>2, <2>3, <2>4, <3>1, <4>1, SeqEqual
    <3> QED BY <3>1
  <2> QED BY <1>1, <2>3, <2>5 DEF s
<1> QED BY <1>3, <1>4

(* A status line is found once its last byte is there. *)
LEMMA LineFound ==
  ASSUME NEW X, NEW text \in Seq(X),
         Len(text) >= 1 => text[1] = Status,
         Len(text) >= 2 => text[2] = CR,
         Len(text) >= 3 => text[3] = LF
  PROVE  LineEnd(text, 1) = IF Len(text) >= 3 THEN 2 ELSE Len(text) + 1
<1> DEFINE ends == {j \in 1 .. Len(text) : OccursAt(text, CRLF, j)}
<1>1. Len(text) \in Nat
  BY LenProperties
<1>2. \A j \in 1 .. Len(text) :
        OccursAt(text, CRLF, j) <=> j + 1 <= Len(text) /\ text[j] = CR /\ text[j + 1] = LF
  BY <1>1, CrlfOccurs
<1>3. \A j \in ends : j >= 2 /\ j + 1 <= Len(text) /\ j \in Int
  <2> SUFFICES ASSUME NEW j \in ends PROVE j >= 2 /\ j + 1 <= Len(text) /\ j \in Int
    OBVIOUS
  <2>1. j \in 1 .. Len(text) /\ j + 1 <= Len(text) /\ text[j] = CR
    BY <1>2
  <2>2. j # 1
    BY <1>1, <2>1, StatusAssumption
  <2> QED BY <1>1, <2>1, <2>2
<1>4. CASE Len(text) >= 3
  <2>1. 2 \in ends
    BY <1>1, <1>2, <1>4
  <2> HIDE DEF ends
  <2>2. Min(ends) = 2
    BY <1>3, <2>1, LeastIs
  <2>3. LineEnd(text, 1) = IF ends = {} THEN Len(text) + 1 ELSE Min(ends)
    BY DEF LineEnd, ends
  <2> QED BY <1>4, <2>1, <2>2, <2>3
<1>5. CASE ~(Len(text) >= 3)
  <2>1. ends = {}
    BY <1>1, <1>3, <1>5
  <2> QED BY <1>5, <2>1 DEF LineEnd
<1> QED BY <1>4, <1>5

(* The terminator is found once its last byte is there, and nothing before   *)
(* is taken for it, wherever the search resumes.                             *)
LEMMA BlockFound ==
  ASSUME StreamFacts, sent \in Bodies, NEW a \in Nat, 3 <= a, a <= Len(Stream),
         NEW from \in Nat, from <= Len(Block)
  PROVE  FindTerminator(Unread(3, a), from) = IF a >= Len(Block) + 6 THEN Len(Block) + 1 ELSE 0
<1> DEFINE text == Unread(3, a)
           n == Len(Block)
           found == {i \in from + 1 .. Len(text) : OccursAt(text, Terminator, i) /\ StartsLine(text, i)}
<1>1. /\ n \in Nat /\ text \in Seq(Bytes \cup {Status, Dot}) /\ Len(text) = a - 3
      /\ \A i \in 1 .. a - 3 : text[i] = Stream[3 + i]
  BY UnreadIs DEF StreamFacts
<1>2. /\ \A j \in 1 .. n : Block[j] = Dot /\ StartsLine(Block, j) =>
            j + 1 \in 1 .. n /\ Block[j + 1] = Dot
      /\ StartsLine(Block, n + 1)
  BY BodiesAssumption, StuffedIsSafe DEF Block, Bytes
<1> HIDE DEF text, n
<1>3. /\ \A i \in 1 .. n : Stream[3 + i] = Block[i]
      /\ Stream[n + 4] = Dot /\ Stream[n + 5] = CR /\ Stream[n + 6] = LF
  BY DEF StreamFacts, n
<1>4. \A i \in 1 .. n : i <= a - 3 => text[i] = Block[i]
  BY <1>1, <1>3
<1>5. \A i \in 1 .. n + 1 : i <= a - 3 + 1 => (StartsLine(text, i) <=> StartsLine(Block, i))
  <2> SUFFICES ASSUME NEW i \in 1 .. n + 1, i <= a - 3 + 1
               PROVE  StartsLine(text, i) <=> StartsLine(Block, i)
    OBVIOUS
  <2>1. CASE i > 2
    <3>1. i - 1 \in 1 .. n /\ i - 2 \in 1 .. n /\ i - 1 <= a - 3 /\ i - 2 <= a - 3
      BY <1>1, <2>1
    <3>2. text[i - 1] = Block[i - 1] /\ text[i - 2] = Block[i - 2]
      BY <1>4, <3>1
    <3> QED BY <3>2 DEF StartsLine
  <2>2. CASE ~(i > 2)
    BY <2>2 DEF StartsLine
  <2> QED BY <2>1, <2>2
<1>6. \A i \in found : i \in Nat /\ i >= n + 1 /\ i + 2 <= a - 3
  <2> SUFFICES ASSUME NEW i \in found PROVE i \in Nat /\ i >= n + 1 /\ i + 2 <= a - 3
    OBVIOUS
  <2>1. i \in Nat \ {0} /\ OccursAt(text, Terminator, i) /\ StartsLine(text, i)
    OBVIOUS
  <2>2. i + 2 <= Len(text) /\ text[i] = Dot /\ text[i + 1] = CR
    BY <1>1, <2>1, TerminatorOccurs
  <2>3. ASSUME i <= n PROVE FALSE
    <3>0. i \in Nat \ {0} /\ i + 2 <= a - 3
      BY <1>1, <2>1, <2>2
    <3> HIDE DEF found
    <3>1. i \in 1 .. n /\ i <= a - 3 /\ i \in 1 .. n + 1 /\ i <= a - 3 + 1
      BY <1>1, <2>3, <3>0
    <3>2. Block[i] = Dot /\ StartsLine(Block, i)
      BY <1>4, <1>5, <2>1, <2>2, <3>1
    <3>3. i + 1 \in 1 .. n /\ Block[i + 1] = Dot /\ i + 1 <= a - 3
      BY <1>1, <1>2, <2>2, <3>1, <3>2
    <3>4. text[i + 1] = Dot
      BY <1>4, <3>3
    <3> QED BY <2>2, <3>4 DEF Dot, CR
  <2> HIDE DEF found
  <2>4. i + 2 <= a - 3
    BY <1>1, <2>2
  <2>5. ~(i <= n)
    BY <2>3
  <2> QED BY <1>1, <2>1, <2>4, <2>5
<1>7. FindTerminator(text, from) = IF found = {} THEN 0 ELSE Min(found)
  BY DEF FindTerminator
<1>8. CASE a >= n + 6
  <2>1. n + 1 \in found
    <3>1. n + 1 \in from + 1 .. Len(text) /\ n + 1 \in Nat \ {0} /\ n + 1 <= a - 3 + 1 /\ n + 1 \in 1 .. n + 1
      BY <1>1, <1>8 DEF n
    <3>2. /\ n + 1 \in 1 .. a - 3 /\ n + 2 \in 1 .. a - 3 /\ n + 3 \in 1 .. a - 3
          /\ 3 + (n + 1) = n + 4 /\ 3 + (n + 2) = n + 5 /\ 3 + (n + 3) = n + 6
          /\ (n + 1) + 1 = n + 2 /\ (n + 1) + 2 = n + 3
      BY <1>1, <1>8
    <3>3. text[n + 1] = Dot /\ text[n + 2] = CR /\ text[n + 3] = LF
      BY <1>1, <1>3, <3>2
    <3>4. OccursAt(text, Terminator, n + 1)
      BY <1>1, <1>8, <3>1, <3>2, <3>3, TerminatorOccurs
    <3>5. StartsLine(text, n + 1)
      BY <1>2, <1>5, <3>1
    <3> QED BY <3>1, <3>4, <3>5
  <2>2. Min(found) = n + 1
    <3>1. found \subseteq Int /\ \A i \in found : n + 1 <= i
      BY <1>1, <1>6
    <3> HIDE DEF found
    <3> QED BY <2>1, <3>1, LeastIs
  <2> HIDE DEF found
  <2> QED BY <1>7, <1>8, <2>1, <2>2 DEF text, n
<1>9. CASE ~(a >= n + 6)
  <2>1. found = {}
    BY <1>1, <1>6, <1>9
  <2> HIDE DEF found
  <2> QED BY <1>7, <1>9, <2>1 DEF text, n
<1> QED BY <1>8, <1>9 DEF n


-----------------------------------------------------------------------------
(* The invariant: the client holds the first k replies, the buffer what     *)
(* arrived after the k-th, and whoever waits, waits for bytes not yet here. *)

Given(k) ==
  CASE k = 0 -> <<>>
    [] k = 1 -> <<<<Status>>>>
    [] k = 2 -> <<<<Status>>, sent.body>>
    [] k = 3 -> Replies

Awaits(w, k, a) == w = "none" \/ (k < 3 /\ w = Expected[k + 1] /\ a < Consumed(k + 1))

Framed(k, a, text, from, w, had) ==
  /\ a \in 0 .. Len(Stream) /\ Consumed(k) <= a
  /\ text = Unread(Consumed(k), a)
  /\ from \in 0 .. Len(Block) /\ (k # 1 => from = 0)
  /\ Awaits(w, k, a)
  /\ had = Given(k)

WireInv ==
  \/ sent = NoBody /\ arrived = 0 /\ buffer = <<>> /\ searched = 0 /\ waiter = "none" /\ taken = <<>>
  \/ sent \in Bodies /\ \E k \in 0 .. 3 : Framed(k, arrived, buffer, searched, waiter, taken)

LEMMA PrefixIs ==
  ASSUME NEW X, NEW s \in Seq(X), NEW t \in Seq(X), Len(s) <= Len(t), \A i \in 1 .. Len(s) : s[i] = t[i]
  PROVE  IsPrefix(s, t)
<1> DEFINE n == Len(s)
           u == SubSeq(s, 1, n)
           v == SubSeq(t, 1, n)
<1>1. n \in Nat /\ Len(t) \in Nat
  BY LenProperties
<1>2. \A i \in 1 .. n : s[i] \in X /\ t[i] \in X
  <2>1. \A i \in 1 .. n : i \in 1 .. Len(s) /\ i \in 1 .. Len(t)
    BY <1>1
  <2> QED BY <2>1, ElementOfSeq
<1>3. /\ u \in Seq(X) /\ Len(u) = IF 1 <= n THEN n - 1 + 1 ELSE 0
      /\ \A i \in 1 .. n - 1 + 1 : u[i] = s[1 + i - 1]
  BY <1>1, <1>2, SubSeqProperties
<1>4. /\ v \in Seq(X) /\ Len(v) = IF 1 <= n THEN n - 1 + 1 ELSE 0
      /\ \A i \in 1 .. n - 1 + 1 : v[i] = t[1 + i - 1]
  BY <1>1, <1>2, SubSeqProperties
<1>5. \A i \in 1 .. n : s[i] = t[i]
  OBVIOUS
<1> HIDE DEF n, u, v
<1>6. /\ Len(u) = n /\ Len(v) = n /\ \A i \in 1 .. n : u[i] = s[i] /\ v[i] = t[i]
  BY <1>1, <1>3, <1>4
<1>7. u = v
  BY <1>3, <1>4, <1>5, <1>6, SeqEqual
<1> QED BY <1>7 DEF IsPrefix, n, u, v

LEMMA GivenIs ==
  ASSUME NEW k \in 0 .. 3
  PROVE  /\ Len(Given(k)) = k /\ IsPrefix(Given(k), Replies)
         /\ k < 3 => /\ Append(Given(k), Replies[k + 1]) = Given(k + 1)
                     /\ Given(k + 1) # Given(k)
<1> DEFINE a == <<Status>>
           b == sent.body
           X == {a, b}
           G0 == <<>>
           G1 == <<a>>
           G2 == <<a, b>>
           G3 == <<a, b, a>>
<1>1. /\ Replies = G3 /\ Given(0) = G0 /\ Given(1) = G1 /\ Given(2) = G2 /\ Given(3) = G3
  BY DEF Replies, Given
<1> HIDE DEF a, b
<1>2. /\ G0 \in Seq(X) /\ G1 \in Seq(X) /\ G2 \in Seq(X) /\ G3 \in Seq(X)
      /\ Len(G0) = 0 /\ Len(G1) = 1 /\ Len(G2) = 2 /\ Len(G3) = 3
      /\ G1[1] = a /\ G2[1] = a /\ G2[2] = b /\ G3[1] = a /\ G3[2] = b /\ G3[3] = a
      /\ Append(G0, a) = G1 /\ Append(G1, b) = G2 /\ Append(G2, a) = G3
  <2>1. a \in X /\ b \in X
    OBVIOUS
  <2> HIDE DEF X
  <2>2. G0 \in Seq(X) /\ G1 \in Seq(X) /\ G2 \in Seq(X) /\ G3 \in Seq(X)
    BY <2>1
  <2>3. /\ Len(G0) = 0 /\ Len(G1) = 1 /\ Len(G2) = 2 /\ Len(G3) = 3
        /\ G1[1] = a /\ G2[1] = a /\ G2[2] = b /\ G3[1] = a /\ G3[2] = b /\ G3[3] = a
    OBVIOUS
  <2>4. Append(G0, a) = G1
    OBVIOUS
  <2> HIDE DEF G0, G1, G2, G3
  <2>5. Append(G1, b) = G2
    <3> DEFINE u == Append(G1, b)
    <3>1. u \in Seq(X) /\ Len(u) = Len(G1) + 1 /\ u[Len(G1) + 1] = b /\ \A i \in 1 .. Len(G1) : u[i] = G1[i]
      BY <2>1, <2>2, AppendProperties
    <3> HIDE DEF u
    <3>2. Len(u) = 2 /\ u[1] = a /\ u[2] = b
      BY <2>3, <3>1
    <3>3. \A i \in 1 .. 2 : u[i] = G2[i]
      BY <2>3, <3>2
    <3>4. u = G2
      BY <2>2, <2>3, <3>1, <3>2, <3>3, SeqEqual
    <3> QED BY <3>4 DEF u
  <2>6. Append(G2, a) = G3
    <3> DEFINE u == Append(G2, a)
    <3>1. u \in Seq(X) /\ Len(u) = Len(G2) + 1 /\ u[Len(G2) + 1] = a /\ \A i \in 1 .. Len(G2) : u[i] = G2[i]
      BY <2>1, <2>2, AppendProperties
    <3> HIDE DEF u
    <3>2. Len(u) = 3 /\ u[1] = a /\ u[2] = b /\ u[3] = a
      BY <2>3, <3>1
    <3>3. \A i \in 1 .. 3 : u[i] = G3[i]
      <4>1. \A i \in 1 .. 3 : i = 1 \/ i = 2 \/ i = 3
        OBVIOUS
      <4> QED BY <2>3, <3>2, <4>1
    <3>4. u = G3
      BY <2>2, <2>3, <3>1, <3>2, <3>3, SeqEqual
    <3> QED BY <3>4 DEF u
  <2> QED BY <2>2, <2>3, <2>4, <2>5, <2>6
<1> HIDE DEF X, G0, G1, G2, G3
<1>3. IsPrefix(G0, G3) /\ IsPrefix(G1, G3) /\ IsPrefix(G2, G3) /\ IsPrefix(G3, G3)
  <2>1. \A i \in 1 .. 0 : G0[i] = G3[i]
    OBVIOUS
  <2>2. \A i \in 1 .. 1 : G1[i] = G3[i]
    BY <1>2
  <2>3. \A i \in 1 .. 2 : G2[i] = G3[i]
    BY <1>2
  <2>4. IsPrefix(G0, G3)
    <3>1. Len(G0) <= Len(G3) /\ \A i \in 1 .. Len(G0) : G0[i] = G3[i]
      BY <1>2, <2>1
    <3> QED BY <1>2, <3>1, PrefixIs
  <2>5. IsPrefix(G1, G3)
    BY <1>2, <2>2, PrefixIs
  <2>6. IsPrefix(G2, G3)
    BY <1>2, <2>3, PrefixIs
  <2>7. IsPrefix(G3, G3)
    BY <1>2, PrefixIs
  <2> QED BY <2>4, <2>5, <2>6, <2>7
<1>4. k = 0 \/ k = 1 \/ k = 2 \/ k = 3
  OBVIOUS
<1>5. /\ k = 0 => Given(k) = G0 /\ Given(k + 1) = G1 /\ Replies[k + 1] = a
      /\ k = 1 => Given(k) = G1 /\ Given(k + 1) = G2 /\ Replies[k + 1] = b
      /\ k = 2 => Given(k) = G2 /\ Given(k + 1) = G3 /\ Replies[k + 1] = a
      /\ k = 3 => Given(k) = G3
  <2>1. 0 + 1 = 1 /\ 1 + 1 = 2 /\ 2 + 1 = 3
    OBVIOUS
  <2> QED BY <1>1, <1>2, <2>1
<1>6. Len(Given(k)) = k
  BY <1>2, <1>4, <1>5
<1>7. IsPrefix(Given(k), Replies)
  BY <1>1, <1>3, <1>4, <1>5
<1>8. ASSUME k < 3 PROVE Append(Given(k), Replies[k + 1]) = Given(k + 1)
  BY <1>2, <1>4, <1>5, <1>8
<1>9. ASSUME k < 3 PROVE Given(k + 1) # Given(k)
  BY <1>2, <1>4, <1>5, <1>9
<1> QED BY <1>6, <1>7, <1>8, <1>9

LEMMA ConsumedIs ==
  ASSUME StreamFacts
  PROVE  /\ Len(Block) \in Nat /\ Len(Stream) = Len(Block) + 9
         /\ Consumed(0) = 0 /\ Consumed(1) = 3
         /\ Consumed(2) = Len(Block) + 6 /\ Consumed(3) = Len(Block) + 9
         /\ Expected[1] = "line" /\ Expected[2] = "block" /\ Expected[3] = "line"
BY DEF StreamFacts, Consumed, Ends, Expected

(* Either status line, whatever follows it. *)
LEMMA LineTaken ==
  ASSUME sent \in Bodies, StreamFacts, NEW k \in {0, 2}, NEW a \in 0 .. Len(Stream), Consumed(k) <= a,
         taken = Given(k), searched = 0,
         Drain(Unread(Consumed(k), a), "line")
  PROVE  \E j \in 0 .. 3 : Framed(j, a, buffer', searched', waiter', taken')
<1> DEFINE c == Consumed(k)
           text == Unread(c, a)
           n == Len(Block)
<1>1. /\ n \in Nat /\ Len(Stream) = n + 9 /\ c \in Nat /\ c <= a /\ a \in Nat
      /\ (k = 0 /\ c = 0) \/ (k = 2 /\ c = n + 6)
      /\ Consumed(k + 1) = c + 3 /\ c + 3 <= Len(Stream)
      /\ Expected[k + 1] = "line" /\ Replies[k + 1] = <<Status>>
  <2>1. k \in 0 .. 3 /\ Consumed(0) = 0 /\ Consumed(1) = 3 /\ Consumed(2) = n + 6 /\ Consumed(3) = n + 9
        /\ n \in Nat /\ Len(Stream) = n + 9
    BY ConsumedIs
  <2>0. Replies[1] = <<Status>> /\ Replies[3] = <<Status>> /\ 0 + 1 = 1 /\ 2 + 1 = 3
        /\ Expected[1] = "line" /\ Expected[3] = "line"
    BY DEF Replies, Expected
  <2> HIDE DEF n
  <2>2. CASE k = 0
    BY <2>0, <2>1, <2>2
  <2>3. CASE k = 2
    BY <2>0, <2>1, <2>3
  <2> QED BY <2>2, <2>3
<1> HIDE DEF c, n
<1>2. /\ text \in Seq(Bytes \cup {Status, Dot}) /\ Len(text) = a - c
      /\ \A i \in 1 .. a - c : text[i] = Stream[c + i]
  <2>1. c \in Nat /\ c <= a /\ a \in Nat /\ a <= Len(Stream)
    BY <1>1
  <2> QED BY <2>1, UnreadIs
<1>3. Stream[c + 1] = Status /\ Stream[c + 2] = CR /\ Stream[c + 3] = LF
  <2>1. Stream[1] = Status /\ Stream[2] = CR /\ Stream[3] = LF
        /\ Stream[n + 7] = Status /\ Stream[n + 8] = CR /\ Stream[n + 9] = LF
    BY DEF StreamFacts, n
  <2>2. CASE c = 0
    BY <2>1, <2>2
  <2>3. CASE c = n + 6
    <3>1. c + 1 = n + 7 /\ c + 2 = n + 8 /\ c + 3 = n + 9
      BY <1>1, <2>3
    <3> QED BY <2>1, <3>1
  <2> QED BY <1>1, <2>2, <2>3
<1> HIDE DEF c, text, n
<1>4. /\ Len(text) >= 1 => text[1] = Status
      /\ Len(text) >= 2 => text[2] = CR
      /\ Len(text) >= 3 => text[3] = LF
  BY <1>1, <1>2, <1>3
<1>5. LineEnd(text, 1) = IF Len(text) >= 3 THEN 2 ELSE Len(text) + 1
  <2> HIDE DEF text
  <2> QED BY <1>2, <1>4, LineFound
<1>6. TakeLine(text) /\ waiter' = IF taken' = taken THEN "line" ELSE "none"
  BY DEF Drain, text, c
<1>7. CASE Len(text) >= 3
  <2>1. LineEnd(text, 1) = 2 /\ ~(2 > Len(text)) /\ 2 - 1 = 1 /\ 2 + 1 = 3
    BY <1>2, <1>5, <1>7
  <2>2. taken' = Append(taken, SubSeq(text, 1, 1)) /\ buffer' = SubSeq(text, 3 + 1, Len(text)) /\ searched' = 0
    BY <1>6, <2>1 DEF TakeLine, Consume
  <2>3. SubSeq(text, 1, 1) = <<Status>>
    <3> DEFINE Y == Bytes \cup {Status, Dot}
               s == SubSeq(text, 1, 1)
    <3>1. text[1] = Status /\ Status \in Y
      BY <1>2, <1>4, <1>7
    <3>2. s \in Seq(Y) /\ Len(s) = (IF 1 <= 1 THEN 1 - 1 + 1 ELSE 0) /\ \A i \in 1 .. 1 - 1 + 1 : s[i] = text[1 + i - 1]
      BY <3>1, SubSeqProperties
    <3>3. <<Status>> \in Seq(Y) /\ Len(<<Status>>) = 1 /\ <<Status>>[1] = Status
      BY <3>1
    <3> DEFINE t == <<Status>>
    <3> HIDE DEF Y, s, t
    <3>4. Len(s) = 1 /\ s[1] = Status
      BY <3>1, <3>2
    <3>5. t \in Seq(Y) /\ Len(t) = 1 /\ t[1] = Status
      BY <3>3 DEF t
    <3>6. s = t
      BY <3>2, <3>4, <3>5, SeqEqual
    <3> QED BY <3>6 DEF s, t
  <2>4. buffer' = Unread(c + 3, a)
    <3>1. 3 \in Nat /\ c + 3 <= a /\ a <= Len(Stream)
      BY <1>1, <1>2, <1>7
    <3>2. SubSeq(Unread(c, a), 3 + 1, Len(Unread(c, a))) = Unread(c + 3, a)
      BY <1>1, <3>1, UnreadShrinks
    <3> QED BY <2>2, <3>2 DEF text
  <2>5. k \in 0 .. 3 /\ k < 3 /\ k + 1 \in 0 .. 3 /\ c + 3 <= a
    BY <1>1, <1>2, <1>7
  <2>6. taken' = Given(k + 1) /\ taken' # taken
    BY <1>1, <2>2, <2>3, <2>5, GivenIs
  <2>7. waiter' = "none"
    BY <1>6, <2>6
  <2>8. Framed(k + 1, a, buffer', searched', waiter', taken')
    <3>1. Consumed(k + 1) <= a /\ buffer' = Unread(Consumed(k + 1), a)
      BY <1>1, <2>4, <2>5
    <3>2. searched' \in 0 .. Len(Block)
      BY <1>1, <2>2 DEF n
    <3> QED BY <2>2, <2>6, <2>7, <3>1, <3>2 DEF Framed, Awaits
  <2> QED BY <2>5, <2>8
<1>8. CASE ~(Len(text) >= 3)
  <2>1. LineEnd(text, 1) > Len(text)
    BY <1>1, <1>2, <1>5, <1>8
  <2>2. buffer' = text /\ searched' = searched /\ taken' = taken
    BY <1>6, <2>1 DEF TakeLine
  <2>3. waiter' = "line" /\ a < c + 3 /\ k < 3 /\ k \in 0 .. 3
    BY <1>1, <1>2, <1>6, <1>8, <2>2
  <2>4. Framed(k, a, buffer', searched', waiter', taken')
    <3>1. Awaits(waiter', k, a)
      BY <1>1, <2>3 DEF Awaits
    <3>2. buffer' = Unread(Consumed(k), a) /\ searched' \in 0 .. Len(Block) /\ searched' = 0
      BY <1>1, <2>2 DEF text, c, n
    <3> QED BY <2>2, <3>1, <3>2 DEF Framed
  <2> QED BY <2>3, <2>4
<1> QED BY <1>7, <1>8

(* The block, and where the next search begins when it is not all here. *)
LEMMA BlockTaken ==
  ASSUME sent \in Bodies, StreamFacts, NEW a \in 0 .. Len(Stream), Consumed(1) <= a,
         taken = Given(1), searched \in 0 .. Len(Block),
         Drain(Unread(Consumed(1), a), "block")
  PROVE  \E j \in 0 .. 3 : Framed(j, a, buffer', searched', waiter', taken')
<1> DEFINE text == Unread(3, a)
           n == Len(Block)
<1>1. /\ n \in Nat /\ Len(Stream) = n + 9 /\ a \in Nat /\ 3 <= a
      /\ Consumed(1) = 3 /\ Consumed(2) = n + 6 /\ Expected[2] = "block" /\ Replies[2] = sent.body
  BY ConsumedIs DEF Replies
<1>2. /\ text \in Seq(Bytes \cup {Status, Dot}) /\ Len(text) = a - 3
      /\ \A i \in 1 .. a - 3 : text[i] = Stream[3 + i]
  <2>1. 3 \in Nat /\ 3 <= a /\ a \in Nat /\ a <= Len(Stream)
    BY <1>1
  <2> HIDE DEF n
  <2> QED BY <2>1, UnreadIs
<1>3. TakeBlock(text) /\ waiter' = IF taken' = taken THEN "block" ELSE "none"
  BY <1>1 DEF Drain
<1>4. FindTerminator(text, searched) = IF a >= n + 6 THEN n + 1 ELSE 0
  BY <1>1, BlockFound
<1> HIDE DEF text, n
<1>5. CASE a >= n + 6
  <2>1. FindTerminator(text, searched) = n + 1 /\ n + 1 # 0 /\ (n + 1) - 1 = n /\ (n + 1) + 2 = n + 3
    BY <1>1, <1>4, <1>5
  <2>2. /\ taken' = Append(taken, Unstuff(SubSeq(text, 1, n)))
        /\ buffer' = SubSeq(text, (n + 3) + 1, Len(text)) /\ searched' = 0
    BY <1>3, <2>1 DEF TakeBlock, Consume
  <2>3. SubSeq(text, 1, n) = Block
    <3> DEFINE Y == Bytes \cup {Status, Dot}
               s == SubSeq(text, 1, n)
    <3>1. Block \in Seq(Y)
      <4>1. Block \in Seq(Bytes \cup {Dot}) /\ Bytes \cup {Dot} \subseteq Y
        BY BodiesAssumption, StuffPlaces DEF Block, Bytes
      <4> HIDE DEF Y
      <4> QED BY <4>1, SeqMonotonic
    <3>2. \A i \in 1 .. n : i \in 1 .. a - 3 /\ text[i] = Block[i]
      <4>1. \A i \in 1 .. n : Stream[3 + i] = Block[i] /\ i \in 1 .. a - 3
        BY <1>1, <1>5 DEF StreamFacts, n
      <4> QED BY <1>2, <4>1
    <3>3. \A i \in 1 .. n : text[i] \in Y
      BY <1>2, <3>2, ElementOfSeq
    <3>4. /\ s \in Seq(Y) /\ Len(s) = IF 1 <= n THEN n - 1 + 1 ELSE 0
          /\ \A i \in 1 .. n - 1 + 1 : s[i] = text[1 + i - 1]
      BY <1>1, <3>3, SubSeqProperties
    <3> HIDE DEF Y, s
    <3>5. Len(s) = n /\ \A i \in 1 .. n : s[i] = text[i]
      BY <1>1, <3>4
    <3>6. Len(Block) = n
      BY DEF n
    <3>7. s = Block
      BY <3>1, <3>2, <3>4, <3>5, <3>6, SeqEqual
    <3> QED BY <3>7 DEF s
  <2>4. Unstuff(SubSeq(text, 1, n)) = sent.body
    BY <2>3, BodiesAssumption, UnstuffUndoes DEF Block
  <2>5. taken' = Given(2) /\ taken' # taken
    <3>1. 1 \in 0 .. 3 /\ 1 < 3 /\ 1 + 1 = 2
      OBVIOUS
    <3> QED BY <1>1, <2>2, <2>4, <3>1, GivenIs
  <2>6. buffer' = Unread(n + 6, a)
    <3>1. 3 \in Nat /\ n + 3 \in Nat /\ 3 + (n + 3) = n + 6 /\ 3 + (n + 3) <= a /\ a <= Len(Stream)
      BY <1>1, <1>5
    <3>2. SubSeq(Unread(3, a), (n + 3) + 1, Len(Unread(3, a))) = Unread(3 + (n + 3), a)
      BY <1>1, <3>1, UnreadShrinks
    <3> QED BY <2>2, <3>1, <3>2 DEF text
  <2>7. Framed(2, a, buffer', searched', waiter', taken')
    <3>1. waiter' = "none"
      BY <1>3, <2>5
    <3>2. searched' \in 0 .. Len(Block) /\ searched' = 0
      BY <1>1, <2>2 DEF n
    <3> QED BY <1>1, <1>5, <2>5, <2>6, <3>1, <3>2 DEF Framed, Awaits
  <2> QED BY <2>7
<1>6. CASE ~(a >= n + 6)
  <2>1. buffer' = text /\ searched' = NotFound(text) /\ taken' = taken
    BY <1>3, <1>4, <1>6 DEF TakeBlock
  <2>2. searched' \in 0 .. Len(Block)
    BY <1>1, <1>2, <1>6, <2>1 DEF NotFound, n
  <2>3. Awaits(waiter', 1, a)
    BY <1>1, <1>3, <1>6, <2>1 DEF Awaits
  <2>4. Framed(1, a, buffer', searched', waiter', taken')
    BY <1>1, <2>1, <2>2, <2>3 DEF Framed, text
  <2> QED BY <2>4
<1> QED BY <1>5, <1>6

(* #drain, whatever is awaited. *)
LEMMA Drained ==
  ASSUME sent \in Bodies, StreamFacts, NEW k \in 0 .. 2, NEW a \in 0 .. Len(Stream), Consumed(k) <= a,
         taken = Given(k), searched \in 0 .. Len(Block), k # 1 => searched = 0,
         Drain(Unread(Consumed(k), a), Expected[k + 1])
  PROVE  \E j \in 0 .. 3 : Framed(j, a, buffer', searched', waiter', taken')
<1>1. CASE k = 1
  <2>1. Drain(Unread(Consumed(1), a), "block")
    BY <1>1, ConsumedIs
  <2> QED BY <1>1, <2>1, BlockTaken
<1>2. CASE k \in {0, 2}
  <2>1. Drain(Unread(Consumed(k), a), "line") /\ searched = 0
    BY <1>2, ConsumedIs
  <2> QED BY <1>2, <2>1, LineTaken
<1> QED BY <1>1, <1>2

LEMMA WireKeeps == WireInv /\ WireNext => WireInv'
<1> SUFFICES ASSUME WireInv, WireNext PROVE WireInv'
  OBVIOUS
<1> DEFINE Holds(k) == Framed(k, arrived, buffer, searched, waiter, taken)
<1>1. ASSUME sent \in Bodies, sent' = sent, \E k \in 0 .. 3 : Framed(k, arrived', buffer', searched', waiter', taken')
      PROVE  WireInv'
  <2>1. \A k : Given(k)' = Given(k) /\ Consumed(k)' = Consumed(k)
    BY <1>1 DEF Given, Consumed, Ends, Replies, Block
  <2>2. Block' = Block /\ Stream' = Stream
    BY <1>1 DEF Block, Stream
  <2> QED BY <1>1, <2>1, <2>2 DEF WireInv, Framed, Awaits, Unread
<1>2. ASSUME sent \in Bodies, NEW k \in 0 .. 3, Framed(k, arrived, buffer, searched, waiter, taken)
      PROVE  /\ StreamFacts /\ arrived \in Nat /\ Consumed(k) \in Nat /\ Len(Stream) \in Nat
             /\ k < 3 => k \in 0 .. 2
             /\ Len(taken) = k
  <2>1. StreamFacts
    BY <1>2, StreamIs
  <2>2. /\ Len(Block) \in Nat /\ Len(Stream) = Len(Block) + 9
        /\ Consumed(0) = 0 /\ Consumed(1) = 3 /\ Consumed(2) = Len(Block) + 6 /\ Consumed(3) = Len(Block) + 9
    BY <2>1, ConsumedIs
  <2>3. Consumed(k) \in Nat
    BY <2>2
  <2>4. arrived \in Nat
    BY <1>2, <2>2 DEF Framed
  <2>5. Len(taken) = k
    BY <1>2, GivenIs DEF Framed
  <2> QED BY <2>1, <2>2, <2>3, <2>4, <2>5
<1>3. CASE ServerReplies
  <2>1. sent = NoBody /\ sent' \in Bodies
        /\ arrived' = 0 /\ buffer' = <<>> /\ searched' = 0 /\ waiter' = "none" /\ taken' = <<>>
    BY <1>3, BodiesAssumption DEF ServerReplies, WireInv
  <2>2. StreamFacts'
    <3>1. (sent \in Bodies => StreamFacts)'
      BY StreamIs, PTL
    <3> QED BY <2>1, <3>1
  <2>3. Stream' \in Seq(Bytes \cup {Status, Dot}) /\ Len(Block') \in Nat /\ Len(Stream') \in Nat
    BY <2>2, LenProperties DEF StreamFacts
  <2>4. Consumed(0)' = 0 /\ Given(0)' = <<>>
    BY DEF Consumed, Given
  <2>5. Unread(0, 0)' = <<>>
    <3>1. SubSeq(Stream', 0 + 1, 0) = <<>>
      BY <2>3, SubSeqEmpty
    <3> QED BY <3>1 DEF Unread
  <2>6. Framed(0, arrived, buffer, searched, waiter, taken)'
    BY <2>1, <2>3, <2>4, <2>5 DEF Framed, Awaits
  <2> QED BY <2>1, <2>6 DEF WireInv
<1>4. ASSUME NEW n \in 1 .. Len(Stream) - arrived, sent # NoBody, ChunkArrives(n) PROVE WireInv'
  <2>1. sent \in Bodies /\ sent' = sent
    BY <1>4 DEF WireInv, ChunkArrives
  <2>2. PICK k \in 0 .. 3 : Framed(k, arrived, buffer, searched, waiter, taken)
    BY <1>4 DEF WireInv
  <2>3. /\ StreamFacts /\ arrived \in Nat /\ Consumed(k) \in Nat /\ Len(Stream) \in Nat
        /\ k < 3 => k \in 0 .. 2
    BY <1>2, <2>1, <2>2
  <2> DEFINE b == arrived + n
             text == buffer \o SubSeq(Stream, arrived + 1, b)
  <2>4. b \in Nat /\ b <= Len(Stream) /\ arrived <= b /\ b \in 0 .. Len(Stream)
    BY <2>3
  <2>5. /\ Consumed(k) <= arrived /\ buffer = Unread(Consumed(k), arrived)
        /\ searched \in 0 .. Len(Block) /\ (k # 1 => searched = 0)
        /\ taken = Given(k) /\ Awaits(waiter, k, arrived)
    BY <2>2 DEF Framed
  <2>6. text = Unread(Consumed(k), b)
    BY <2>3, <2>4, <2>5, UnreadGrows
  <2>7. arrived' = b /\ Drain(text, waiter)
    BY <1>4 DEF ChunkArrives
  <2> HIDE DEF b, text
  <2>8. Consumed(k) <= b
    BY <2>3, <2>4, <2>5
  <2>9. \E j \in 0 .. 3 : Framed(j, b, buffer', searched', waiter', taken')
    <3>1. CASE waiter = "none"
      <4>1. buffer' = text /\ searched' = searched /\ taken' = taken /\ waiter' = "none"
        BY <2>7, <3>1 DEF Drain
      <4>2. Framed(k, b, buffer', searched', waiter', taken')
        BY <2>4, <2>5, <2>6, <2>8, <4>1 DEF Framed, Awaits
      <4> QED BY <4>2
    <3>2. CASE waiter # "none"
      <4>1. k \in 0 .. 2 /\ waiter = Expected[k + 1]
        BY <2>3, <2>5, <3>2 DEF Awaits
      <4>2. Drain(Unread(Consumed(k), b), Expected[k + 1])
        BY <2>6, <2>7, <4>1
      <4> QED BY <2>1, <2>3, <2>4, <2>5, <2>8, <4>1, <4>2, Drained
    <3> QED BY <3>1, <3>2
  <2> QED BY <1>1, <2>1, <2>7, <2>9
<1>5. CASE Wait
  <2>1. sent \in Bodies /\ sent' = sent /\ arrived' = arrived
    BY <1>5 DEF WireInv, Wait
  <2>2. PICK k \in 0 .. 3 : Framed(k, arrived, buffer, searched, waiter, taken)
    BY <1>5 DEF WireInv, Wait
  <2>3. StreamFacts /\ (k < 3 => k \in 0 .. 2) /\ Len(taken) = k
    BY <1>2, <2>1, <2>2
  <2>4. /\ Consumed(k) <= arrived /\ arrived \in 0 .. Len(Stream) /\ buffer = Unread(Consumed(k), arrived)
        /\ searched \in 0 .. Len(Block) /\ (k # 1 => searched = 0) /\ taken = Given(k)
    BY <2>2 DEF Framed
  <2>5. k \in 0 .. 2
    BY <1>5, <2>3 DEF Wait, Expected
  <2>6. Drain(Unread(Consumed(k), arrived), Expected[k + 1])
    BY <1>5, <2>3, <2>4 DEF Wait
  <2>7. \E j \in 0 .. 3 : Framed(j, arrived, buffer', searched', waiter', taken')
    BY <2>1, <2>3, <2>4, <2>5, <2>6, Drained
  <2> QED BY <1>1, <2>1, <2>7
<1>6. CASE Decode
  <2>1. sent' = sent /\ arrived' = arrived /\ buffer' = buffer /\ searched' = searched
        /\ waiter' = waiter /\ taken' = taken
    BY <1>6 DEF Decode
  <2>2. CASE sent \in Bodies
    <3>1. \E k \in 0 .. 3 : Framed(k, arrived', buffer', searched', waiter', taken')
      <4>1. CASE sent = NoBody
        BY <2>2, <4>1, BodiesAssumption
      <4>2. CASE sent # NoBody
        BY <2>1, <4>2 DEF WireInv
      <4> QED BY <4>1, <4>2
    <3> QED BY <1>1, <2>1, <2>2, <3>1
  <2>3. CASE sent \notin Bodies
    BY <2>1, <2>3 DEF WireInv
  <2> QED BY <2>2, <2>3
<1> QED BY <1>3, <1>4, <1>5, <1>6 DEF WireNext

LEMMA WireSays == WireInv => RepliesAsSent
<1> SUFFICES ASSUME WireInv, sent # NoBody
             PROVE  /\ IsPrefix(taken, <<<<Status>>, sent.body, <<Status>>>>)
                    /\ arrived = Len(Stream) => waiter = "none"
                    /\ arrived = Len(Stream) /\ Len(taken) = 3 => buffer = <<>>
  BY DEF RepliesAsSent
<1>1. StreamFacts
  BY StreamIs DEF WireInv
<1>2. PICK k \in 0 .. 3 : Framed(k, arrived, buffer, searched, waiter, taken)
  BY DEF WireInv
<1>3. taken = Given(k) /\ buffer = Unread(Consumed(k), arrived) /\ Awaits(waiter, k, arrived)
  BY <1>2 DEF Framed
<1>4. Len(taken) = k /\ IsPrefix(taken, Replies)
  BY <1>3, GivenIs
<1>5. /\ Len(Block) \in Nat /\ Len(Stream) = Len(Block) + 9
      /\ Consumed(1) = 3 /\ Consumed(2) = Len(Block) + 6 /\ Consumed(3) = Len(Block) + 9
  BY <1>1, ConsumedIs
<1>6. ASSUME arrived = Len(Stream) PROVE waiter = "none"
  <2>1. SUFFICES ASSUME k < 3, arrived < Consumed(k + 1) PROVE FALSE
    BY <1>3 DEF Awaits
  <2>2. k + 1 = 1 \/ k + 1 = 2 \/ k + 1 = 3
    BY <2>1
  <2> QED BY <1>5, <1>6, <2>1, <2>2
<1>7. ASSUME arrived = Len(Stream), Len(taken) = 3 PROVE buffer = <<>>
  <2>1. k = 3 /\ Consumed(k) = Len(Stream) /\ Len(Stream) \in Nat
    BY <1>4, <1>5, <1>7
  <2>2. SubSeq(Stream, Len(Stream) + 1, Len(Stream)) = <<>>
    BY <1>1, <2>1, SubSeqEmpty DEF StreamFacts
  <2> QED BY <1>3, <1>7, <2>1, <2>2 DEF Unread
<1> QED BY <1>4, <1>6, <1>7 DEF Replies

LEMMA WireStep == WireInv /\ [WireNext]_wireVars => WireInv'
<1>1. ASSUME WireInv, UNCHANGED wireVars PROVE WireInv'
  <2>1. \A k : Given(k)' = Given(k) /\ Consumed(k)' = Consumed(k)
    BY <1>1 DEF Given, Consumed, Ends, Replies, Block, wireVars
  <2>2. Block' = Block /\ Stream' = Stream
    BY <1>1 DEF Block, Stream, wireVars
  <2> QED BY <1>1, <2>1, <2>2 DEF WireInv, Framed, Awaits, Unread, wireVars
<1> QED BY <1>1, WireKeeps

(* The client is given the replies that were sent, whatever is in them and  *)
(* however the stream is cut (response-buffer.ts:68-102).                   *)
THEOREM RepliesAreAsSent == WireSpec => []RepliesAsSent
<1>1. WireInit => WireInv
  BY DEF WireInit, WireInv
<1> QED BY <1>1, WireStep, WireSays, PTL DEF WireSpec
--------------------------------------------------------

-----------------------------------------------------------------------------
(* The yEnc decoder.                                                         *)

Unescaped(out) == [out |-> out, escaped |-> FALSE]

(* The state of the decoder after each byte. *)
LEMMA DecodingIs ==
  ASSUME NEW q, Len(q) \in Nat
  PROVE  /\ Decoding(q)[0] = Unescaped(<<>>)
         /\ \A i \in 1 .. Len(q) : Decoding(q)[i] = DecodeStep(Decoding(q)[i - 1], q[i])
<1> DEFINE n == Len(q)
           Start == Unescaped(<<>>)
           Right(f, m) == f = [i \in 0 .. m |-> IF i = 0 THEN Start ELSE DecodeStep(f[i - 1], q[i])]
           Made == {m \in Nat : \E f : Right(f, m)}
<1> HIDE DEF Start
<1>1. 0 \in Made
  <2> DEFINE g == [i \in 0 .. 0 |-> Start]
  <2>1. \A i \in 0 .. 0 : i = 0
    OBVIOUS
  <2>2. Right(g, 0)
    BY <2>1
  <2> QED BY <2>2
<1>2. ASSUME NEW m \in Nat, m \in Made PROVE m + 1 \in Made
  <2>1. PICK f : Right(f, m)
    BY <1>2
  <2> DEFINE more == DecodeStep(f[m], q[m + 1])
             g == [i \in 0 .. m + 1 |-> IF i <= m THEN f[i] ELSE more]
  <2>2. /\ \A i \in 0 .. m : i \in 0 .. m + 1 /\ i <= m /\ (i # 0 => i - 1 \in 0 .. m)
        /\ \A i \in 0 .. m + 1 : i \in 0 .. m \/ i = m + 1
        /\ m + 1 \in 0 .. m + 1 /\ ~(m + 1 <= m) /\ m + 1 # 0 /\ (m + 1) - 1 = m /\ m \in 0 .. m
    OBVIOUS
  <2> HIDE DEF more
  <2>3. (\A i \in 0 .. m : g[i] = f[i]) /\ g[m + 1] = more /\ g = [i \in 0 .. m + 1 |-> g[i]]
    BY <2>2
  <2> HIDE DEF g
  <2>4. \A i \in 0 .. m : f[i] = IF i = 0 THEN Start ELSE DecodeStep(f[i - 1], q[i])
    BY <2>1
  <2>5. \A i \in 0 .. m + 1 : g[i] = IF i = 0 THEN Start ELSE DecodeStep(g[i - 1], q[i])
    <3>1. \A i \in 0 .. m : g[i] = IF i = 0 THEN Start ELSE DecodeStep(g[i - 1], q[i])
      BY <2>2, <2>3, <2>4
    <3>2. g[m + 1] = DecodeStep(g[m], q[m + 1])
      BY <2>2, <2>3 DEF more
    <3> QED BY <2>2, <3>1, <3>2
  <2>6. Right(g, m + 1)
    BY <2>3, <2>5
  <2> QED BY <2>6
<1>3. n \in Made
  <2> HIDE DEF Made
  <2> QED BY <1>1, <1>2, Induction
<1> DEFINE Whole(f) == f = [i \in 0 .. n |-> IF i = 0 THEN Start ELSE DecodeStep(f[i - 1], q[i])]
           all == CHOOSE f : Whole(f)
<1>4. Decoding(q) = all
  BY DEF Decoding, Start, Unescaped
<1>5. Whole(all)
  <2>1. PICK f : Whole(f)
    BY <1>3
  <2> HIDE DEF Whole
  <2> QED BY <2>1
<1> HIDE DEF all
<1>6. \A i \in 0 .. n : all[i] = IF i = 0 THEN Start ELSE DecodeStep(all[i - 1], q[i])
  BY <1>5
<1>7. 0 \in 0 .. n /\ \A i \in 1 .. n : i \in 0 .. n /\ i # 0
  OBVIOUS
<1> HIDE DEF Whole, Made
<1> QED BY <1>4, <1>6, <1>7 DEF Start

(* One step of it, for a byte that is no control line. *)
LEMMA StepIs ==
  ASSUME NEW out, NEW b \in Int
  PROVE  /\ b \in {CR, LF} => DecodeStep(Unescaped(out), b) = Unescaped(out)
         /\ b \notin {CR, LF, Escape} =>
              DecodeStep(Unescaped(out), b) = Unescaped(Append(out, (b - 42) % 256))
         /\ \A e \in Int : DecodeStep(DecodeStep(Unescaped(out), Escape), e)
                             = Unescaped(Append(out, (e - 106) % 256))
<1>1. \A c \in Int : c \notin {Ybegin, Ypart, Yend}
  BY ControlsAssumption
<1>2. Escape \in Int /\ Escape \notin {CR, LF}
  BY DEF Escape, CR, LF
<1>3. Unescaped(out).escaped = FALSE /\ Unescaped(out).out = out
  BY DEF Unescaped
<1> DEFINE held == [out |-> out, escaped |-> TRUE]
<1>5. held.escaped = TRUE /\ held.out = out
  OBVIOUS
<1> HIDE DEF held
<1>6. DecodeStep(Unescaped(out), Escape) = held
  BY <1>1, <1>2, <1>3 DEF DecodeStep, held
<1>7. ASSUME NEW e \in Int PROVE DecodeStep(held, e) = Unescaped(Append(out, (e - 106) % 256))
  <2>1. DecodeStep(held, e) = [out |-> Append(held.out, (e - 106) % 256), escaped |-> FALSE]
    BY <1>1, <1>5 DEF DecodeStep
  <2> QED BY <1>5, <2>1 DEF Unescaped
<1>8. b \in {CR, LF} => DecodeStep(Unescaped(out), b) = Unescaped(out)
  BY <1>1, <1>2, <1>3 DEF DecodeStep
<1>9. ASSUME b \notin {CR, LF, Escape}
      PROVE  DecodeStep(Unescaped(out), b) = Unescaped(Append(out, (b - 42) % 256))
  <2>1. DecodeStep(Unescaped(out), b) = [out |-> Append(Unescaped(out).out, (b - 42) % 256), escaped |-> FALSE]
    BY <1>1, <1>3, <1>9 DEF DecodeStep
  <2> QED BY <1>3, <2>1 DEF Unescaped
<1> QED BY <1>6, <1>7, <1>8, <1>9

LEMMA MovedBack ==
  ASSUME NEW d \in 0 .. 255
  PROVE  LET c == (d + 42) % 256 IN
         /\ c \in Int /\ (c - 42) % 256 = d
         /\ (c + 64) % 256 \in Int /\ (((c + 64) % 256) - 106) % 256 = d
OBVIOUS

(* U holds the states of the decoder as it takes w after the first m bytes. *)
Takes(U, m, w) == \A j \in 1 .. Len(w) : U[m + j] = DecodeStep(U[m + j - 1], w[j])

(* The codes of a byte, wherever they stand, decode to it. *)
LEMMA CodeDecodes ==
  ASSUME NEW d \in 0 .. 255, NEW w \in Codes(d), NEW U, NEW m \in Nat, NEW out,
         U[m] = Unescaped(out), Takes(U, m, w)
  PROVE  U[m + Len(w)] = Unescaped(Append(out, d))
<1> DEFINE c == (d + 42) % 256
           e == (c + 64) % 256
           then == Append(out, d)
<1>1. /\ c \in Int /\ (c - 42) % 256 = d
      /\ e \in Int /\ (e - 106) % 256 = d
  BY MovedBack
<1>2. \/ c \notin Critical /\ (w = <<c>> \/ w = <<c, CR, LF>>)
      \/ w = <<Escape, e>> \/ w = <<Escape, e, CR, LF>>
  BY DEF Codes
<1> HIDE DEF c, e
<1>3. \/ c \notin Critical /\ w[1] = c /\ (Len(w) = 1 \/ (Len(w) = 3 /\ w[2] = CR /\ w[3] = LF))
      \/ w[1] = Escape /\ w[2] = e /\ (Len(w) = 2 \/ (Len(w) = 4 /\ w[3] = CR /\ w[4] = LF))
  BY <1>2
<1>4. /\ m + 1 - 1 = m /\ m + 2 - 1 = m + 1 /\ m + 3 - 1 = m + 2 /\ m + 4 - 1 = m + 3
      /\ 1 \in 1 .. Len(w)
      /\ (Len(w) >= 2 => 2 \in 1 .. Len(w)) /\ (Len(w) >= 3 => 3 \in 1 .. Len(w))
      /\ (Len(w) = 4 => 4 \in 1 .. Len(w))
  <2>1. Len(w) = 1 \/ Len(w) = 2 \/ Len(w) = 3 \/ Len(w) = 4
    BY <1>3
  <2>2. /\ m + 1 - 1 = m /\ m + 2 - 1 = m + 1 /\ m + 3 - 1 = m + 2 /\ m + 4 - 1 = m + 3
    OBVIOUS
  <2>3. \A l \in {1, 2, 3, 4} : /\ 1 \in 1 .. l /\ (l >= 2 => 2 \in 1 .. l)
                                /\ (l >= 3 => 3 \in 1 .. l) /\ (l = 4 => 4 \in 1 .. l)
    OBVIOUS
  <2> QED BY <2>1, <2>2, <2>3
<1>5. ASSUME NEW k \in Nat, U[k] = Unescaped(then), U[k + 1] = DecodeStep(U[k], CR),
             U[k + 2] = DecodeStep(U[k + 1], LF)
      PROVE  U[k + 2] = Unescaped(then)
  <2>1. CR \in Int /\ LF \in Int /\ CR \in {CR, LF} /\ LF \in {CR, LF}
    BY DEF CR, LF
  <2> HIDE DEF then
  <2> QED BY <1>5, <2>1, StepIs
<1>6. CASE c \notin Critical /\ w[1] = c /\ (Len(w) = 1 \/ (Len(w) = 3 /\ w[2] = CR /\ w[3] = LF))
  <2>1. c \notin {CR, LF, Escape}
    BY <1>6 DEF Critical
  <2>2. U[m + 1] = Unescaped(then)
    <3>1. U[m + 1] = DecodeStep(Unescaped(out), c)
      BY <1>4, <1>6 DEF Takes
    <3>2. DecodeStep(Unescaped(out), c) = Unescaped(Append(out, (c - 42) % 256))
      BY <1>1, <2>1, StepIs
    <3> QED BY <1>1, <3>1, <3>2
  <2>3. CASE Len(w) = 1
    BY <2>2, <2>3
  <2>4. CASE Len(w) = 3 /\ w[2] = CR /\ w[3] = LF
    <3>1. U[m + 2] = DecodeStep(U[m + 1], CR) /\ U[m + 3] = DecodeStep(U[m + 2], LF)
      BY <1>4, <2>4 DEF Takes
    <3>2. (m + 1) + 1 = m + 2 /\ (m + 1) + 2 = m + 3 /\ m + 1 \in Nat
      OBVIOUS
    <3> QED BY <1>5, <2>2, <2>4, <3>1, <3>2
  <2> QED BY <1>6, <2>3, <2>4
<1>7. CASE w[1] = Escape /\ w[2] = e /\ (Len(w) = 2 \/ (Len(w) = 4 /\ w[3] = CR /\ w[4] = LF))
  <2>1. U[m + 1] = DecodeStep(Unescaped(out), Escape) /\ U[m + 2] = DecodeStep(U[m + 1], e)
    BY <1>4, <1>7 DEF Takes
  <2>2. U[m + 2] = Unescaped(then)
    <3>1. DecodeStep(DecodeStep(Unescaped(out), Escape), e) = Unescaped(Append(out, (e - 106) % 256))
      BY <1>1, StepIs
    <3> QED BY <1>1, <2>1, <3>1
  <2>3. CASE Len(w) = 2
    BY <2>2, <2>3
  <2>4. CASE Len(w) = 4 /\ w[3] = CR /\ w[4] = LF
    <3>1. U[m + 3] = DecodeStep(U[m + 2], CR) /\ U[m + 4] = DecodeStep(U[m + 3], LF)
      BY <1>4, <2>4 DEF Takes
    <3>2. (m + 2) + 1 = m + 3 /\ (m + 2) + 2 = m + 4 /\ m + 2 \in Nat
      OBVIOUS
    <3> QED BY <1>5, <2>2, <2>4, <3>1, <3>2
  <2> QED BY <1>7, <2>3, <2>4
<1> QED BY <1>3, <1>6, <1>7

(* A concatenation begins with each of its parts. *)
Begins(s, t) == Len(s) \in Nat /\ Len(t) \in Nat /\ Len(s) <= Len(t) /\ \A j \in 1 .. Len(s) : t[j] = s[j]

LEMMA FlattenBegins ==
  ASSUME NEW X, NEW k \in Nat, NEW seqs, NEW h, Flattens(h, X, k, seqs),
         \A i \in 1 .. k : seqs[i] \in Seq(X)
  PROVE  \A m \in 0 .. k : Begins(h[m], h[k])
<1> DEFINE Good == {n \in Nat : n > k \/ \A m \in 0 .. n : Begins(h[m], h[n])}
<1>1. ASSUME NEW m \in 0 .. k PROVE Begins(h[m], h[m])
  <2>1. Len(h[m]) \in Nat
    BY LenProperties DEF Flattens
  <2> QED BY <2>1 DEF Begins
<1>2. 0 \in Good
  BY <1>1
<1>3. ASSUME NEW n \in Nat, n \in Good PROVE n + 1 \in Good
  <2>1. CASE n + 1 > k
    BY <2>1
  <2>2. CASE ~(n + 1 > k)
    <3>1. /\ n + 1 \in 1 .. k /\ (n + 1) - 1 = n /\ n \in 0 .. k /\ n + 1 \in 0 .. k
          /\ \A m \in 0 .. n : Begins(h[m], h[n])
          /\ \A m \in 0 .. n + 1 : m \in 0 .. n \/ m = n + 1
      BY <1>3, <2>2
    <3>2. h[n] \in Seq(X) /\ seqs[n + 1] \in Seq(X) /\ h[n + 1] = h[n] \o seqs[n + 1]
      BY <3>1 DEF Flattens
    <3>3. Begins(h[n], h[n + 1])
      <4> DEFINE a == h[n]
                 b == seqs[n + 1]
      <4>1. Len(a) \in Nat /\ Len(b) \in Nat
        BY <3>2, LenProperties
      <4> HIDE DEF a, b
      <4>2. Joins(a \o b, X, a, Len(a), b, Len(b))
        BY <3>2, <4>1, Joined DEF a, b
      <4>3. Begins(a, a \o b)
        BY <4>1, <4>2 DEF Begins, Joins
      <4> QED BY <3>2, <4>3 DEF a, b
    <3>4. ASSUME NEW m \in 0 .. n PROVE Begins(h[m], h[n + 1])
      <4>1. Begins(h[m], h[n])
        BY <3>1
      <4> QED BY <3>3, <4>1 DEF Begins
    <3>5. \A m \in 0 .. n + 1 : Begins(h[m], h[n + 1])
      BY <1>1, <3>1, <3>4
    <3> QED BY <3>1, <3>5
  <2> QED BY <2>1, <2>2
<1>4. k \in Good
  <2> HIDE DEF Good
  <2> QED BY <1>2, <1>3, Induction
<1> QED BY <1>4

LEMMA OneMore ==
  ASSUME NEW X, NEW s \in Seq(X), NEW k \in 0 .. Len(s) - 1
  PROVE  Append(SubSeq(s, 1, k), s[k + 1]) = SubSeq(s, 1, k + 1)
OBVIOUS

LEMMA AllOfIt ==
  ASSUME NEW X, NEW s \in Seq(X)
  PROVE  SubSeq(s, 1, Len(s)) = s
OBVIOUS

(* What is written decodes to what was written. *)
LEMMA CodesDecode ==
  ASSUME NEW data \in Seq(0 .. 255), data # Failed, NEW codes \in Seq(Seq(Int)), Len(codes) = Len(data),
         \A i \in 1 .. Len(data) : codes[i] \in Codes(data[i])
  PROVE  DecodeBytes(FlattenSeq(codes)) = data
<1> DEFINE n == Len(data)
           q == FlattenSeq(codes)
           U == Decoding(q)
<1>1. n \in Nat /\ Len(codes) = n /\ DOMAIN codes = 1 .. n
  BY LenProperties
<1>2. PICK h : Flattens(h, Int, n, codes)
  <2>1. n = 0 => codes = <<>>
    BY <1>1, EmptySeq
  <2>2. \A i \in 1 .. n : codes[i] \in Seq(Int)
    BY <1>1, ElementOfSeq
  <2> HIDE DEF n
  <2> QED BY <1>1, <2>1, <2>2, FlattenFacts, Zenon
<1>3. q = h[n] /\ \A i \in 0 .. n : h[i] \in Seq(Int) /\ Len(h[i]) \in Nat
  <2>1. q = h[n] /\ \A i \in 0 .. n : h[i] \in Seq(Int)
    BY <1>2 DEF Flattens
  <2> QED BY <2>1, LenProperties
<1>4. \A m \in 0 .. n : Begins(h[m], h[n])
  <2>1. \A i \in 1 .. n : codes[i] \in Seq(Int)
    BY <1>1, ElementOfSeq
  <2> HIDE DEF n
  <2> QED BY <1>1, <1>2, <2>1, FlattenBegins
<1>5. Len(q) \in Nat
  BY <1>1, <1>3
<1>6. U[0] = Unescaped(<<>>) /\ \A i \in 1 .. Len(q) : U[i] = DecodeStep(U[i - 1], q[i])
  <2> HIDE DEF q
  <2> QED BY <1>5, DecodingIs
<1> HIDE DEF U, q
<1> DEFINE Done == {k \in Nat : k > n \/ U[Len(h[k])] = Unescaped(SubSeq(data, 1, k))}
<1>7. 0 \in Done
  <2>1. h[0] = <<>> /\ Len(h[0]) = 0
    BY <1>2 DEF Flattens
  <2>2. SubSeq(data, 1, 0) = <<>>
    BY SubSeqEmpty
  <2> QED BY <1>6, <2>1, <2>2
<1>8. ASSUME NEW k \in Nat, k \in Done PROVE k + 1 \in Done
  <2>1. CASE k + 1 > n
    BY <2>1
  <2>2. CASE ~(k + 1 > n)
    <3> DEFINE a == h[k]
               w == codes[k + 1]
    <3>1. /\ k + 1 \in 1 .. n /\ k \in 0 .. n /\ k + 1 \in 0 .. n /\ (k + 1) - 1 = k
          /\ U[Len(a)] = Unescaped(SubSeq(data, 1, k))
      BY <1>1, <1>8, <2>2
    <3>2. a \in Seq(Int) /\ w \in Seq(Int) /\ h[k + 1] = a \o w /\ w \in Codes(data[k + 1])
      BY <1>1, <1>2, <3>1, ElementOfSeq DEF Flattens
    <3>3. Len(a) \in Nat /\ Len(w) \in Nat
      BY <3>2, LenProperties
    <3>4. Begins(h[k + 1], q)
      BY <1>3, <1>4, <3>1
    <3>5. data[k + 1] \in 0 .. 255
      BY <3>1, ElementOfSeq
    <3> HIDE DEF a, w
    <3>6. Joins(a \o w, Int, a, Len(a), w, Len(w))
      BY <3>2, <3>3, Joined
    <3>7. /\ Len(h[k + 1]) = Len(a) + Len(w) /\ Len(a) + Len(w) <= Len(q)
          /\ \A j \in 1 .. Len(w) : q[Len(a) + j] = w[j]
      <4>1. Len(a \o w) = Len(a) + Len(w) /\ \A j \in 1 .. Len(w) : (a \o w)[Len(a) + j] = w[j]
        BY <3>6 DEF Joins
      <4>2. \A j \in 1 .. Len(w) : Len(a) + j \in 1 .. Len(a) + Len(w)
        BY <3>3
      <4> QED BY <3>2, <3>4, <4>1, <4>2 DEF Begins
    <3>8. \A j \in 1 .. Len(w) : U[Len(a) + j] = DecodeStep(U[Len(a) + j - 1], w[j])
      <4>1. \A j \in 1 .. Len(w) : Len(a) + j \in 1 .. Len(q)
        BY <1>5, <3>3, <3>7
      <4> QED BY <1>6, <3>7, <4>1
    <3> DEFINE now == SubSeq(data, 1, k)
               d == data[k + 1]
    <3> HIDE DEF now, d
    <3>9. U[Len(a) + Len(w)] = Unescaped(Append(now, d))
      <4>1. d \in 0 .. 255 /\ w \in Codes(d) /\ U[Len(a)] = Unescaped(now)
        BY <3>1, <3>2, <3>5 DEF now, d
      <4>2. Takes(U, Len(a), w)
        BY <3>8 DEF Takes
      <4> QED BY <3>3, <4>1, <4>2, CodeDecodes, Zenon
    <3>10. Append(now, d) = SubSeq(data, 1, k + 1)
      <4>1. k \in 0 .. Len(data) - 1
        BY <1>1, <3>1
      <4> QED BY <4>1, OneMore DEF now, d
    <3>11. U[Len(h[k + 1])] = Unescaped(SubSeq(data, 1, k + 1))
      BY <3>7, <3>9, <3>10
    <3>12. k + 1 \in Nat
      OBVIOUS
    <3> QED BY <3>11, <3>12
  <2> QED BY <2>1, <2>2
<1>9. n \in Done
  <2> HIDE DEF Done
  <2> QED BY <1>1, <1>7, <1>8, Induction
<1>10. U[Len(q)] = Unescaped(data)
  <2>1. SubSeq(data, 1, n) = data
    BY AllOfIt
  <2>2. ~(n > n)
    BY <1>1
  <2> QED BY <1>3, <1>9, <2>1, <2>2
<1>11. DecodeBytes(q) = data
  BY <1>10 DEF DecodeBytes, U, Unescaped
<1> QED BY <1>11 DEF q

(* Where the control lines of an article stand: =ybegin at a, the last     *)
(* header line (=ybegin or =ypart) at h, =yend at e.                        *)
ControlAt(raw, i, control) == raw[i] = control /\ raw[i + 1] = CR /\ raw[i + 2] = LF

Looks(raw, a, h, e) ==
  /\ a \in Nat \ {0} /\ e \in Nat /\ h + 3 <= e /\ Len(raw) = e + 2 /\ DOMAIN raw = 1 .. e + 2
  /\ h = a \/ (h = a + 3 /\ ControlAt(raw, h, Ypart))
  /\ StartsLine(raw, a) /\ ControlAt(raw, a, Ybegin)
  /\ StartsLine(raw, e) /\ ControlAt(raw, e, Yend)
  /\ \A i \in DOMAIN raw : /\ (raw[i] = Ybegin => i = a)
                           /\ (raw[i] = Yend => i = e)
                           /\ (raw[i] = Ypart => i = a + 3 /\ h = a + 3)

(* A line starts after a break, and nowhere inside one.                     *)
LEMMA LineStartsAre ==
  ASSUME NEW raw, NEW n \in Nat, Len(raw) = n, DOMAIN raw = 1 .. n
  PROVE  /\ \A x \in 1 .. n : StartsLine(raw, x) => x \in LineStarts(raw)
         /\ \A s \in LineStarts(raw) :
              s \in Int /\ (s # 1 => /\ s - 1 \in 1 .. n /\ raw[s - 1] \in {CR, LF}
                                     /\ ~(raw[s - 1] = CR /\ s <= n /\ raw[s] = LF))
<1>1. CR # LF
  BY DEF CR, LF
<1>2. ASSUME NEW x \in 1 .. n, StartsLine(raw, x) PROVE x \in LineStarts(raw)
  <2>1. CASE x = 1
    BY <2>1 DEF LineStarts
  <2>2. CASE x # 1
    <3>1. /\ x - 2 \in 1 .. n /\ raw[x - 2] = CR /\ raw[x - 1] = LF
          /\ x - 2 < n /\ (x - 2) + 1 = x - 1 /\ (x - 2) + 2 = x
      BY <1>2, <2>2 DEF StartsLine
    <3>2. x - 2 \in Breaks(raw)
      BY <3>1 DEF Breaks
    <3>3. AfterBreak(raw, x - 2) = x
      BY <3>1 DEF AfterBreak
    <3> QED BY <3>2, <3>3 DEF LineStarts
  <2> QED BY <2>1, <2>2
<1>3. ASSUME NEW i \in Breaks(raw), NEW s, s = AfterBreak(raw, i)
      PROVE  /\ s \in Int /\ s - 1 \in 1 .. n /\ raw[s - 1] \in {CR, LF}
             /\ ~(raw[s - 1] = CR /\ s <= n /\ raw[s] = LF)
  <2>1. i \in 1 .. n /\ raw[i] \in {CR, LF}
    BY DEF Breaks
  <2>2. CASE raw[i] = CR /\ i < n /\ raw[i + 1] = LF
    <3>1. s = i + 2 /\ s - 1 = i + 1
      BY <1>3, <2>1, <2>2 DEF AfterBreak
    <3> QED BY <1>1, <2>1, <2>2, <3>1
  <2>3. CASE ~(raw[i] = CR /\ i < n /\ raw[i + 1] = LF)
    <3>1. s = i + 1 /\ s - 1 = i
      BY <1>3, <2>1, <2>3 DEF AfterBreak
    <3> QED BY <2>1, <2>3, <3>1
  <2> QED BY <2>2, <2>3
<1>4. \A s \in LineStarts(raw) : s = 1 \/ \E i \in Breaks(raw) : s = AfterBreak(raw, i)
  BY DEF LineStarts
<1> QED BY <1>2, <1>3, <1>4

(* After a control line the next line is three bytes on.                    *)
LEMMA NextLineIs ==
  ASSUME NEW raw, NEW n \in Nat, Len(raw) = n, DOMAIN raw = 1 .. n, NEW i \in Nat \ {0}, i + 3 <= n,
         NEW control \in {Ybegin, Ypart, Yend}, ControlAt(raw, i, control)
  PROVE  /\ i + 3 \in LineStarts(raw)
         /\ \A s \in LineStarts(raw) : s > i => s >= i + 3
         /\ NextLine(raw, i) = i + 3
<1>1. raw[i] \notin {CR, LF} /\ CR # LF
  BY ControlsAssumption DEF ControlAt, CR, LF
<1>2. StartsLine(raw, i + 3)
  <2>1. i + 3 > 2 /\ (i + 3) - 1 = i + 2 /\ (i + 3) - 2 = i + 1
    OBVIOUS
  <2> QED BY <2>1 DEF StartsLine, ControlAt
<1>3. i + 3 \in LineStarts(raw)
  <2>1. i + 3 \in 1 .. n
    OBVIOUS
  <2> QED BY <1>2, <2>1, LineStartsAre
<1>4. ASSUME NEW s \in LineStarts(raw), s > i PROVE s >= i + 3
  <2>1. /\ s \in Int
        /\ s # 1 => raw[s - 1] \in {CR, LF} /\ ~(raw[s - 1] = CR /\ s <= n /\ raw[s] = LF)
    BY LineStartsAre
  <2>2. s # 1
    BY <1>4, <2>1
  <2>3. s # i + 1
    <3>1. (i + 1) - 1 = i
      OBVIOUS
    <3> QED BY <1>1, <2>1, <2>2, <3>1
  <2>4. s # i + 2
    <3>1. (i + 2) - 1 = i + 1 /\ i + 2 <= n
      OBVIOUS
    <3>2. raw[i + 1] = CR /\ raw[i + 2] = LF
      BY DEF ControlAt
    <3> QED BY <1>1, <2>1, <2>2, <3>1, <3>2
  <2> QED BY <1>4, <2>1, <2>3, <2>4
<1> DEFINE later == {s \in LineStarts(raw) : s > i}
<1>5. i + 3 \in later /\ later \subseteq Int /\ \A s \in later : i + 3 <= s
  <2>1. \A s \in LineStarts(raw) : s \in Int
    BY LineStartsAre
  <2> QED BY <1>3, <1>4, <2>1
<1>6. NextLine(raw, i) = IF later = {} THEN 0 ELSE Min(later)
  BY DEF NextLine
<1> HIDE DEF later
<1>7. Min(later) = i + 3
  BY <1>5, LeastIs
<1>8. NextLine(raw, i) = i + 3
  BY <1>5, <1>6, <1>7
<1> QED BY <1>3, <1>4, <1>8

(* What decodeArticle takes for the payload.                                *)
LEMMA PayloadIs ==
  ASSUME NEW raw, NEW a, NEW h, NEW e, Looks(raw, a, h, e)
  PROVE  /\ LinesWith(raw, Ybegin) = {a} /\ LinesWith(raw, Yend) = {e}
         /\ NextLine(raw, a) \in LinesWith(raw, Ypart) <=> h = a + 3
         /\ h = a + 3 => NextLine(raw, a) = h
         /\ DecodePayload(raw, h, e) =
              IF h + 3 = e THEN <<>> ELSE DecodeBytes(SubSeq(raw, h + 3, e - 1))
<1> DEFINE n == e + 2
<1>1. /\ n \in Nat /\ Len(raw) = n /\ DOMAIN raw = 1 .. n
      /\ a \in 1 .. n /\ e \in 1 .. n /\ h \in Nat \ {0} /\ h + 3 <= n /\ a + 3 <= n
  BY DEF Looks
<1>2. ControlAt(raw, a, Ybegin) /\ StartsLine(raw, a) /\ ControlAt(raw, e, Yend) /\ StartsLine(raw, e)
  BY DEF Looks
<1>3. \A i \in 1 .. n : (raw[i] = Ybegin => i = a) /\ (raw[i] = Yend => i = e)
                         /\ (raw[i] = Ypart => i = a + 3 /\ h = a + 3)
  BY DEF Looks
<1>4. h = a \/ (h = a + 3 /\ ControlAt(raw, h, Ypart))
  BY DEF Looks
<1> HIDE DEF n
<1>5. a \in LineStarts(raw) /\ e \in LineStarts(raw) /\ \A s \in LineStarts(raw) : s \in Int
  BY <1>1, <1>2, LineStartsAre
<1>6. LinesWith(raw, Ybegin) = {a} /\ LinesWith(raw, Yend) = {e}
  BY <1>1, <1>2, <1>3, <1>5 DEF LinesWith, ControlAt
<1>7. NextLine(raw, a) = a + 3 /\ a + 3 \in LineStarts(raw)
  BY <1>1, <1>2, NextLineIs
<1>8. NextLine(raw, a) \in LinesWith(raw, Ypart) <=> h = a + 3
  <2>1. ASSUME NextLine(raw, a) \in LinesWith(raw, Ypart) PROVE h = a + 3
    BY <1>1, <1>3, <1>7, <2>1 DEF LinesWith
  <2>2. ASSUME h = a + 3 PROVE NextLine(raw, a) \in LinesWith(raw, Ypart)
    <3>1. h # a
      BY <1>1, <2>2
    <3>2. raw[h] = Ypart /\ h \in 1 .. n
      BY <1>1, <1>4, <3>1 DEF ControlAt
    <3> QED BY <1>1, <1>7, <2>2, <3>2 DEF LinesWith
  <2> QED BY <2>1, <2>2
<1>9. h + 3 \in LineStarts(raw) /\ \A s \in LineStarts(raw) : s > h => s >= h + 3
  <2>1. \E control \in {Ybegin, Ypart, Yend} : ControlAt(raw, h, control)
    BY <1>2, <1>4
  <2> QED BY <1>1, <2>1, NextLineIs
<1> DEFINE lines == {s \in LineStarts(raw) : h < s /\ s < e}
<1>10. DecodePayload(raw, h, e) = IF lines = {} THEN <<>> ELSE DecodeBytes(SubSeq(raw, Min(lines), e - 1))
  BY DEF DecodePayload
<1>11. CASE h + 3 = e
  <2>1. lines = {}
    <3> SUFFICES ASSUME NEW s \in LineStarts(raw), h < s, s < e PROVE FALSE
      OBVIOUS
    <3>1. s \in Int /\ s >= h + 3
      BY <1>1, <1>5, <1>9
    <3> QED BY <1>1, <1>11, <3>1
  <2> HIDE DEF lines
  <2> QED BY <1>6, <1>7, <1>8, <1>10, <1>11, <2>1
<1>12. CASE h + 3 # e
  <2>1. h + 3 < e
    BY <1>1, <1>12 DEF Looks
  <2>2. h + 3 \in lines /\ lines \subseteq Int /\ \A s \in lines : h + 3 <= s
    <3>1. \A s \in lines : s \in Int /\ h + 3 <= s
      <4> SUFFICES ASSUME NEW s \in LineStarts(raw), h < s PROVE s \in Int /\ h + 3 <= s
        OBVIOUS
      <4> QED BY <1>1, <1>5, <1>9
    <3>2. h + 3 \in lines
      BY <1>1, <1>9, <2>1
    <3> QED BY <3>1, <3>2
  <2> HIDE DEF lines
  <2>3. Min(lines) = h + 3 /\ lines # {}
    BY <2>2, LeastIs
  <2> QED BY <1>6, <1>7, <1>8, <1>10, <1>12, <2>3
<1> QED BY <1>11, <1>12

(* The header lines of an article, =ybegin at a and the last of them at h.  *)
Heads(top, a, h) ==
  /\ a \in Nat \ {0} /\ h \in Nat /\ top \in Seq(Bytes) /\ Len(top) = h + 2
  /\ h = a \/ (h = a + 3 /\ ControlAt(top, h, Ypart))
  /\ StartsLine(top, a) /\ ControlAt(top, a, Ybegin)
  /\ \A i \in 1 .. h + 2 : /\ (top[i] = Ybegin => i = a)
                           /\ top[i] # Yend
                           /\ (top[i] = Ypart => i = a + 3 /\ h = a + 3)

LEMMA ControlLineIs ==
  ASSUME NEW control \in {Ybegin, Ypart, Yend}
  PROVE  LET line == ControlLine(control) IN
         /\ line \in Seq(Bytes) /\ Len(line) = 3
         /\ line[1] = control /\ line[2] = CR /\ line[3] = LF
         /\ CR \in Int /\ LF \in Int
BY DEF ControlLine, Bytes, CR, LF

LEMMA HeadsOfFile ==
  ASSUME NEW preamble \in Seq(Int), StartsLine(preamble, Len(preamble) + 1)
  PROVE  Heads(preamble \o ControlLine(Ybegin), Len(preamble) + 1, Len(preamble) + 1)
<1> DEFINE m == Len(preamble)
           line == ControlLine(Ybegin)
           top == preamble \o line
<1>1. m \in Nat /\ preamble \in Seq(Bytes) /\ \A i \in 1 .. m : preamble[i] \in Int
  BY LenProperties, ElementOfSeq DEF Bytes
<1>2. /\ line \in Seq(Bytes) /\ Len(line) = 3 /\ line[1] = Ybegin /\ line[2] = CR /\ line[3] = LF
      /\ CR \in Int /\ LF \in Int
  BY ControlLineIs
<1>3. StartsLine(preamble, m + 1)
  OBVIOUS
<1> HIDE DEF m, line
<1>4. Joins(top, Bytes, preamble, m, line, 3)
  BY <1>1, <1>2, Joined DEF m
<1> HIDE DEF top
<1>5. /\ top \in Seq(Bytes) /\ Len(top) = m + 3
      /\ \A i \in 1 .. m : top[i] = preamble[i]
      /\ \A i \in 1 .. 3 : top[m + i] = line[i]
  BY <1>4 DEF Joins
<1>6. /\ top[m + 1] = Ybegin /\ top[m + 2] = CR /\ top[m + 3] = LF
      /\ (m + 1) + 1 = m + 2 /\ (m + 1) + 2 = m + 3
  BY <1>1, <1>2, <1>5
<1>7. \A i \in 1 .. m + 3 : i # m + 1 => top[i] \in Int
  <2> SUFFICES ASSUME NEW i \in 1 .. m + 3, i # m + 1 PROVE top[i] \in Int
    OBVIOUS
  <2>1. i \in 1 .. m \/ i = m + 2 \/ i = m + 3
    BY <1>1
  <2> QED BY <1>1, <1>2, <1>5, <1>6, <2>1
<1>8. \A i \in 1 .. m + 3 : (top[i] = Ybegin => i = m + 1) /\ top[i] # Yend /\ top[i] # Ypart
  BY <1>6, <1>7, ControlsAssumption
<1>9. StartsLine(top, m + 1)
  <2>1. CASE m = 0
    BY <2>1 DEF StartsLine
  <2>2. CASE m # 0
    <3>1. m > 1 /\ preamble[m] = LF /\ preamble[m - 1] = CR
      BY <1>1, <1>3, <2>2 DEF StartsLine
    <3>2. m \in 1 .. m /\ m - 1 \in 1 .. m /\ (m + 1) - 1 = m /\ (m + 1) - 2 = m - 1 /\ m + 1 > 2
      BY <1>1, <3>1
    <3> QED BY <1>5, <3>1, <3>2 DEF StartsLine
  <2> QED BY <2>1, <2>2
<1>10. ControlAt(top, m + 1, Ybegin)
  BY <1>6 DEF ControlAt
<1>11. m + 1 \in Nat \ {0} /\ m + 1 \in Nat /\ (m + 1) + 2 = m + 3
  BY <1>1
<1>12. Heads(top, m + 1, m + 1)
  <2> DEFINE a == m + 1
  <2>1. a \in Nat \ {0} /\ a \in Nat /\ a + 2 = m + 3
    BY <1>11
  <2>2. \A i \in 1 .. a + 2 : (top[i] = Ybegin => i = a) /\ top[i] # Yend /\ top[i] # Ypart
    BY <1>8, <2>1
  <2>3. StartsLine(top, a) /\ ControlAt(top, a, Ybegin) /\ Len(top) = a + 2 /\ top \in Seq(Bytes)
    BY <1>5, <1>9, <1>10, <2>1
  <2> HIDE DEF a
  <2>4. Heads(top, a, a)
    BY <2>1, <2>2, <2>3 DEF Heads
  <2> QED BY <2>4 DEF a
<1> QED BY <1>12 DEF top, line, m

LEMMA HeadsOfPart ==
  ASSUME NEW top, NEW a, Heads(top, a, a)
  PROVE  Heads(top \o ControlLine(Ypart), a, a + 3)
<1> DEFINE line == ControlLine(Ypart)
           all == top \o line
<1>1. /\ a \in Nat \ {0} /\ top \in Seq(Bytes) /\ Len(top) = a + 2
      /\ StartsLine(top, a) /\ ControlAt(top, a, Ybegin) /\ a + 2 \in Nat
  BY DEF Heads
<1>2. \A i \in 1 .. a + 2 : (top[i] = Ybegin => i = a) /\ top[i] # Yend /\ top[i] # Ypart
  BY <1>1 DEF Heads
<1>3. /\ line \in Seq(Bytes) /\ Len(line) = 3 /\ line[1] = Ypart /\ line[2] = CR /\ line[3] = LF
      /\ CR \in Int /\ LF \in Int
  BY ControlLineIs
<1> HIDE DEF line
<1>4. Joins(all, Bytes, top, a + 2, line, 3)
  BY <1>1, <1>3, Joined
<1> HIDE DEF all
<1>5. /\ all \in Seq(Bytes) /\ Len(all) = a + 2 + 3
      /\ \A i \in 1 .. a + 2 : all[i] = top[i]
      /\ \A i \in 1 .. 3 : all[a + 2 + i] = line[i]
  BY <1>4 DEF Joins
<1>6. all[a + 3] = Ypart /\ all[a + 4] = CR /\ all[a + 5] = LF
  BY <1>1, <1>3, <1>5
<1>7. ControlAt(all, a + 3, Ypart) /\ ControlAt(all, a, Ybegin)
  BY <1>1, <1>5, <1>6 DEF ControlAt
<1>8. StartsLine(all, a)
  BY <1>1, <1>5 DEF StartsLine
<1>9. \A i \in 1 .. (a + 3) + 2 : /\ (all[i] = Ybegin => i = a)
                                   /\ all[i] # Yend
                                   /\ (all[i] = Ypart => i = a + 3)
  <2> SUFFICES ASSUME NEW i \in 1 .. a + 5
               PROVE  (all[i] = Ybegin => i = a) /\ all[i] # Yend /\ (all[i] = Ypart => i = a + 3)
    BY <1>1
  <2>1. i \in 1 .. a + 2 \/ i = a + 3 \/ i = a + 4 \/ i = a + 5
    BY <1>1
  <2>2. CASE i \in 1 .. a + 2
    BY <1>2, <1>5, <2>2
  <2>3. CASE i \notin 1 .. a + 2
    BY <1>3, <1>6, <2>1, <2>3, ControlsAssumption
  <2> QED BY <2>2, <2>3
<1>10. a + 3 \in Nat /\ Len(all) = (a + 3) + 2
  BY <1>1, <1>5
<1>11. Heads(all, a, a + 3)
  BY <1>1, <1>5, <1>7, <1>8, <1>9, <1>10 DEF Heads
<1> QED BY <1>11 DEF all, line

Encloses(raw, a, h, e, payload) ==
  /\ Looks(raw, a, h, e)
  /\ SubSeq(raw, h + 3, e - 1) = payload
  /\ h + 3 = e => payload = <<>>

(* And then the payload and =yend.                                          *)
LEMMA HeadsAnArticle ==
  ASSUME NEW top, NEW a, NEW h, Heads(top, a, h),
         NEW payload \in Seq(Int), StartsLine(payload, Len(payload) + 1)
  PROVE  Encloses(top \o payload \o ControlLine(Yend), a, h, h + 3 + Len(payload), payload)
<1> DEFINE line == ControlLine(Yend)
           n == Len(payload)
           k == h + 2
           some == top \o payload
           raw == some \o line
           e == h + 3 + n
<1>1. /\ a \in Nat \ {0} /\ h \in Nat /\ top \in Seq(Bytes) /\ Len(top) = k /\ k \in Nat /\ a <= h
      /\ h = a \/ (h = a + 3 /\ ControlAt(top, h, Ypart))
      /\ StartsLine(top, a) /\ ControlAt(top, a, Ybegin)
  BY DEF Heads
<1>2. \A i \in 1 .. k : /\ (top[i] = Ybegin => i = a)
                        /\ top[i] # Yend
                        /\ (top[i] = Ypart => i = a + 3 /\ h = a + 3)
  BY DEF Heads
<1>3. /\ line \in Seq(Bytes) /\ Len(line) = 3 /\ line[1] = Yend /\ line[2] = CR /\ line[3] = LF
      /\ CR \in Int /\ LF \in Int
  BY ControlLineIs
<1>4. n \in Nat /\ payload \in Seq(Bytes) /\ \A i \in 1 .. n : payload[i] \in Int
  BY LenProperties, ElementOfSeq DEF Bytes
<1>5. StartsLine(payload, n + 1) /\ (n = 0 => payload = <<>>)
  BY <1>4, EmptySeq
<1> HIDE DEF line, n
<1>6. Joins(some, Bytes, top, k, payload, n)
  BY <1>1, <1>4, Joined DEF n
<1> HIDE DEF some
<1>7. some \in Seq(Bytes) /\ Len(some) = k + n /\ k + n \in Nat
  BY <1>1, <1>4, <1>6 DEF Joins
<1>8. Joins(raw, Bytes, some, k + n, line, 3)
  BY <1>3, <1>7, Joined
<1> HIDE DEF raw
<1>9. raw \in Seq(Bytes) /\ Len(raw) = k + n + 3 /\ DOMAIN raw = 1 .. k + n + 3
  BY <1>8, LenProperties DEF Joins
<1>10. \A i \in 1 .. k : raw[i] = top[i]
  <2>1. \A i \in 1 .. k : i \in 1 .. k + n
    BY <1>1, <1>4
  <2> QED BY <1>6, <1>8, <2>1 DEF Joins
<1>11. \A i \in 1 .. n : raw[k + i] = payload[i]
  <2>1. \A i \in 1 .. n : k + i \in 1 .. k + n
    BY <1>1, <1>4
  <2> QED BY <1>6, <1>8, <2>1 DEF Joins
<1>12. /\ raw[e] = Yend /\ raw[e + 1] = CR /\ raw[e + 2] = LF
       /\ e = k + n + 1 /\ e + 2 = k + n + 3 /\ e \in Nat /\ h + 3 <= e
  <2>1. raw[k + n + 1] = line[1] /\ raw[k + n + 2] = line[2] /\ raw[k + n + 3] = line[3]
    BY <1>8 DEF Joins
  <2>2. /\ e = k + n + 1 /\ e + 1 = k + n + 2 /\ e + 2 = k + n + 3 /\ e \in Nat /\ h + 3 <= e
    BY <1>1, <1>4
  <2> HIDE DEF e, k
  <2> QED BY <1>3, <2>1, <2>2
<1>13. \A i \in 1 .. e + 2 : i \in 1 .. k \/ (i - k \in 1 .. n /\ k + (i - k) = i)
                              \/ i = e \/ i = e + 1 \/ i = e + 2
  BY <1>1, <1>4
<1>14. ControlAt(raw, a, Ybegin) /\ StartsLine(raw, a) /\ (h = a + 3 => ControlAt(raw, h, Ypart))
  <2>1. a \in 1 .. k /\ a + 1 \in 1 .. k /\ a + 2 \in 1 .. k
    BY <1>1
  <2>2. h = a + 3 => h \in 1 .. k /\ h + 1 \in 1 .. k /\ h + 2 \in 1 .. k
    BY <1>1
  <2>3. a > 2 => a - 1 \in 1 .. k /\ a - 2 \in 1 .. k
    BY <1>1
  <2>4. h = a + 3 => ControlAt(top, h, Ypart)
    BY <1>1
  <2> HIDE DEF e, k
  <2>5. ControlAt(raw, a, Ybegin)
    BY <1>1, <1>10, <2>1 DEF ControlAt
  <2>6. h = a + 3 => ControlAt(raw, h, Ypart)
    BY <1>10, <2>2, <2>4 DEF ControlAt
  <2>7. StartsLine(raw, a)
    BY <1>1, <1>10, <2>3 DEF StartsLine
  <2> QED BY <2>5, <2>6, <2>7
<1>15. StartsLine(raw, e)
  <2>1. CASE n = 0
    <3>1. top[k] = LF /\ top[k - 1] = CR
      <4>1. ControlAt(top, h, Ypart) \/ ControlAt(top, h, Ybegin)
        BY <1>1
      <4>2. h + 2 = k /\ h + 1 = k - 1
        BY <1>1
      <4> HIDE DEF e, k
      <4> QED BY <4>1, <4>2 DEF ControlAt
    <3>2. k \in 1 .. k /\ k - 1 \in 1 .. k /\ e - 1 = k /\ e - 2 = k - 1 /\ e > 2
      BY <1>1, <2>1
    <3> HIDE DEF e, k
    <3> QED BY <1>10, <3>1, <3>2 DEF StartsLine
  <2>2. CASE n # 0
    <3>1. n > 1 /\ payload[n] = LF /\ payload[n - 1] = CR
      BY <1>4, <1>5, <2>2 DEF StartsLine
    <3>2. n \in 1 .. n /\ n - 1 \in 1 .. n /\ e - 1 = k + n /\ e - 2 = k + (n - 1) /\ e > 2
      BY <1>1, <1>4, <3>1
    <3> HIDE DEF e, k
    <3> QED BY <1>11, <3>1, <3>2 DEF StartsLine
  <2> QED BY <2>1, <2>2
<1>16. \A i \in 1 .. e + 2 : /\ (raw[i] = Ybegin => i = a)
                             /\ (raw[i] = Yend => i = e)
                             /\ (raw[i] = Ypart => i = a + 3 /\ h = a + 3)
  <2> SUFFICES ASSUME NEW i \in 1 .. e + 2
               PROVE  /\ (raw[i] = Ybegin => i = a)
                      /\ (raw[i] = Yend => i = e)
                      /\ (raw[i] = Ypart => i = a + 3 /\ h = a + 3)
    OBVIOUS
  <2>1. \/ i \in 1 .. k \/ (i - k \in 1 .. n /\ k + (i - k) = i)
        \/ i = e \/ i = e + 1 \/ i = e + 2
    BY <1>13
  <2> HIDE DEF e, k
  <2>2. CASE i \in 1 .. k
    BY <1>2, <1>10, <2>2
  <2>3. CASE i - k \in 1 .. n /\ k + (i - k) = i
    <3>1. raw[i] \in Int
      BY <1>4, <1>11, <2>3
    <3> QED BY <3>1, ControlsAssumption
  <2>4. CASE i = e
    BY <1>12, <2>4, ControlsAssumption
  <2>5. CASE i = e + 1 \/ i = e + 2
    BY <1>3, <1>12, <2>5, ControlsAssumption
  <2> QED BY <2>1, <2>2, <2>3, <2>4, <2>5
<1>17. Looks(raw, a, h, e)
  <2>1. Len(raw) = e + 2 /\ DOMAIN raw = 1 .. e + 2
    BY <1>9, <1>12
  <2>2. ControlAt(raw, e, Yend)
    BY <1>12 DEF ControlAt
  <2>3. h = a \/ (h = a + 3 /\ ControlAt(raw, h, Ypart))
    <3>1. h = a \/ h = a + 3
      BY <1>1
    <3> QED BY <1>14, <3>1, Zenon
  <2>4. \A i \in DOMAIN raw : /\ (raw[i] = Ybegin => i = a)
                             /\ (raw[i] = Yend => i = e)
                             /\ (raw[i] = Ypart => i = a + 3 /\ h = a + 3)
    BY <1>16, <2>1
  <2> HIDE DEF e, k
  <2> QED BY <1>1, <1>12, <1>14, <1>15, <2>1, <2>2, <2>3, <2>4 DEF Looks
<1>18. SubSeq(raw, h + 3, e - 1) = payload
  <2> DEFINE cut == SubSeq(raw, h + 3, e - 1)
  <2>1. \A i \in h + 3 .. e - 1 : i - k \in 1 .. n /\ k + (i - k) = i
    BY <1>1, <1>4
  <2>2. \A i \in h + 3 .. e - 1 : raw[i] \in Bytes
    BY <1>4, <1>11, <2>1 DEF Bytes
  <2>3. h + 3 \in Int /\ e - 1 \in Int /\ (e - 1) - (h + 3) + 1 = n /\ (h + 3 <= e - 1 <=> n # 0)
    BY <1>1, <1>4
  <2>4. /\ cut \in Seq(Bytes) /\ Len(cut) = IF h + 3 <= e - 1 THEN (e - 1) - (h + 3) + 1 ELSE 0
        /\ \A i \in 1 .. (e - 1) - (h + 3) + 1 : cut[i] = raw[h + 3 + i - 1]
    <3> HIDE DEF e, k
    <3> QED BY <2>2, <2>3, SubSeqProperties
  <2> HIDE DEF cut
  <2>5. Len(cut) = n /\ \A i \in 1 .. n : cut[i] = raw[h + 3 + i - 1]
    <3> HIDE DEF e
    <3> QED BY <2>3, <2>4
  <2>6. \A i \in 1 .. n : h + 3 + i - 1 = k + i
    BY <1>1, <1>4
  <2>7. \A i \in 1 .. n : cut[i] = payload[i]
    <3> HIDE DEF e, k
    <3> QED BY <1>11, <2>5, <2>6
  <2>8. cut = payload
    BY <1>4, <2>4, <2>5, <2>7, SeqEqual DEF n
  <2> QED BY <2>8 DEF cut
<1>19. h + 3 = e => payload = <<>>
  BY <1>1, <1>4, <1>5
<1>20. Encloses(raw, a, h, e, payload)
  <2> HIDE DEF e
  <2> QED BY <1>17, <1>18, <1>19 DEF Encloses
<1> QED BY <1>20 DEF raw, some, line, n

(* A sum that is right is left out, malformed, or that of the data.         *)
LEMMA RightSum ==
  ASSUME NEW data, NEW v \in {Absent, Malformed, data}
  PROVE  OptionalHex(v) \in {Absent, data}
BY DEF OptionalHex

LEMMA NothingDecodes == DecodeBytes(<<>>) = <<>>
<1>1. Decoding(<<>>)[0] = Unescaped(<<>>) /\ Len(<<>>) = 0
  BY DecodingIs
<1> QED BY <1>1 DEF DecodeBytes, Unescaped

(* An article as it was written decodes to what was posted.                 *)
LEMMA WrittenLooks ==
  ASSUME NEW p, p.data \in Seq(0 .. 255), p.preamble \in Seq(Int),
         StartsLine(p.preamble, Len(p.preamble) + 1),
         p.codes \in Seq(Seq(Int)), Len(p.codes) = Len(p.data), p.data # Failed,
         \A i \in 1 .. Len(p.data) : p.codes[i] \in Codes(p.data[i]),
         StartsLine(FlattenSeq(p.codes), Len(FlattenSeq(p.codes)) + 1)
  PROVE  \E a, h, e : /\ Looks(Written(p.preamble, p.part, p.codes), a, h, e)
                      /\ h = a + 3 <=> p.part # Absent
                      /\ DecodePayload(Written(p.preamble, p.part, p.codes), h, e) = p.data
<1> DEFINE F == FlattenSeq(p.codes)
           a == Len(p.preamble) + 1
           first == p.preamble \o ControlLine(Ybegin)
           W == Written(p.preamble, p.part, p.codes)
           n == Len(p.data)
<1>1. n \in Nat /\ Len(p.preamble) \in Nat
  BY LenProperties
<1>2. F \in Seq(Int)
  <2>1. \A i \in 1 .. n : p.codes[i] \in Seq(Int)
    BY ElementOfSeq
  <2>2. n = 0 => p.codes = <<>>
    BY EmptySeq
  <2>3. Len(p.codes) = n
    OBVIOUS
  <2> HIDE DEF n
  <2>4. PICK h : Flattens(h, Int, n, p.codes)
    BY <1>1, <2>1, <2>2, <2>3, FlattenFacts, Zenon
  <2>5. n \in 0 .. n
    BY <1>1
  <2> QED BY <2>4, <2>5 DEF Flattens
<1>3. DecodeBytes(F) = p.data
  BY CodesDecode
<1>4. Heads(first, a, a)
  BY HeadsOfFile
<1>5. StartsLine(F, Len(F) + 1)
  OBVIOUS
<1> HIDE DEF F, first
<1>6. \E top, h : /\ Heads(top, a, h) /\ (h = a + 3 <=> p.part # Absent)
                  /\ W = top \o F \o ControlLine(Yend)
  <2>1. CASE p.part = Absent
    <3>1. first \in Seq(Bytes)
      BY <1>4 DEF Heads
    <3>2. first \o <<>> = first
      BY <3>1, ConcatEmptySeq
    <3>3. W = first \o F \o ControlLine(Yend)
      BY <2>1, <3>2 DEF Written, first, F
    <3>4. a # a + 3
      BY <1>1
    <3> QED BY <1>4, <2>1, <3>3, <3>4
  <2>2. CASE p.part # Absent
    <3>1. Heads(first \o ControlLine(Ypart), a, a + 3)
      BY <1>4, HeadsOfPart
    <3>2. W = first \o ControlLine(Ypart) \o F \o ControlLine(Yend)
      BY <2>2 DEF Written, first, F
    <3> QED BY <2>2, <3>1, <3>2
  <2> QED BY <2>1, <2>2
<1>7. PICK top, h : /\ Heads(top, a, h) /\ (h = a + 3 <=> p.part # Absent)
                    /\ W = top \o F \o ControlLine(Yend)
  BY <1>6
<1> DEFINE e == h + 3 + Len(F)
<1> HIDE DEF W, a
<1>8. /\ Looks(W, a, h, e) /\ SubSeq(W, h + 3, e - 1) = F
      /\ h + 3 = e => F = <<>>
  <2>1. Encloses(top \o F \o ControlLine(Yend), a, h, h + 3 + Len(F), F)
    BY <1>2, <1>5, <1>7, HeadsAnArticle, Zenon
  <2> QED BY <1>7, <2>1 DEF Encloses
<1> HIDE DEF e
<1>9. DecodePayload(W, h, e) = p.data
  <2>1. DecodePayload(W, h, e) = IF h + 3 = e THEN <<>> ELSE DecodeBytes(SubSeq(W, h + 3, e - 1))
    BY <1>8, PayloadIs
  <2>2. DecodeBytes(<<>>) = <<>>
    BY NothingDecodes
  <2> QED BY <1>3, <1>8, <2>1, <2>2
<1> QED BY <1>7, <1>8, <1>9 DEF W

LEMMA MinOfOne == ASSUME NEW i \in Int PROVE Min({i}) = i
BY LeastIs

(* decodeArticle, on what was not spoilt.                                   *)
LEMMA SoundDecodes ==
  ASSUME NEW b \in Bodies, b.fields # Absent, ~b.spoilt
  PROVE  \E m \in {TRUE, Absent} :
           DecodeArticle(b.body, b.fields, b.verify) = Decoded(b.post.data, b.post.part, m, TRUE)
<1> DEFINE p == b.post
           f == b.fields
           raw == b.body
<1>1. ArticleIsSound(b) /\ SumsAreRight(b) /\ p.data # Failed
  BY ArticlesAssumption
<1>2. raw = Written(p.preamble, p.part, p.codes) /\ FieldsSay(f, p) /\ p.data \in Seq(0 .. 255)
  BY <1>1 DEF ArticleIsSound
<1>3. PICK a, h, e : /\ Looks(raw, a, h, e)
                     /\ h = a + 3 <=> p.part # Absent
                     /\ DecodePayload(raw, h, e) = p.data
  <2>1. /\ p.data \in Seq(0 .. 255) /\ p.preamble \in Seq(Int)
        /\ StartsLine(p.preamble, Len(p.preamble) + 1)
        /\ p.codes \in Seq(Seq(Int)) /\ Len(p.codes) = Len(p.data)
        /\ \A i \in 1 .. Len(p.data) : p.codes[i] \in Codes(p.data[i])
        /\ StartsLine(FlattenSeq(p.codes), Len(FlattenSeq(p.codes)) + 1)
    BY <1>1 DEF ArticleIsSound
  <2> HIDE DEF p, raw
  <2>2. p.data # Failed
    BY <1>1
  <2>3. \E a, h, e : /\ Looks(Written(p.preamble, p.part, p.codes), a, h, e)
                     /\ h = a + 3 <=> p.part # Absent
                     /\ DecodePayload(Written(p.preamble, p.part, p.codes), h, e) = p.data
    BY <2>1, <2>2, WrittenLooks
  <2> QED BY <1>2, <2>3
<1>4. ~HeaderFails(f) /\ ~TrailerFails(f) /\ f.trailerSize = Len(p.data)
  BY <1>2 DEF FieldsSay
<1>5. p.part # Absent => ~PartFails(f) /\ PartRange(f) = p.part
  BY <1>2 DEF FieldsSay
<1>6. /\ f.pcrc32 \in {Absent, Malformed, p.data}
      /\ p.part = Absent => f.crc32 \in {Absent, Malformed, p.data}
  BY <1>1 DEF SumsAreRight
<1> DEFINE multipart == NextLine(raw, a) \in LinesWith(raw, Ypart)
           m == Compare(f, multipart, p.data)
<1> HIDE DEF p, f, raw
<1>7. /\ LinesWith(raw, Ybegin) = {a} /\ LinesWith(raw, Yend) = {e}
      /\ multipart <=> p.part # Absent
      /\ multipart => NextLine(raw, a) = h
      /\ ~multipart => h = a
  <2>1. /\ LinesWith(raw, Ybegin) = {a} /\ LinesWith(raw, Yend) = {e}
        /\ NextLine(raw, a) \in LinesWith(raw, Ypart) <=> h = a + 3
        /\ h = a + 3 => NextLine(raw, a) = h
    BY <1>3, PayloadIs
  <2>2. h = a \/ h = a + 3
    BY <1>3 DEF Looks
  <2> QED BY <1>3, <2>1, <2>2
<1>8. Min(LinesWith(raw, Ybegin)) = a /\ Min(LinesWith(raw, Yend)) = e
  <2>1. a \in Int /\ e \in Int
    BY <1>3 DEF Looks
  <2> QED BY <1>7, <2>1, MinOfOne
<1>10. m \in {TRUE, Absent}
  <2> DEFINE covering == Covering(f, multipart)
  <2>1. OptionalHex(f.pcrc32) \in {Absent, p.data}
    BY <1>6, RightSum
  <2>2. ~multipart => OptionalHex(f.crc32) \in {Absent, p.data}
    BY <1>6, <1>7, RightSum
  <2>3. covering = Absent \/ covering = p.data
    <3> HIDE DEF multipart
    <3> QED BY <2>1, <2>2 DEF Covering
  <2>4. m = IF covering = Absent THEN Absent ELSE covering = p.data
    BY DEF Compare
  <2> HIDE DEF covering, m
  <2>5. ASSUME covering # Absent PROVE m = TRUE
    <3>1. m = (covering = p.data)
      BY <2>4, <2>5
    <3>2. (covering = p.data) = TRUE
      BY <2>3, <2>5
    <3> QED BY <3>1, <3>2, Zenon
  <2> QED BY <2>4, <2>5
<1>11. DecodePayload(raw, IF multipart THEN NextLine(raw, a) ELSE a, e) = p.data
  BY <1>3, <1>7
<1>12. DecodeArticle(raw, f, b.verify) =
         IF \/ LinesWith(raw, Ybegin) = {} \/ LinesWith(raw, Yend) = {}
            \/ HeaderFails(f) \/ (multipart /\ PartFails(f)) \/ TrailerFails(f)
            \/ p.data = Failed
            \/ b.verify /\ m = FALSE
         THEN Failed
         ELSE Decoded(p.data, IF multipart THEN PartRange(f) ELSE Absent, m, f.trailerSize = Len(p.data))
  BY <1>8, <1>11 DEF DecodeArticle
<1> HIDE DEF m, multipart
<1>13. m # FALSE
  BY <1>10, AbsentAssumption
<1>14. DecodeArticle(raw, f, b.verify) =
         Decoded(p.data, IF multipart THEN PartRange(f) ELSE Absent, m, f.trailerSize = Len(p.data))
  <2>1. LinesWith(raw, Ybegin) # {} /\ LinesWith(raw, Yend) # {}
    BY <1>7
  <2>2. ~(multipart /\ PartFails(f))
    BY <1>5, <1>7
  <2>3. p.data # Failed
    BY <1>1 DEF p
  <2> QED BY <1>4, <1>12, <1>13, <2>1, <2>2, <2>3, Zenon
<1>15. (IF multipart THEN PartRange(f) ELSE Absent) = p.part
  BY <1>5, <1>7
<1>16. (f.trailerSize = Len(p.data)) = TRUE
  BY <1>4
<1>17. DecodeArticle(raw, f, b.verify) = Decoded(p.data, p.part, m, TRUE)
  BY <1>14, <1>15, <1>16, Zenon
<1> QED BY <1>10, <1>17 DEF p, f, raw

(* A set of positions that is not empty has a first one.                    *)
LEMMA FirstOne ==
  ASSUME NEW S, S \subseteq Nat, S # {}
  PROVE  Min(S) \in S
<1>1. PICK n \in S : \A m \in S : ~(<<m, n>> \in OpToRel(<, Nat))
  BY NatLessThanWellFounded, WFMin
<1>2. \A m \in S : n <= m
  <2> SUFFICES ASSUME NEW m \in S, m < n PROVE FALSE
    OBVIOUS
  <2>1. m \in Nat /\ n \in Nat
    OBVIOUS
  <2>2. <<m, n>> \in OpToRel(<, Nat)
    BY <2>1 DEF OpToRel
  <2> QED BY <1>1, <2>2
<1>3. S \subseteq Int
  OBVIOUS
<1> QED BY <1>2, <1>3, LeastIs

(* The payload is nothing, or a piece of the body.                          *)
IsAPiece(x, raw) == \E i, j \in 0 .. Len(raw) : x = DecodeBytes(SubSeq(raw, i + 1, j))

LEMMA PayloadIsAPiece ==
  ASSUME NEW raw \in Seq(Bytes), NEW header, NEW e \in 1 .. Len(raw)
  PROVE  IsAPiece(DecodePayload(raw, header, e), raw)
<1> DEFINE n == Len(raw)
<1>0. n \in Nat /\ DOMAIN raw = 1 .. n
  BY LenProperties
<1> SUFFICES \E i, j \in 0 .. n : DecodePayload(raw, header, e) = DecodeBytes(SubSeq(raw, i + 1, j))
  BY DEF IsAPiece
<1> DEFINE lines == {s \in LineStarts(raw) : header < s /\ s < e}
<1>1. DecodePayload(raw, header, e) = IF lines = {} THEN <<>> ELSE DecodeBytes(SubSeq(raw, Min(lines), e - 1))
  BY DEF DecodePayload
<1>2. CASE lines = {}
  <2>1. 0 \in 0 .. n /\ SubSeq(raw, 0 + 1, 0) = <<>>
    BY <1>0, SubSeqEmpty
  <2> HIDE DEF lines
  <2> QED BY <1>1, <1>2, <2>1, NothingDecodes
<1>3. CASE lines # {}
  <2>1. \A s \in lines : s \in 1 .. n
    <3> SUFFICES ASSUME NEW s \in LineStarts(raw), s < e PROVE s \in 1 .. n
      OBVIOUS
    <3>1. s \in Int /\ (s # 1 => s - 1 \in 1 .. n)
      BY <1>0, LineStartsAre
    <3> QED BY <1>0, <3>1
  <2>2. lines \subseteq Nat
    BY <2>1
  <2> HIDE DEF lines
  <2>3. Min(lines) \in 1 .. n
    BY <1>3, <2>1, <2>2, FirstOne
  <2> DEFINE i == Min(lines) - 1
  <2>4. i \in 0 .. n /\ i + 1 = Min(lines) /\ e - 1 \in 0 .. n
    BY <1>0, <2>3
  <2> HIDE DEF i
  <2> QED BY <1>1, <1>3, <2>4
<1> QED BY <1>2, <1>3

(* decodeArticle, on anything: what it calls verified is what was posted.   *)
LEMMA MatchingIsRight ==
  ASSUME NEW b \in Bodies, b.fields # Absent, NEW x, x = DecodeArticle(b.body, b.fields, b.verify),
         x # Failed, x.matches = TRUE
  PROVE  x.data = b.post.data
<1> DEFINE f == b.fields
           raw == b.body
           n == Len(raw)
           begin == Min(LinesWith(raw, Ybegin))
           end == Min(LinesWith(raw, Yend))
           multipart == NextLine(raw, begin) \in LinesWith(raw, Ypart)
           header == IF multipart THEN NextLine(raw, begin) ELSE begin
           data == DecodePayload(raw, header, end)
           matches == Compare(f, multipart, data)
           place == IF multipart THEN PartRange(f) ELSE Absent
           size == f.trailerSize = Len(data)
           fails == \/ LinesWith(raw, Ybegin) = {} \/ LinesWith(raw, Yend) = {}
                    \/ HeaderFails(f) \/ (multipart /\ PartFails(f)) \/ TrailerFails(f)
                    \/ data = Failed
                    \/ b.verify /\ matches = FALSE
<1>1. SumsAreRight(b) /\ raw \in Seq(Bytes)
  BY ArticlesAssumption, BodiesAssumption DEF Bytes
<1>2. n \in Nat /\ DOMAIN raw = 1 .. n
  BY <1>1, LenProperties
<1>3. /\ f.pcrc32 \in {Absent, Malformed, b.post.data}
      /\ \/ f.crc32 \in {Absent, Malformed, b.post.data}
         \/ \A i, j \in 0 .. n : DecodeBytes(SubSeq(raw, i + 1, j)) # f.crc32
  BY <1>1 DEF SumsAreRight
<1>4. x = IF fails THEN Failed ELSE Decoded(data, place, matches, size)
  BY DEF DecodeArticle
<1> HIDE DEF f, raw, n
<1>5. LinesWith(raw, Yend) # {}
  <2> HIDE DEF data, matches, place, size
  <2> QED BY <1>4
<1>6. end \in 1 .. n
  <2>1. LinesWith(raw, Yend) \subseteq 1 .. n
    BY <1>2 DEF LinesWith
  <2>2. LinesWith(raw, Yend) \subseteq Nat
    BY <1>2, <2>1
  <2> QED BY <1>5, <2>1, <2>2, FirstOne
<1> HIDE DEF fails, place, size, header, begin, end
<1>7. \E i, j \in 0 .. n : data = DecodeBytes(SubSeq(raw, i + 1, j))
  <2>1. raw \in Seq(Bytes) /\ end \in 1 .. Len(raw)
    BY <1>1, <1>6 DEF n
  <2>2. IsAPiece(data, raw)
    BY <2>1, PayloadIsAPiece
  <2> QED BY <2>2 DEF IsAPiece, n
<1> HIDE DEF data, multipart
<1>8. x.data = data /\ x.matches = matches
  <2>1. x = Decoded(data, place, matches, size)
    BY <1>4
  <2> HIDE DEF matches
  <2> QED BY <2>1 DEF Decoded
<1>9. matches = TRUE
  BY <1>8
<1> DEFINE covering == Covering(f, multipart)
<1>10. covering # Absent
  <2>1. covering = Absent => matches = Absent
    BY DEF Compare
  <2> QED BY <1>9, <2>1, AbsentAssumption
<1>11. covering = data
  <2>1. matches = (covering = data)
    BY <1>10 DEF Compare
  <2> HIDE DEF matches, covering
  <2> QED BY <1>9, <2>1, Zenon
<1>12. covering = OptionalHex(f.pcrc32) \/ covering = OptionalHex(f.crc32)
  BY DEF Covering
<1> HIDE DEF covering, matches
<1>13. \A v : v \in {Absent, Malformed, b.post.data} => OptionalHex(v) \in {Absent, b.post.data}
  BY RightSum
<1>14. CASE covering = OptionalHex(f.pcrc32)
  BY <1>3, <1>8, <1>10, <1>11, <1>13, <1>14
<1>15. CASE covering = OptionalHex(f.crc32)
  <2>1. CASE f.crc32 \in {Absent, Malformed, b.post.data}
    BY <1>8, <1>10, <1>11, <1>13, <1>15, <2>1
  <2>2. CASE f.crc32 \notin {Absent, Malformed, b.post.data}
    <3>1. covering = f.crc32
      BY <1>15, <2>2 DEF OptionalHex
    <3> QED BY <1>3, <1>7, <1>11, <2>2, <3>1
  <2> QED BY <2>1, <2>2
<1> QED BY <1>12, <1>14, <1>15

-----------------------------------------------------------------------------
(* What is decoded is the block that was taken. *)
ArticleOK ==
  article # Absent =>
    /\ sent \in Bodies /\ sent.fields # Absent
    /\ article = DecodeArticle(sent.body, sent.fields, sent.verify)

LEMMA ArticleKeeps == WireInv /\ ArticleOK /\ [WireNext]_wireVars => ArticleOK'
<1> SUFFICES ASSUME WireInv, ArticleOK, [WireNext]_wireVars, article' # Absent
             PROVE  /\ sent' \in Bodies /\ sent'.fields # Absent
                    /\ article' = DecodeArticle(sent'.body, sent'.fields, sent'.verify)
  BY DEF ArticleOK
<1>1. CASE ServerReplies
  <2>1. article' = article /\ sent = NoBody /\ NoBody \notin Bodies
    BY <1>1, BodiesAssumption DEF ServerReplies
  <2> QED BY <2>1 DEF ArticleOK
<1>2. CASE Decode
  <2>1. /\ Len(taken) >= 2 /\ sent.fields # Absent /\ sent' = sent
        /\ article' = DecodeArticle(taken[2], sent.fields, sent.verify)
    BY <1>2 DEF Decode
  <2>2. taken # <<>>
    BY <2>1
  <2>3. sent \in Bodies /\ \E k \in 0 .. 3 : taken = Given(k)
    BY <2>2 DEF WireInv, Framed
  <2>4. taken[2] = sent.body
    <3>1. PICK k \in 0 .. 3 : taken = Given(k)
      BY <2>3
    <3>2. Len(taken) = k
      BY <3>1, GivenIs
    <3>3. k = 2 \/ k = 3
      BY <2>1, <3>2
    <3>4. CASE k = 2
      BY <3>1, <3>4 DEF Given
    <3>5. CASE k = 3
      BY <3>1, <3>5 DEF Given, Replies
    <3> QED BY <3>3, <3>4, <3>5
  <2> QED BY <2>1, <2>3, <2>4
<1>3. CASE ~ServerReplies /\ ~Decode
  <2>1. article' = article /\ sent' = sent
    BY <1>3 DEF WireNext, ChunkArrives, Wait, wireVars
  <2> QED BY <2>1 DEF ArticleOK
<1> QED BY <1>1, <1>2, <1>3

LEMMA ArticleSays == ArticleOK => DecodedAsPosted
<1> SUFFICES ASSUME ArticleOK, article # Absent
             PROVE  LET p == sent.post IN
                    /\ article # Failed /\ article.matches = TRUE => article.data = p.data
                    /\ ~sent.spoilt =>
                         /\ article # Failed
                         /\ article.data = p.data
                         /\ article.part = p.part
                         /\ article.sizeMatches /\ article.matches # FALSE
  BY DEF DecodedAsPosted
<1>1. /\ sent \in Bodies /\ sent.fields # Absent
      /\ article = DecodeArticle(sent.body, sent.fields, sent.verify)
  BY DEF ArticleOK
<1>2. ASSUME article # Failed, article.matches = TRUE PROVE article.data = sent.post.data
  BY <1>1, <1>2, MatchingIsRight
<1>3. ASSUME ~sent.spoilt
      PROVE  /\ article # Failed
             /\ article.data = sent.post.data
             /\ article.part = sent.post.part
             /\ article.sizeMatches /\ article.matches # FALSE
  <2>1. PICK m \in {TRUE, Absent} : article = Decoded(sent.post.data, sent.post.part, m, TRUE)
    BY <1>1, <1>3, SoundDecodes
  <2>2. article # Failed
    BY <1>1, <2>1, ArticlesAssumption
  <2>3. m # FALSE
    BY AbsentAssumption
  <2> QED BY <2>1, <2>2, <2>3 DEF Decoded
<1> QED BY <1>2, <1>3

(* An article that decodes is the part that was posted, and none that was   *)
(* spoilt is returned as verified, whatever was posted, however it was      *)
(* written and cut into chunks (decode-article.ts:49-66, decode-bytes.ts).  *)
THEOREM DecodesAsPosted == WireSpec => []DecodedAsPosted
<1>1. WireInit => WireInv /\ ArticleOK
  BY DEF WireInit, WireInv, ArticleOK
<1>2. WireInv /\ [WireNext]_wireVars => WireInv'
  BY WireStep
<1> QED BY <1>1, <1>2, ArticleKeeps, ArticleSays, PTL DEF WireSpec
=====================
