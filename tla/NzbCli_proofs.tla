----------------------------- MODULE NzbCli_proofs -----------------------------
(***************************************************************************)
(* Theorems about the command line (NzbCli), whatever it is started with:  *)
(* where it lets a secret go, and what its exit status says, for any       *)
(* number of files, articles, paths and sources.                           *)
(***************************************************************************)
EXTENDS NzbCli, FiniteSetTheorems, SequenceTheorems, WellFoundedInduction, TLAPS

-----------------------------------------------------------------------------
(* Where a secret goes.  The invariant: a program that has come as far as to *)
(* use a pool has settings nobody refused, and every login was made with     *)
(* them and with what their sources had to say at that moment.               *)

Accepted == ~ConfigRefused /\ ~FlagsRefused /\ Setting("host") # Unset

StageOK ==
  /\ stage \in {"idle", "parsing"} => logins = {}
  /\ stage \in Connected \cup {"reading", "downloading"} =>
       Accepted /\ invocation.name \in Connected /\ server = Settings

AsNamed(login) ==
  /\ Accepted
  /\ login.host = Setting("host")
  /\ login.user = Else(Setting("user"), Resolved(DefaultUsername, login.silent))
  /\ login.secret = Resolved(Password(Settings), login.silent) /\ login.secret # Unset

LoggedIn == \A login \in logins : AsNamed(login)

CliInv == StageOK /\ LoggedIn

(* What is said of a login reads nothing but the invocation. *)
LEMMA SameInvocation ==
  ASSUME invocation' = invocation
  PROVE  /\ Accepted' = Accepted /\ Settings' = Settings
         /\ \A login : AsNamed(login)' = AsNamed(login)
<1>1. Flags' = Flags /\ ConfigFile' = ConfigFile
  BY DEF Flags, ConfigFile
<1>2. /\ Setting("host")' = Setting("host") /\ Setting("port")' = Setting("port")
      /\ Setting("security")' = Setting("security") /\ Setting("user")' = Setting("user")
      /\ Setting("ttl")' = Setting("ttl")
      /\ Connections' = Connections /\ PasswordRef' = PasswordRef
  BY <1>1 DEF Setting, Filed, Else, Connections, PasswordRef
<1>3. Settings' = Settings
  BY <1>2 DEF Settings, Else
<1>4. ConfigRefused' = ConfigRefused
  BY <1>1 DEF ConfigRefused, SettingInvalid
<1>5. FlagsRefused' = FlagsRefused
  BY <1>1 DEF FlagsRefused
<1>6. Accepted' = Accepted
  BY <1>2, <1>4, <1>5 DEF Accepted
<1>7. \A sources, silent : Resolved(sources, silent)' = Resolved(sources, silent)
  BY DEF Resolved, Held, Secret, SelectInSeq
<1>8. Password(Settings)' = Password(Settings)
  BY <1>3 DEF Password
<1>9. \A login : AsNamed(login)' = AsNamed(login)
  BY <1>2, <1>6, <1>7, <1>8 DEF AsNamed, Else
<1> QED BY <1>3, <1>6, <1>9

(* A step that logs in uses the settings; one that does not keeps what is    *)
(* known of the logins.                                                      *)
LEMMA LoginKeeps ==
  ASSUME CliInv, invocation' = invocation, server' = server,
         LogsIn \/ logins' = logins,
         stage \in Connected \cup {"reading", "downloading"},
         stage' \in Connected \cup {"reading", "downloading", "leaving"}
  PROVE  CliInv'
<1>1. Accepted /\ invocation.name \in Connected /\ server = Settings
  BY DEF CliInv, StageOK
<1>2. StageOK'
  BY <1>1, SameInvocation DEF StageOK, Connected
<1>3. LoggedIn'
  <2>1. CASE logins' = logins
    BY <2>1, SameInvocation DEF CliInv, LoggedIn
  <2>2. CASE LogsIn /\ logins' # logins
    <3>1. PICK silent \in Silences :
            /\ CanLogIn(silent)
            /\ logins' = logins \cup
                 {[host |-> server.host, user |-> Username(silent),
                   secret |-> Resolved(Password(server), silent), silent |-> silent]}
      BY <2>2 DEF LogsIn
    <3> DEFINE new == [host |-> server.host, user |-> Username(silent),
                       secret |-> Resolved(Password(server), silent), silent |-> silent]
    <3>2. /\ server.host = Setting("host")
          /\ Username(silent) = Else(Setting("user"), Resolved(DefaultUsername, silent))
      BY <1>1 DEF Settings, Username
    <3>3. Resolved(Password(server), silent) # Unset
      BY <3>1 DEF CanLogIn
    <3>4. AsNamed(new)
      <4>1. /\ new.host = server.host /\ new.user = Username(silent)
            /\ new.secret = Resolved(Password(server), silent) /\ new.silent = silent
        OBVIOUS
      <4> HIDE DEF new
      <4> QED BY <1>1, <3>2, <3>3, <4>1 DEF AsNamed
    <3>5. \A login \in logins' : AsNamed(login)
      <4>1. logins' = logins \cup {new}
        BY <3>1
      <4> HIDE DEF new
      <4> QED BY <3>4, <4>1 DEF CliInv, LoggedIn
    <3> QED BY <3>5, SameInvocation DEF LoggedIn
  <2> QED BY <2>1, <2>2
<1> QED BY <1>2, <1>3 DEF CliInv

LEMMA CliInitInv == CliInit => CliInv
BY DEF CliInit, CliInv, StageOK, LoggedIn, Connected

(* Without a login, what is said of the stage is all there is to keep. *)
LEMMA ParsingKeeps ==
  ASSUME CliInv, Invoke \/ ParseCommandLine PROVE CliInv'
<1>1. CASE Invoke
  BY <1>1 DEF Invoke, CliInv, StageOK, LoggedIn, Connected
<1>2. CASE ParseCommandLine
  <2>1. logins = {} /\ logins' = {} /\ invocation' = invocation
    BY <1>2 DEF ParseCommandLine, CliInv, StageOK
  <2>2. \/ stage' \in {"leaving", "decoding"}
        \/ /\ stage' = "reading" /\ server' = Settings
           /\ ~UsageRefused /\ invocation.name \in Connected
    BY <1>2 DEF ParseCommandLine, Return
  <2>3. ~UsageRefused /\ invocation.name \in Connected => Accepted
    <3>1. ~UsageRefused /\ invocation.name \in Connected =>
            ~ConfigRefused /\ ~FlagsRefused /\ ~ServerRefused
      BY Zenon DEF UsageRefused
    <3>2. ~ServerRefused => Setting("host") # Unset
      BY DEF ServerRefused
    <3> QED BY <3>1, <3>2 DEF Accepted
  <2>4. StageOK'
    BY <2>1, <2>2, <2>3, SameInvocation DEF StageOK, Connected
  <2> QED BY <2>1, <2>4 DEF CliInv, LoggedIn
<1> QED BY <1>1, <1>2

LEMMA CliNextInv ==
  ASSUME CliInv, [CliNext]_cliVars PROVE CliInv'
<1>1. CASE Invoke \/ ParseCommandLine
  BY <1>1, ParsingKeeps
<1>2. CASE ReadNzb
  <2>1. stage = "reading" /\ invocation.name \in Connected
    BY <1>2 DEF ReadNzb, CliInv, StageOK
  <2>2. stage' \in Connected \cup {"leaving"} /\ UNCHANGED <<invocation, server, logins>>
    BY <1>2, <2>1 DEF ReadNzb, Return
  <2> QED BY <2>1, <2>2, LoginKeeps
<1>3. CASE Probe \/ Selected
  <2>1. stage = "get" /\ stage' \in {"get", "downloading", "leaving"}
        /\ UNCHANGED <<invocation, server>> /\ (LogsIn \/ logins' = logins)
    BY <1>3 DEF Probe, Selected, Return, LogInFails
  <2> QED BY <2>1, LoginKeeps DEF Connected
<1>4. CASE OpenSink \/ Download \/ CloseSink \/ Downloaded
  <2>1. stage = "downloading" /\ stage' \in {"downloading", "leaving"}
        /\ UNCHANGED <<invocation, server>> /\ (LogsIn \/ logins' = logins)
    BY <1>4 DEF OpenSink, Download, CloseSink, Downloaded, Return, Fetches, LogInFails
  <2> QED BY <2>1, LoginKeeps
<1>5. CASE Stat \/ StatEnds \/ Verify
  <2>1. stage \in {"stat", "verify"} /\ stage' \in {"stat", "leaving"}
        /\ UNCHANGED <<invocation, server>> /\ (LogsIn \/ logins' = logins)
    BY <1>5 DEF Stat, StatEnds, Verify, Return, LogInFails, LosesLogIn
  <2> QED BY <2>1, LoginKeeps DEF Connected
<1>6. CASE DecodePath \/ DecodeEnds \/ Finally \/ UNCHANGED cliVars
  <2>1. UNCHANGED <<invocation, server, logins>>
        /\ (stage' = stage \/ stage' \in {"leaving", "exited"})
    BY <1>6 DEF DecodePath, DecodeEnds, Finally, Return, cliVars
  <2>2. StageOK'
    BY <2>1, SameInvocation DEF CliInv, StageOK, Connected
  <2>3. LoggedIn'
    BY <2>1, SameInvocation DEF CliInv, LoggedIn
  <2> QED BY <2>2, <2>3 DEF CliInv
<1> QED BY <1>1, <1>2, <1>3, <1>4, <1>5, <1>6 DEF CliNext

(* A chain of one source gives what that source has; the default chain gives *)
(* what the first of its sources has that says anything.                     *)
LEMMA ResolvedFirst ==
  ASSUME NEW sources, NEW silent, Len(sources) \in Nat, DOMAIN sources = 1 .. Len(sources),
         Resolved(sources, silent) # Unset
  PROVE  \E n \in DOMAIN sources :
           /\ Resolved(sources, silent) = Secret(sources[n]) /\ sources[n] \notin silent
           /\ \A m \in 1 .. n - 1 : Held(sources[m], silent) = Unset
<1> DEFINE I == {i \in 1 .. Len(sources) : Held(sources[i], silent) # Unset}
<1>1. Resolved(sources, silent) = LET n == IF I # {} THEN Min(I) ELSE 0
                                  IN IF n = 0 THEN Unset ELSE Secret(sources[n])
  BY DEF Resolved, SelectInSeq
<1>2. I # {}
  BY <1>1
<1>3. PICK n \in I : \A m \in I : ~(<<m, n>> \in OpToRel(<, Nat))
  <2>1. I \subseteq Nat
    OBVIOUS
  <2> HIDE DEF I
  <2> QED BY <1>2, <2>1, NatLessThanWellFounded, WFMin
<1>4. \A m \in I : n <= m
  <2> SUFFICES ASSUME NEW m \in I PROVE n <= m
    OBVIOUS
  <2>1. m \in Nat /\ n \in Nat
    OBVIOUS
  <2> HIDE DEF I
  <2>2. ~(m < n)
    BY <1>3, <2>1 DEF OpToRel
  <2> QED BY <2>1, <2>2
<1>5. Min(I) \in I /\ \A m \in I : Min(I) <= m
  BY <1>3, <1>4 DEF Min
<1>6. Resolved(sources, silent) = Secret(sources[Min(I)])
  BY <1>1, <1>2, <1>5
<1>7. \A m \in 1 .. Min(I) - 1 : Held(sources[m], silent) = Unset
  BY <1>5
<1>8. sources[Min(I)] \notin silent
  BY <1>5 DEF Held
<1> QED BY <1>5, <1>6, <1>7, <1>8

(* Whatever the program is started with and whichever sources fall silent,   *)
(* it logs in only with settings it accepted, and every password it sends is *)
(* from the source the user named, or from the first of the default ones to  *)
(* answer when nobody named any (credentials.ts:67-70, config.ts:57-63).     *)
THEOREM SecretStaysWithItsOwner == CliSpec => []SecretGoesWhereNamed
<1>1. CliSpec => []CliInv
  BY CliInitInv, CliNextInv, PTL DEF CliSpec
<1>2. ASSUME CliInv PROVE SecretGoesWhereNamed
  <2> SUFFICES ASSUME NEW login \in logins
               PROVE
    LET named == {s \in {Flags.passEnv, Flags.passFile} : s # Unset}
        filed == IF ConfigFile.state = "sound" THEN {ConfigFile.settings.password} \ {Unset} ELSE {}
        Holds(s) == Secret(s) = login.secret /\ s \notin login.silent
    IN /\ ConfigFile.state = "sound" \/ (ConfigFile.state = "missing" /\ Flags.config = Unset)
       /\ Flags.host # Unset => login.host = Flags.host
       /\ Flags.host = Unset => login.host = ConfigFile.settings.host
       /\ Flags.user # Unset => login.user = Flags.user
       /\ Flags.user = Unset /\ Filed("user") # Unset => login.user = Filed("user")
       /\ named # {} => \A s \in named : Holds(s)
       /\ named = {} /\ filed # {} => \A s \in filed : Holds(s)
       /\ named = {} /\ filed = {} =>
            \E n \in DOMAIN DefaultPassword :
              /\ Holds(DefaultPassword[n])
              /\ \A m \in 1 .. n - 1 : Held(DefaultPassword[m], login.silent) = Unset
    BY DEF SecretGoesWhereNamed
  <2> DEFINE named == {s \in {Flags.passEnv, Flags.passFile} : s # Unset}
             filed == IF ConfigFile.state = "sound" THEN {ConfigFile.settings.password} \ {Unset} ELSE {}
             Holds(s) == Secret(s) = login.secret /\ s \notin login.silent
             First == \E n \in DOMAIN DefaultPassword :
                        /\ Holds(DefaultPassword[n])
                        /\ \A m \in 1 .. n - 1 : Held(DefaultPassword[m], login.silent) = Unset
  <2>1. /\ ~ConfigRefused /\ ~FlagsRefused /\ Setting("host") # Unset
        /\ login.host = Setting("host")
        /\ login.user = Else(Setting("user"), Resolved(DefaultUsername, login.silent))
        /\ login.secret = Resolved(Password(Settings), login.silent) /\ login.secret # Unset
    BY <1>2 DEF CliInv, LoggedIn, AsNamed, Accepted
  <2>2. ConfigFile.state = "sound" \/ (ConfigFile.state = "missing" /\ Flags.config = Unset)
    BY <2>1 DEF ConfigRefused
  <2>3. /\ Flags.host # Unset => login.host = Flags.host
        /\ Flags.host = Unset => login.host = ConfigFile.settings.host
        /\ Flags.user # Unset => login.user = Flags.user
        /\ Flags.user = Unset /\ Filed("user") # Unset => login.user = Filed("user")
    BY <2>1 DEF Setting, Else, Filed
  <2>4. Settings.password = PasswordRef
    BY DEF Settings
  <2>5. ASSUME NEW s, s # Unset, PasswordRef = s PROVE Holds(s)
    <3>1. Password(Settings) = <<s>>
      BY <2>4, <2>5 DEF Password
    <3> DEFINE one == <<s>>
    <3>2. DOMAIN one = 1 .. 1 /\ Len(one) = 1 /\ one[1] = s /\ 1 \in Nat
      OBVIOUS
    <3> HIDE DEF one
    <3>3. Password(Settings) = one
      BY <3>1 DEF one
    <3>4. Resolved(one, login.silent) # Unset
      BY <2>1, <3>3
    <3>5. \E n \in DOMAIN one : Resolved(one, login.silent) = Secret(one[n]) /\ one[n] \notin login.silent
      BY <3>2, <3>4, ResolvedFirst
    <3> QED BY <2>1, <3>2, <3>3, <3>5
  <2>6. named # {} => \A s \in named : s # Unset /\ PasswordRef = s
    BY <2>1 DEF FlagsRefused, PasswordRef, Else
  <2>7. named = {} /\ filed # {} => \A s \in filed : s # Unset /\ PasswordRef = s
    BY DEF PasswordRef, Else, Filed
  <2>8. ASSUME named = {}, filed = {} PROVE First
    <3>1. Flags.passEnv = Unset /\ Flags.passFile = Unset
      BY <2>8
    <3>2. PasswordRef = Unset
      BY <2>2, <2>8, <3>1 DEF PasswordRef, Else, Filed
    <3>3. Password(Settings) = DefaultPassword
      BY <2>4, <3>2 DEF Password
    <3>4. DOMAIN DefaultPassword = 1 .. 3 /\ Len(DefaultPassword) = 3
      BY DEF DefaultPassword
    <3> DEFINE silent == login.silent
    <3> HIDE DEF silent
    <3>5. Resolved(DefaultPassword, silent) # Unset /\ 3 \in Nat
      BY <2>1, <3>3 DEF silent
    <3>6. \E n \in DOMAIN DefaultPassword :
            /\ Resolved(DefaultPassword, silent) = Secret(DefaultPassword[n])
            /\ DefaultPassword[n] \notin silent
            /\ \A m \in 1 .. n - 1 : Held(DefaultPassword[m], silent) = Unset
      BY <3>4, <3>5, ResolvedFirst
    <3> QED BY <2>1, <3>3, <3>4, <3>6 DEF silent
  <2> HIDE DEF named, filed, Holds, First
  <2>9. named # {} => \A s \in named : Holds(s)
    BY <2>5, <2>6
  <2>10. named = {} /\ filed # {} => \A s \in filed : Holds(s)
    BY <2>5, <2>7
  <2> QED BY <2>2, <2>3, <2>8, <2>9, <2>10 DEF named, filed, Holds, First
<1> QED BY <1>1, <1>2, PTL

-----------------------------------------------------------------------------
(* What the exit status says.  The invariant follows each command: what get  *)
(* has selected and, of each name, what the last file of that name has       *)
(* there; what stat has asked; what decode has put where.                    *)

Wanted(n) == Files[n].opens = "opens" /\ Matches(Files[n]) /\ ~Files[n].outside
NameOf(j) == OutputName(Files[chosen[j]])
Written(n, k) == {<<i, n>> : i \in 1 .. k}
Taken(n) == \E m \in n + 1 .. Len(Files) : Wanted(m) /\ OutputName(Files[m]) = OutputName(Files[n])

Unread(n) == n \in ToSet(skipped) /\ LookupMayFail

GotAll ==
  /\ Flags.include = Unset => skipped = <<>> /\ \A n \in DOMAIN Files : Files[n].opens = "opens"
  /\ IF Flags.dryRun THEN disk = <<>>
     ELSE \A n \in DOMAIN Files :
            Wanted(n) /\ ~Taken(n) /\ ~Unread(n) =>
              disk[OutputName(Files[n])] = Written(n, Files[n].articles)

(* A name holds parts of one wanted file. *)
OfWanted ==
  \A name \in DOMAIN disk : \E n \in DOMAIN Files :
    /\ Wanted(n) /\ OutputName(Files[n]) = name
    /\ disk[name] \subseteq Written(n, Files[n].articles)

FoundAll ==
  \A n \in DOMAIN Files :
    LET last == Files[n].articles
        want == IF Sample = Unset \/ Sample > last THEN last ELSE Sample
    IN /\ asked[n] \subseteq Files[n].held
       /\ Cardinality(asked[n]) = want
       /\ want >= 1 => 1 \in asked[n]
       /\ want >= 2 => last \in asked[n]

DecodedUpTo(c) ==
  \A n \in 1 .. c :
    LET a == invocation.paths[n] IN \E m \in n .. c : <<a.begin, m>> \in disk[a.name]

Truth ==
  /\ invocation.name = "get" => GotAll
  /\ invocation.name = "stat" => FoundAll
  /\ invocation.name = "decode" => DecodedUpTo(Len(invocation.paths))

(* What a program leaves behind. *)
Left ==
  /\ sinks = {} \/ (exit = 1 /\ Flags.sparse /\ part = 0)
  /\ exit = 2 /\ invocation.name # "decode" =>
       disk = <<>> \/ (invocation.name = "get" /\ server.ttl # Unset /\ LookupMayFail)
  /\ invocation.name = "get" => OfWanted
  /\ exit = 0 /\ ~Flags.message => Truth

(* The program's place. *)
PlaceOK ==
  /\ stage \in {"idle", "parsing", "reading", "get", "downloading", "stat", "verify", "decoding",
                "leaving", "exited"}
  /\ stage # "idle" => invocation \in Invocations
  /\ stage = "reading" => invocation.name \in Connected
  /\ stage \in Connected => invocation.name = stage
  /\ stage = "downloading" => invocation.name = "get"
  /\ stage = "decoding" => invocation.name = "decode"
  /\ stage \in {"idle", "parsing", "reading"} =>
       cursor = 1 /\ chosen = <<>> /\ skipped = <<>> /\ asked = <<>>
  /\ stage \in {"reading", "stat"} /\ invocation.name = "stat" => ~SampleRefused
  /\ stage \in {"idle", "parsing", "reading", "get", "stat", "verify"} => disk = <<>> /\ sinks = {}
  /\ stage = "exited" => pool # "open"

LeavingOK == stage \in {"leaving", "exited"} => Left

(* get: of the files before c, those to write, in order. *)
SelectedUpTo(c) ==
  /\ chosen \in Seq(Nat) /\ skipped \in Seq(Nat)
  /\ \A i \in DOMAIN chosen : chosen[i] \in 1 .. c /\ Wanted(chosen[i])
  /\ \A i, j \in DOMAIN chosen : i < j => chosen[i] < chosen[j]
  /\ \A n \in 1 .. c : Wanted(n) => Unread(n) \/ \E i \in DOMAIN chosen : chosen[i] = n
  /\ chosen # <<>> => logins # {}
  /\ skipped = <<>> => \A n \in 1 .. c : Files[n].opens = "opens"

SelectingOK == stage = "get" => cursor \in 1 .. Len(Files) + 1 /\ SelectedUpTo(cursor - 1)

(* get: of the sinks opened so far, the last of each name has what was written. *)
Begun == IF sinks = {} THEN cursor - 1 ELSE cursor
PartsOf(j) == IF j = cursor THEN part ELSE Files[chosen[j]].articles

DownloadingOK ==
  stage = "downloading" =>
    /\ SelectedUpTo(Len(Files)) /\ chosen # <<>> /\ ~Flags.dryRun /\ OfWanted
    /\ cursor \in 1 .. Len(chosen) + 1
    /\ sinks # {} => cursor <= Len(chosen) /\ part \in 0 .. Files[chosen[cursor]].articles
    /\ \A j \in 1 .. Begun :
         /\ NameOf(j) \in DOMAIN disk
         /\ (\A k \in j + 1 .. Begun : NameOf(k) # NameOf(j)) =>
              disk[NameOf(j)] = Written(chosen[j], PartsOf(j))

AskingOK ==
  stage = "stat" =>
    /\ cursor \in 1 .. Len(Files) + 1
    /\ asked \in Seq(SUBSET Int) /\ Len(asked) = cursor - 1
    /\ \A n \in 1 .. cursor - 1 : asked[n] = Pick(Files[n].articles, Sample)

DecodingOK ==
  stage = "decoding" =>
    /\ cursor \in 1 .. Len(invocation.paths) + 1
    /\ \A n \in 1 .. cursor - 1 : invocation.paths[n].name \in sinks
    /\ sinks \subseteq DOMAIN disk
    /\ DecodedUpTo(cursor - 1)

ExitInv == PlaceOK /\ LeavingOK /\ SelectingOK /\ DownloadingOK /\ AskingOK /\ DecodingOK

-----------------------------------------------------------------------------
(* The sample of `stat`.                                                     *)

LEMMA Quotient ==
  ASSUME NEW a \in Nat, NEW d \in Nat \ {0}
  PROVE  /\ a \div d \in Nat
         /\ d * (a \div d) <= a /\ a < d * (a \div d) + d
OBVIOUS

LEMMA QuotientIs ==
  ASSUME NEW a \in Nat, NEW d \in Nat \ {0}, NEW m \in Nat, d * m <= a, a < d * m + d
  PROVE  a \div d = m
OBVIOUS

LEMMA Order ==
  ASSUME NEW x \in Nat, NEW y \in Nat, NEW d \in Nat, x <= y
  PROVE  d * x \in Nat /\ d * y \in Nat /\ d * x <= d * y
OBVIOUS

LEMMA QuotientGrows ==
  ASSUME NEW a \in Nat, NEW b \in Nat, NEW d \in Nat \ {0}, a + d <= b
  PROVE  a \div d < b \div d
<1> DEFINE x == a \div d
           y == b \div d
<1>1. /\ x \in Nat /\ y \in Nat
      /\ d * x <= a /\ a < d * x + d /\ d * y <= b /\ b < d * y + d
  BY Quotient
<1> HIDE DEF x, y
<1>2. ASSUME y <= x PROVE FALSE
  <2> DEFINE p == d * x
             q == d * y
  <2>1. p \in Nat /\ q \in Nat /\ q <= p
    BY <1>1, <1>2, Order
  <2>2. p <= a /\ b < q + d
    BY <1>1
  <2> HIDE DEF p, q
  <2> QED BY <2>1, <2>2
<1> QED BY <1>1, <1>2 DEF x, y

LEMMA RoundGrows ==
  ASSUME NEW p \in Nat, NEW r \in Nat, NEW q \in Nat \ {0}, p + q <= r
  PROVE  Round(p, q) \in Nat /\ Round(p, q) < Round(r, q)
<1> DEFINE a == 2 * p + q
           b == 2 * r + q
           d == 2 * q
<1>1. a \in Nat /\ b \in Nat /\ d \in Nat \ {0} /\ a + d <= b
  OBVIOUS
<1> HIDE DEF a, b, d
<1>2. a \div d \in Nat /\ a \div d < b \div d
  BY <1>1, Quotient, QuotientGrows
<1> QED BY <1>2 DEF a, b, d, Round

LEMMA RoundOfMultiple ==
  ASSUME NEW m \in Nat, NEW q \in Nat \ {0} PROVE Round(q * m, q) = m
<1> DEFINE p == q * m
           a == 2 * p + q
           d == 2 * q
<1>1. p \in Nat /\ d * m = 2 * p
  OBVIOUS
<1> HIDE DEF p
<1>2. d \in Nat \ {0} /\ a \in Nat /\ d * m <= a /\ a < d * m + d
  BY <1>1
<1> HIDE DEF a, d
<1>3. a \div d = m
  BY <1>2, QuotientIs
<1> QED BY <1>3 DEF a, d, p, Round

LEMMA Spaced ==
  ASSUME NEW i \in Nat, NEW j \in Nat, NEW m \in Nat, NEW q \in Nat, i < j, q <= m
  PROVE  i * m \in Nat /\ j * m \in Nat /\ i * m + q <= j * m
<1>1. i * m + m = (i + 1) * m /\ i * m \in Nat /\ j * m \in Nat
  OBVIOUS
<1>2. (i + 1) * m <= j * m
  OBVIOUS
<1> DEFINE a == i * m
           b == j * m
           c == (i + 1) * m
<1> HIDE DEF a, b, c
<1> QED BY <1>1, <1>2 DEF a, b, c

(* It is as many articles as were asked for, or all, the first and the last *)
(* among them.                                                              *)
LEMMA PickIsSpread ==
  ASSUME NEW n \in Nat, NEW sample \in Nat \cup {Unset}
  PROVE  LET want == IF sample = Unset \/ sample > n THEN n ELSE sample
         IN /\ Pick(n, sample) \subseteq Int
            /\ Cardinality(Pick(n, sample)) = want
            /\ want >= 1 => 1 \in Pick(n, sample)
            /\ want >= 2 => n \in Pick(n, sample)
<1> DEFINE want == IF sample = Unset \/ sample > n THEN n ELSE sample
<1>1. Unset \notin Int
  BY UnsetAssumption
<1>2. CASE sample = Unset \/ sample >= n
  <2>1. Pick(n, sample) = 1 .. n /\ want = n
    BY <1>1, <1>2 DEF Pick
  <2>2. Cardinality(1 .. n) = n
    BY FS_Interval
  <2> HIDE DEF want
  <2>3. want >= 1 => 1 \in 1 .. n
    BY <2>1
  <2>4. want >= 2 => n \in 1 .. n
    BY <2>1
  <2> QED BY <2>1, <2>2, <2>3, <2>4 DEF want
<1>3. CASE sample \in Nat /\ sample < n /\ sample <= 1
  <2>1. Pick(n, sample) = 1 .. sample /\ want = sample
    BY <1>1, <1>3 DEF Pick
  <2>2. Cardinality(1 .. sample) = sample
    BY <1>3, FS_Interval
  <2> QED BY <1>3, <2>1, <2>2
<1>4. CASE sample \in Nat /\ sample < n /\ sample > 1
  <2> DEFINE q == sample - 1
             m == n - 1
             S == 0 .. q
             f == [i \in S |-> 1 + Round(i * m, q)]
             P == Pick(n, sample)
  <2>1. P = {1 + Round(i * m, q) : i \in S} /\ want = sample
    <3>1. ~(sample = Unset \/ sample >= n) /\ ~(sample <= 1) /\ ~(sample > n)
      BY <1>1, <1>4
    <3>2. P = {1 + Round(i * m, q) : i \in S}
      BY <3>1, Zenon DEF Pick
    <3> QED BY <3>1, <3>2
  <2>2. q \in Nat \ {0} /\ m \in Nat /\ q <= m /\ sample = q + 1 /\ n = m + 1
    BY <1>4
  <2> HIDE DEF q, m, P, want
  <2>3. \A i \in S : i \in Nat
    BY <2>2
  <2>4. \A i, j \in S : i < j => Round(i * m, q) < Round(j * m, q)
    BY <2>2, <2>3, Spaced, RoundGrows
  <2>5. Round(q * m, q) = m /\ Round(0 * m, q) = 0
    <3>1. Round(q * 0, q) = 0 /\ q * 0 = 0 /\ 0 * m = 0
      BY <2>2, RoundOfMultiple
    <3> QED BY <2>2, <3>1, RoundOfMultiple
  <2>6. \A i \in S : Round(i * m, q) \in Int
    <3> SUFFICES ASSUME NEW i \in S PROVE Round(i * m, q) \in Int
      OBVIOUS
    <3>1. i * m \in Nat
      BY <2>2, <2>3
    <3> DEFINE a == 2 * (i * m) + q
               d == 2 * q
    <3>2. a \in Nat /\ d \in Nat \ {0}
      BY <2>2, <3>1
    <3> HIDE DEF a, d
    <3>3. a \div d \in Nat
      BY <3>2, Quotient
    <3> QED BY <3>3 DEF a, d, Round
  <2>7. P \subseteq Int
    BY <2>1, <2>6
  <2>8. \A i, j \in S : f[i] = f[j] => i = j
    <3> SUFFICES ASSUME NEW i \in S, NEW j \in S, i # j PROVE f[i] # f[j]
      OBVIOUS
    <3>1. i < j \/ j < i
      BY <2>3
    <3>2. Round(i * m, q) \in Int /\ Round(j * m, q) \in Int /\ Round(i * m, q) # Round(j * m, q)
      BY <2>4, <2>6, <3>1
    <3> QED BY <3>2
  <2>9. f \in [S -> P] /\ \A p \in P : \E i \in S : f[i] = p
    BY <2>1
  <2>10. f \in Bijection(S, P)
    <3> HIDE DEF S, f
    <3> QED BY <2>8, <2>9 DEF Bijection, Injection, Surjection, IsInjective
  <2>11. IsFiniteSet(S) /\ Cardinality(S) = sample
    BY <2>2, FS_Interval
  <2>12. Cardinality(P) = want
    <3>1. ExistsBijection(S, P)
      BY <2>10 DEF ExistsBijection
    <3> HIDE DEF S
    <3> QED BY <2>1, <2>11, <3>1, FS_Bijection
  <2>13. 1 \in P /\ n \in P
    <3>1. 0 \in S /\ q \in S
      BY <2>2
    <3>2. 1 + Round(0 * m, q) = 1 /\ 1 + Round(q * m, q) = n
      BY <2>2, <2>5
    <3> HIDE DEF S
    <3> QED BY <2>1, <3>1, <3>2
  <2> QED BY <2>7, <2>12, <2>13 DEF P, want
<1>5. sample = Unset \/ (sample \in Nat /\ (sample >= n \/ (sample < n /\ (sample <= 1 \/ sample > 1))))
  OBVIOUS
<1> QED BY <1>2, <1>3, <1>4, <1>5

-----------------------------------------------------------------------------
(* What was asked for does not change, and neither does what it means.       *)

LEMMA SameRequest ==
  ASSUME invocation' = invocation
  PROVE  /\ Flags' = Flags /\ Files' = Files /\ Sample' = Sample /\ SampleRefused' = SampleRefused
         /\ \A n : Wanted(n)' = Wanted(n) /\ Taken(n)' = Taken(n)
BY DEF Flags, Files, Sample, SampleRefused, Wanted, Taken, Matches

LEMMA SameMeans ==
  ASSUME invocation' = invocation, server' = server
  PROVE  LookupMayFail' = LookupMayFail
<1>1. \A sources, silent : Resolved(sources, silent)' = Resolved(sources, silent)
  BY DEF Resolved, Held, Secret, SelectInSeq
<1>2. \A silent : Username(silent)' = Username(silent)
  BY <1>1 DEF Username, Else
<1>3. \A silent : CanLogIn(silent)' = CanLogIn(silent)
  BY <1>1, <1>2 DEF CanLogIn, Password
<1>4. Silences' = Silences
  BY DEF Silences
<1> QED BY <1>3, <1>4 DEF LookupMayFail

LEMMA SameUnread ==
  ASSUME UNCHANGED <<invocation, server, skipped>>
  PROVE  \A n : Unread(n)' = Unread(n)
BY SameMeans DEF Unread, ToSet

LEMMA SameSelection ==
  ASSUME UNCHANGED <<invocation, server, chosen, skipped>>, logins # {} => logins' # {}
  PROVE  \A c : SelectedUpTo(c) => SelectedUpTo(c)'
BY SameRequest, SameUnread DEF SelectedUpTo

LEMMA SameDisk ==
  ASSUME UNCHANGED <<invocation, disk>>
  PROVE  OfWanted' = OfWanted
BY SameRequest DEF OfWanted, Written, OutputName

LEMMA SameTruth ==
  ASSUME UNCHANGED <<invocation, server, skipped, asked, disk>>
  PROVE  Truth' = Truth
<1>1. GotAll' = GotAll
  BY SameRequest, SameUnread DEF GotAll, Written, OutputName
<1>2. FoundAll' = FoundAll
  BY SameRequest DEF FoundAll
<1>3. \A c : DecodedUpTo(c)' = DecodedUpTo(c)
  BY DEF DecodedUpTo
<1> QED BY <1>1, <1>2, <1>3 DEF Truth

(* Whoever has logged in stays known to have. *)
LEMMA LogInsStay ==
  ASSUME LogsIn \/ logins' = logins
  PROVE  /\ logins # {} => logins' # {}
         /\ LogsIn => logins' # {}
BY DEF LogsIn

LEMMA Lists ==
  ASSUME PlaceOK, stage # "idle"
  PROVE  /\ Len(Files) \in Nat /\ DOMAIN Files = 1 .. Len(Files)
         /\ Len(invocation.paths) \in Nat /\ DOMAIN invocation.paths = 1 .. Len(invocation.paths)
         /\ \A n \in 1 .. Len(Files) : Files[n].articles \in Nat
         /\ Flags.sample \in Nat \cup {Unset, Bad}
<1>1. invocation \in Invocations
  BY DEF PlaceOK
<1> QED BY <1>1, InvocationsAssumption DEF Files, Flags

(* Once the program is leaving, all that counts is what it says and left. *)
LEMMA LeavesBehind ==
  ASSUME PlaceOK, invocation' = invocation, stage # "idle", stage' = "leaving", Left'
  PROVE  ExitInv'
<1>1. PlaceOK'
  BY DEF PlaceOK, Connected
<1>2. LeavingOK'
  BY DEF LeavingOK
<1> QED BY <1>1, <1>2 DEF ExitInv, SelectingOK, DownloadingOK, AskingOK, DecodingOK

LEMMA Leaves ==
  ASSUME PlaceOK, invocation' = invocation, stage # "idle", stage' = "leaving", sinks' = {},
         invocation.name # "decode" => disk' = <<>>,
         exit' = 0 /\ ~Flags.message => Truth'
  PROVE  ExitInv'
<1>1. Flags' = Flags
  BY SameRequest
<1>2. invocation.name = "get" => OfWanted'
  BY DEF OfWanted
<1>3. Left'
  BY <1>1, <1>2 DEF Left
<1> QED BY <1>3, LeavesBehind

-----------------------------------------------------------------------------
(* Up to the command. *)

LEMMA CliStarts == ASSUME CliInit PROVE ExitInv
<1>1. PlaceOK
  BY DEF CliInit, PlaceOK, Connected
<1> QED BY <1>1 DEF CliInit, ExitInv, LeavingOK, SelectingOK, DownloadingOK, AskingOK, DecodingOK

LEMMA InvokeExit == ASSUME ExitInv, Invoke PROVE ExitInv'
<1>1. /\ stage = "idle" /\ invocation' \in Invocations /\ stage' = "parsing"
      /\ UNCHANGED <<cursor, chosen, skipped, asked, disk, sinks>>
  BY DEF Invoke, getting
<1>2. PlaceOK'
  BY <1>1 DEF ExitInv, PlaceOK, Connected
<1> QED BY <1>1, <1>2 DEF ExitInv, LeavingOK, SelectingOK, DownloadingOK, AskingOK, DecodingOK

LEMMA ParseExit == ASSUME ExitInv, ParseCommandLine PROVE ExitInv'
<1>1. /\ PlaceOK /\ stage = "parsing" /\ invocation' = invocation
      /\ disk = <<>> /\ sinks = {} /\ cursor = 1 /\ chosen = <<>> /\ skipped = <<>> /\ asked = <<>>
      /\ UNCHANGED <<cursor, chosen, skipped, asked, disk, sinks>>
  BY DEF ParseCommandLine, ExitInv, PlaceOK, getting
<1>2. \/ Flags.known /\ Flags.message /\ Return(0)
      \/ Return(2)
      \/ invocation.name = "decode" /\ stage' = "decoding"
      \/ invocation.name \notin Connected \cup {"decode"} /\ (Return(0) \/ Return(2))
      \/ ~UsageRefused /\ invocation.name \in Connected /\ stage' = "reading"
  BY DEF ParseCommandLine
<1>3. CASE Flags.known /\ Flags.message /\ Return(0)
  BY <1>1, <1>3, Leaves DEF Return
<1>4. CASE Return(2)
  BY <1>1, <1>4, Leaves DEF Return
<1>5. CASE invocation.name \notin Connected \cup {"decode"} /\ (Return(0) \/ Return(2))
  <2>1. Truth'
    BY <1>1, <1>5 DEF Truth, Connected
  <2> QED BY <1>1, <1>5, <2>1, Leaves DEF Return
<1>6. CASE invocation.name = "decode" /\ stage' = "decoding"
  <2>1. PlaceOK'
    BY <1>1, <1>6 DEF PlaceOK, Connected
  <2>2. DecodingOK'
    <3>1. Len(invocation.paths) \in Nat
      BY <1>1, Lists
    <3>2. cursor' \in 1 .. Len(invocation'.paths) + 1 /\ 1 .. cursor' - 1 = {}
      BY <1>1, <3>1
    <3>3. DecodedUpTo(cursor - 1)'
      BY <3>2 DEF DecodedUpTo
    <3> QED BY <1>1, <3>2, <3>3 DEF DecodingOK
  <2> QED BY <1>6, <2>1, <2>2 DEF ExitInv, LeavingOK, SelectingOK, DownloadingOK, AskingOK
<1>7. CASE ~UsageRefused /\ invocation.name \in Connected /\ stage' = "reading"
  <2>1. invocation.name = "stat" => ~SampleRefused
    BY <1>7, Zenon DEF UsageRefused
  <2>2. PlaceOK'
    BY <1>1, <1>7, <2>1, SameRequest DEF PlaceOK, Connected
  <2> QED BY <1>7, <2>2 DEF ExitInv, LeavingOK, SelectingOK, DownloadingOK, AskingOK, DecodingOK
<1> QED BY <1>2, <1>3, <1>4, <1>5, <1>6, <1>7

LEMMA ReadNzbExit == ASSUME ExitInv, ReadNzb PROVE ExitInv'
<1>1. /\ PlaceOK /\ stage = "reading" /\ invocation' = invocation /\ invocation.name \in Connected
      /\ disk = <<>> /\ sinks = {} /\ cursor = 1 /\ chosen = <<>> /\ skipped = <<>> /\ asked = <<>>
      /\ UNCHANGED <<cursor, chosen, skipped, asked, disk, sinks>>
  BY DEF ReadNzb, ExitInv, PlaceOK, getting
<1>2. CASE Return(2)
  BY <1>1, <1>2, Leaves DEF Return
<1>3. CASE stage' = invocation.name
  <2>1. PlaceOK'
    BY <1>1, <1>3, SameRequest DEF PlaceOK, Connected
  <2>2. /\ cursor' \in 1 .. Len(Files') + 1 /\ 1 .. cursor' - 1 = {}
        /\ cursor' - 1 = 0
    <3>1. Len(Files) \in Nat /\ Files' = Files
      BY <1>1, Lists, SameRequest
    <3> QED BY <1>1, <3>1
  <2>3. SelectingOK'
    <3>1. chosen' = <<>> /\ skipped' = <<>> /\ DOMAIN chosen' = {}
      BY <1>1
    <3>2. SelectedUpTo(cursor - 1)'
      BY <2>2, <3>1, EmptySeq DEF SelectedUpTo
    <3> QED BY <2>2, <3>2 DEF SelectingOK
  <2>4. AskingOK'
    <3>1. asked' = <<>> /\ Len(asked') = 0 /\ asked' \in Seq(SUBSET Int)
      BY <1>1, EmptySeq
    <3> QED BY <2>2, <3>1 DEF AskingOK
  <2> QED BY <1>1, <1>3, <2>1, <2>3, <2>4 DEF ExitInv, LeavingOK, DownloadingOK, DecodingOK, Connected
<1> QED BY <1>2, <1>3 DEF ReadNzb

LEMMA FinallyExit == ASSUME ExitInv, Finally PROVE ExitInv'
<1>1. /\ PlaceOK /\ LeavingOK /\ stage = "leaving" /\ stage' = "exited" /\ pool' # "open"
      /\ UNCHANGED <<invocation, server, skipped, part, asked, disk, sinks, exit>>
  BY DEF Finally, ExitInv, getting
<1>2. PlaceOK'
  BY <1>1 DEF PlaceOK, Connected
<1>3. Left' = Left
  BY <1>1, SameTruth, SameRequest, SameMeans, SameDisk DEF Left
<1>4. LeavingOK'
  BY <1>1, <1>3 DEF LeavingOK
<1> QED BY <1>1, <1>2, <1>4 DEF ExitInv, SelectingOK, DownloadingOK, AskingOK, DecodingOK

-----------------------------------------------------------------------------
(* get: what is selected.                                                    *)

LEMMA ProbeExit == ASSUME ExitInv, Probe PROVE ExitInv'
<1> DEFINE f == Files[cursor]
<1>1. /\ PlaceOK /\ SelectedUpTo(cursor - 1) /\ cursor \in 1 .. Len(Files) + 1
      /\ stage = "get" /\ invocation.name = "get" /\ cursor <= Len(Files)
      /\ disk = <<>> /\ sinks = {} /\ UNCHANGED <<invocation, server, asked, disk, sinks>>
  BY DEF Probe, ExitInv, PlaceOK, SelectingOK, Connected
<1>2. Len(Files) \in Nat /\ Files' = Files
  BY <1>1, Lists, SameRequest
<1>3. CASE Return(1)
  BY <1>1, <1>3, Leaves DEF Return
<1>4. ASSUME cursor' = cursor + 1, stage' = stage,
             LogsIn \/ logins' = logins,
             \/ /\ LogsIn /\ f.opens = "opens" /\ skipped' = skipped
                /\ chosen' = IF Wanted(cursor) THEN Append(chosen, cursor) ELSE chosen
             \/ /\ LookupMayFail \/ f.opens # "opens"
                /\ chosen' = chosen /\ skipped' = Append(skipped, cursor)
      PROVE  ExitInv'
  <2>1. cursor' \in 1 .. Len(Files) + 1 /\ cursor' - 1 = cursor /\ cursor \in Nat /\ cursor - 1 \in Nat
    BY <1>1, <1>2, <1>4
  <2>2. chosen \in Seq(Nat) /\ skipped \in Seq(Nat)
    BY <1>1 DEF SelectedUpTo
  <2>3. \A n \in 1 .. cursor : n \in 1 .. cursor - 1 \/ n = cursor
    BY <2>1
  <2>4. \A n \in 1 .. cursor - 1 : n \in 1 .. cursor /\ n < cursor
    BY <2>1
  <2> DEFINE Lists0 == chosen' \in Seq(Nat) /\ skipped' \in Seq(Nat)
             Chosen0 == \A i \in DOMAIN chosen' : chosen'[i] \in 1 .. cursor /\ Wanted(chosen'[i])
             Order0 == \A i, j \in DOMAIN chosen' : i < j => chosen'[i] < chosen'[j]
             Missed(n) == n \in ToSet(skipped') /\ LookupMayFail
             All0 == \A n \in 1 .. cursor : Wanted(n) =>
                       Missed(n) \/ \E i \in DOMAIN chosen' : chosen'[i] = n
             Login0 == chosen' # <<>> => logins' # {}
             Skipped0 == skipped' = <<>> => \A n \in 1 .. cursor : Files[n].opens = "opens"
             Selects == Lists0 /\ Chosen0 /\ Order0 /\ All0 /\ Login0 /\ Skipped0
  <2>0. /\ \A i \in DOMAIN chosen : chosen[i] \in 1 .. cursor - 1 /\ Wanted(chosen[i])
        /\ \A i, j \in DOMAIN chosen : i < j => chosen[i] < chosen[j]
        /\ \A n \in 1 .. cursor - 1 : Wanted(n) =>
             Unread(n) \/ \E i \in DOMAIN chosen : chosen[i] = n
        /\ chosen # <<>> => logins # {}
        /\ skipped = <<>> => \A n \in 1 .. cursor - 1 : Files[n].opens = "opens"
    BY <1>1 DEF SelectedUpTo
  <2>5. ASSUME LogsIn, f.opens = "opens", skipped' = skipped, Wanted(cursor),
               chosen' = Append(chosen, cursor)
        PROVE  Selects
    <3> DEFINE L == Len(chosen)
    <3>1. /\ L \in Nat /\ DOMAIN chosen = 1 .. L /\ chosen' \in Seq(Nat) /\ DOMAIN chosen' = 1 .. L + 1
          /\ chosen'[L + 1] = cursor /\ \A i \in 1 .. L : chosen'[i] = chosen[i]
      BY <2>1, <2>2, <2>5, AppendProperties, LenProperties
    <3> HIDE DEF L
    <3>2. \A i \in 1 .. L + 1 : i \in 1 .. L \/ i = L + 1
      BY <3>1
    <3>3. L + 1 \in 1 .. L + 1 /\ \A i \in 1 .. L : i \in 1 .. L + 1 /\ i < L + 1 /\ ~(L + 1 < i)
      BY <3>1
    <3>4. \A i \in 1 .. L : chosen[i] \in 1 .. cursor - 1 /\ Wanted(chosen[i])
      BY <2>0, <3>1
    <3>5. \A i \in DOMAIN chosen' : chosen'[i] \in 1 .. cursor /\ Wanted(chosen'[i])
      BY <2>1, <2>4, <2>5, <3>1, <3>2, <3>4
    <3>6. \A i, j \in DOMAIN chosen' : i < j => chosen'[i] < chosen'[j]
      <4> SUFFICES ASSUME NEW i \in DOMAIN chosen', NEW j \in DOMAIN chosen', i < j
                   PROVE  chosen'[i] < chosen'[j]
        OBVIOUS
      <4>1. CASE i \in 1 .. L /\ j \in 1 .. L
        BY <2>0, <3>1, <4>1
      <4>2. CASE i \in 1 .. L /\ j = L + 1
        BY <2>4, <3>1, <3>4, <4>2
      <4>3. i # L + 1
        BY <3>1
      <4> QED BY <3>1, <3>2, <4>1, <4>2, <4>3
    <3>7. \A n \in 1 .. cursor - 1 : Wanted(n) => Missed(n) \/ \E i \in 1 .. L : chosen[i] = n
      BY <2>0, <2>5, <3>1 DEF Unread
    <3> HIDE DEF Missed
    <3>8. \A n \in 1 .. cursor : Wanted(n) => Missed(n) \/ \E i \in DOMAIN chosen' : chosen'[i] = n
      BY <2>3, <3>1, <3>3, <3>7
    <3>9. Lists0
      BY <2>2, <2>5, <3>1
    <3>10. Skipped0
      BY <2>0, <2>3, <2>5
    <3>11. Login0
      BY <2>5, LogInsStay
    <3> HIDE DEF Lists0, Chosen0, Order0, All0, Login0, Skipped0
    <3> QED BY <3>5, <3>6, <3>8, <3>9, <3>10, <3>11 DEF Chosen0, Order0, All0
  <2>6. ASSUME skipped' = skipped, ~Wanted(cursor), chosen' = chosen, LogsIn, f.opens = "opens"
        PROVE  Selects
    <3>1. Lists0 /\ Order0 /\ Login0
      BY <2>0, <2>2, <2>6, LogInsStay
    <3>2. Chosen0
      BY <2>0, <2>4, <2>6
    <3>3. All0
      BY <2>0, <2>3, <2>6 DEF Unread
    <3>4. Skipped0
      BY <2>0, <2>3, <2>6
    <3> HIDE DEF Lists0, Chosen0, Order0, All0, Login0, Skipped0
    <3> QED BY <3>1, <3>2, <3>3, <3>4
  <2>7. ASSUME LookupMayFail \/ f.opens # "opens", chosen' = chosen,
               skipped' = Append(skipped, cursor)
        PROVE  Selects
    <3>1. skipped' \in Seq(Nat) /\ skipped' # <<>>
      BY <2>1, <2>2, <2>7, AppendProperties
    <3>2. Lists0 /\ Order0 /\ Login0 /\ Skipped0
      BY <1>4, <2>0, <2>2, <2>7, <3>1, LogInsStay
    <3>3. Chosen0
      BY <2>0, <2>4, <2>7
    <3>4. cursor \in ToSet(skipped') /\ ToSet(skipped) \subseteq ToSet(skipped')
      <4> DEFINE L == Len(skipped)
      <4>1. /\ L \in Nat /\ DOMAIN skipped = 1 .. L /\ DOMAIN skipped' = 1 .. L + 1
            /\ skipped'[L + 1] = cursor /\ \A i \in 1 .. L : skipped'[i] = skipped[i]
        BY <2>1, <2>2, <2>7, AppendProperties, LenProperties
      <4> HIDE DEF L
      <4>2. L + 1 \in 1 .. L + 1 /\ \A i \in 1 .. L : i \in 1 .. L + 1
        BY <4>1
      <4> QED BY <4>1, <4>2 DEF ToSet
    <3>5. Wanted(cursor) => Missed(cursor)
      BY <2>7, <3>4 DEF Wanted
    <3>6. \A n : Unread(n) => Missed(n)
      BY <3>4 DEF Unread
    <3>7. All0
      <4> HIDE DEF Missed
      <4> QED BY <2>0, <2>3, <2>7, <3>5, <3>6
    <3> HIDE DEF Lists0, Chosen0, Order0, All0, Login0, Skipped0
    <3> QED BY <3>2, <3>3, <3>7
  <2> HIDE DEF Selects
  <2>8. Selects
    BY <1>4, <2>5, <2>6, <2>7
  <2>11. SelectedUpTo(cursor - 1)'
    <3>1. (\A n : Wanted(n)' = Wanted(n)) /\ \A n : Unread(n)' = Missed(n)
      BY <1>1, SameRequest, SameMeans DEF Unread
    <3> HIDE DEF Missed
    <3> QED BY <1>2, <2>1, <2>8, <3>1 DEF SelectedUpTo, Selects
  <2>12. PlaceOK'
    BY <1>1, <1>4 DEF PlaceOK, Connected
  <2>13. SelectingOK'
    BY <1>2, <2>1, <2>11 DEF SelectingOK
  <2> QED BY <1>1, <1>4, <2>12, <2>13 DEF ExitInv, LeavingOK, DownloadingOK, AskingOK, DecodingOK
<1>5. Return(1) \/ (cursor' = cursor + 1 /\ stage' = stage)
  BY DEF Probe
<1>6. ASSUME cursor' = cursor + 1, stage' = stage PROVE ExitInv'
  <2>1. ~Return(1)
    BY <1>1, <1>6 DEF Return
  <2>2. \/ /\ LogsIn /\ f.opens = "opens" /\ skipped' = skipped
           /\ chosen' = IF Wanted(cursor) THEN Append(chosen, cursor) ELSE chosen
        \/ /\ LookupMayFail \/ f.opens # "opens"
           /\ chosen' = chosen /\ skipped' = Append(skipped, cursor)
    BY <2>1 DEF Probe, Wanted, LogInFails
  <2>3. LogsIn \/ logins' = logins
    BY DEF Probe, LogInFails
  <2> QED BY <1>4, <1>6, <2>2, <2>3
<1> QED BY <1>3, <1>5, <1>6

LEMMA SelectedExit == ASSUME ExitInv, Selected PROVE ExitInv'
<1>1. /\ PlaceOK /\ SelectedUpTo(cursor - 1) /\ cursor \in 1 .. Len(Files) + 1
      /\ stage = "get" /\ invocation.name = "get" /\ cursor > Len(Files)
      /\ disk = <<>> /\ sinks = {} /\ cursor' = 1
      /\ UNCHANGED <<invocation, server, logins, chosen, skipped, asked, disk, sinks>>
  BY DEF Selected, ExitInv, PlaceOK, SelectingOK, Connected, getting
<1>2. Len(Files) \in Nat /\ DOMAIN Files = 1 .. Len(Files) /\ Files' = Files /\ Flags' = Flags
  BY <1>1, Lists, SameRequest
<1>3. cursor - 1 = Len(Files) /\ SelectedUpTo(Len(Files))
  <2>1. cursor - 1 = Len(Files)
    BY <1>1, <1>2
  <2> QED BY <1>1, <2>1
<1>4. CASE Return(2)
  BY <1>1, <1>4, Leaves DEF Return
<1>5. CASE Flags.dryRun /\ Return(IF Failing THEN 1 ELSE 0)
  <2>1. exit' = 0 => GotAll
    <3> SUFFICES ASSUME exit' = 0 PROVE GotAll
      OBVIOUS
    <3>1. ~Failing
      BY <1>5 DEF Return
    <3>2. Flags.include = Unset =>
            skipped = <<>> /\ \A n \in DOMAIN Files : Files[n].opens = "opens"
      BY <1>2, <1>3, <3>1 DEF Failing, SelectedUpTo
    <3> QED BY <1>1, <1>5, <3>2 DEF GotAll
  <2>2. exit' = 0 => Truth'
    BY <1>1, <2>1, SameTruth DEF Truth
  <2>3. exit' # 2
    BY <1>5 DEF Return
  <2> QED BY <1>1, <1>5, <2>2, <2>3, Leaves DEF Return
<1>6. CASE chosen # <<>> /\ ~Flags.dryRun /\ stage' = "downloading"
  <2>1. PlaceOK'
    BY <1>1, <1>6 DEF PlaceOK, Connected
  <2>2. Len(chosen) \in Nat /\ Len(chosen) # 0
    <3>1. chosen \in Seq(Nat)
      BY <1>1 DEF SelectedUpTo
    <3> QED BY <1>6, <3>1, EmptySeq, LenProperties
  <2>3. SelectedUpTo(Len(Files))'
    BY <1>1, <1>2, <1>3, SameSelection
  <2>4. Begun' = 0
    BY <1>1 DEF Begun
  <2>5. DownloadingOK'
    <3>1. 1 .. Begun' = {}
      BY <2>4
    <3>2. OfWanted'
      BY <1>1 DEF OfWanted
    <3> QED BY <1>1, <1>2, <1>6, <2>2, <2>3, <3>1, <3>2 DEF DownloadingOK
  <2> QED BY <1>6, <2>1, <2>5 DEF ExitInv, LeavingOK, SelectingOK, AskingOK, DecodingOK, Connected
<1> QED BY <1>4, <1>5, <1>6 DEF Selected

-----------------------------------------------------------------------------
(* get: what is written.                                                     *)

LEMMA PartsAre == ASSUME NEW n, NEW k \in Nat PROVE Written(n, k + 1) = Written(n, k) \cup {<<k + 1, n>>}
<1>1. 1 .. k + 1 = 1 .. k \cup {k + 1}
  OBVIOUS
<1> QED BY <1>1 DEF Written

LEMMA NoParts == ASSUME NEW n PROVE Written(n, 0) = {}
<1>1. 1 .. 0 = {}
  OBVIOUS
<1> QED BY <1>1 DEF Written

(* What every step of the loop finds. *)
LEMMA Downloads ==
  ASSUME ExitInv, stage = "downloading"
  PROVE  /\ PlaceOK /\ SelectedUpTo(Len(Files)) /\ chosen # <<>> /\ ~Flags.dryRun
         /\ invocation.name = "get" /\ OfWanted /\ logins # {}
         /\ Len(chosen) \in Nat /\ DOMAIN chosen = 1 .. Len(chosen) /\ cursor \in 1 .. Len(chosen) + 1
         /\ \A j \in 1 .. Len(chosen) : chosen[j] \in 1 .. Len(Files) /\ Files[chosen[j]].articles \in Nat
         /\ sinks # {} => cursor \in 1 .. Len(chosen) /\ part \in 0 .. Files[chosen[cursor]].articles
         /\ \A j \in 1 .. Begun :
              /\ NameOf(j) \in DOMAIN disk
              /\ (\A k \in j + 1 .. Begun : NameOf(k) # NameOf(j)) =>
                   disk[NameOf(j)] = Written(chosen[j], PartsOf(j))
<1>1. PlaceOK /\ DownloadingOK
  BY DEF ExitInv
<1>2. /\ SelectedUpTo(Len(Files)) /\ chosen # <<>> /\ ~Flags.dryRun /\ OfWanted
      /\ cursor \in 1 .. Len(chosen) + 1 /\ logins # {}
  BY <1>1 DEF DownloadingOK, SelectedUpTo
<1>3. Len(chosen) \in Nat /\ DOMAIN chosen = 1 .. Len(chosen)
  <2>1. chosen \in Seq(Nat)
    BY <1>2 DEF SelectedUpTo
  <2> QED BY <2>1, LenProperties
<1>4. \A j \in 1 .. Len(chosen) : chosen[j] \in 1 .. Len(Files) /\ Files[chosen[j]].articles \in Nat
  BY <1>1, <1>2, <1>3, Lists DEF SelectedUpTo
<1>5. sinks # {} => cursor \in 1 .. Len(chosen) /\ part \in 0 .. Files[chosen[cursor]].articles
  BY <1>1, <1>2, <1>3 DEF DownloadingOK
<1>6. invocation.name = "get"
  BY <1>1 DEF PlaceOK
<1> QED BY <1>1, <1>2, <1>3, <1>4, <1>5, <1>6 DEF DownloadingOK

LEMMA SameNames ==
  ASSUME UNCHANGED <<invocation, chosen>>
  PROVE  \A j : NameOf(j)' = NameOf(j) /\ Files[chosen[j]]' = Files[chosen[j]]
BY SameRequest DEF NameOf, OutputName

(* The rest of the invariant is not about this stage. *)
LEMMA StillDownloads ==
  ASSUME ExitInv, stage = "downloading", stage' = "downloading",
         UNCHANGED <<invocation, server, chosen, skipped>>, LogsIn \/ logins' = logins, OfWanted',
         cursor' \in 1 .. Len(chosen) + 1,
         sinks' # {} => cursor' <= Len(chosen) /\ part' \in 0 .. Files[chosen[cursor']].articles,
         \A j \in 1 .. Begun' :
           /\ NameOf(j) \in DOMAIN disk'
           /\ (\A k \in j + 1 .. Begun' : NameOf(k) # NameOf(j)) =>
                disk'[NameOf(j)] = Written(chosen[j], PartsOf(j)')
  PROVE  ExitInv'
<1>1. PlaceOK /\ SelectedUpTo(Len(Files)) /\ chosen # <<>> /\ ~Flags.dryRun
  BY Downloads
<1>2. PlaceOK'
  BY <1>1 DEF PlaceOK, Connected
<1>3. DownloadingOK'
  <2>1. SelectedUpTo(Len(Files))' /\ Flags' = Flags /\ Files' = Files
    BY <1>1, SameSelection, SameRequest, LogInsStay
  <2>2. \A j : NameOf(j)' = NameOf(j)
    BY SameNames
  <2>3. \A n, k : Written(n, k)' = Written(n, k)
    BY DEF Written
  <2> QED BY <1>1, <2>1, <2>2, <2>3 DEF DownloadingOK
<1> QED BY <1>2, <1>3 DEF ExitInv, LeavingOK, SelectingOK, AskingOK, DecodingOK, Connected

(* A file that is wanted may get more of itself, or be begun anew. *)
LEMMA MoreOfWanted ==
  ASSUME ExitInv, stage = "downloading", UNCHANGED <<invocation, chosen>>,
         cursor \in 1 .. Len(chosen),
         DOMAIN disk' = DOMAIN disk \cup {NameOf(cursor)},
         \A m \in DOMAIN disk : m # NameOf(cursor) => disk'[m] = disk[m],
         disk'[NameOf(cursor)] \subseteq Written(chosen[cursor], Files[chosen[cursor]].articles)
  PROVE  OfWanted'
<1>1. /\ OfWanted /\ Wanted(chosen[cursor]) /\ chosen[cursor] \in DOMAIN Files
  <2>1. PlaceOK /\ SelectedUpTo(Len(Files)) /\ DOMAIN chosen = 1 .. Len(chosen) /\ OfWanted
    BY Downloads
  <2>2. DOMAIN Files = 1 .. Len(Files)
    BY <2>1, Lists
  <2> QED BY <2>1, <2>2 DEF SelectedUpTo
<1>2. /\ Files' = Files /\ (\A n : Wanted(n)' = Wanted(n))
      /\ (\A n, k : Written(n, k)' = Written(n, k))
      /\ \A f : OutputName(f)' = OutputName(f)
  BY SameRequest DEF Written, OutputName
<1>3. ASSUME NEW name \in DOMAIN disk'
      PROVE  \E n \in DOMAIN Files :
               /\ Wanted(n) /\ OutputName(Files[n]) = name
               /\ disk'[name] \subseteq Written(n, Files[n].articles)
  <2>1. CASE name = NameOf(cursor)
    BY <1>1, <2>1 DEF NameOf
  <2>2. CASE name # NameOf(cursor)
    BY <1>1, <1>3, <2>2 DEF OfWanted
  <2> QED BY <2>1, <2>2
<1> QED BY <1>2, <1>3 DEF OfWanted

LEMMA SinkOpens ==
  ASSUME ExitInv, OpenSink, disk' = Truncated(NameOf(cursor)) PROVE OfWanted'
<1>1. /\ stage = "downloading" /\ cursor <= Len(chosen) /\ UNCHANGED <<invocation, chosen>>
  BY DEF OpenSink
<1>2. cursor \in 1 .. Len(chosen)
  BY <1>1, Downloads
<1> DEFINE name == NameOf(cursor)
<1>3. /\ DOMAIN disk' = DOMAIN disk \cup {name} /\ disk'[name] = {}
      /\ \A n \in DOMAIN disk : n # name => disk'[n] = disk[n]
  BY DEF Truncated
<1> QED BY <1>1, <1>2, <1>3, MoreOfWanted

LEMMA SinkFails == ASSUME ExitInv, OpenSink, Return(1) PROVE ExitInv'
<1>1. /\ stage = "downloading" /\ sinks = {} /\ part' = 0
      /\ UNCHANGED <<invocation, server>> /\ stage' = "leaving" /\ exit' = 1
  BY DEF OpenSink, Return
<1>2. \/ UNCHANGED <<disk, sinks>>
      \/ disk' = Truncated(NameOf(cursor)) /\ Flags.sparse
  BY <1>1 DEF OpenSink, NameOf, Return
<1>3. OfWanted'
  <2>1. CASE UNCHANGED disk
    BY <1>1, <2>1, SameDisk, Downloads
  <2>2. CASE disk' = Truncated(NameOf(cursor))
    BY <2>2, SinkOpens
  <2> QED BY <1>2, <2>1, <2>2
<1>4. sinks' = {} \/ Flags'.sparse
  BY <1>1, <1>2, SameRequest
<1>5. Left'
  BY <1>1, <1>3, <1>4 DEF Left
<1> QED BY <1>1, <1>5, Downloads, LeavesBehind

LEMMA OpenSinkExit == ASSUME ExitInv, OpenSink PROVE ExitInv'
<1> SUFFICES ASSUME ~Return(1) PROVE ExitInv'
  BY SinkFails
<1> DEFINE name == NameOf(cursor)
<1>1. /\ stage = "downloading" /\ stage' = "downloading" /\ sinks = {} /\ cursor <= Len(chosen)
      /\ disk' = Truncated(name) /\ sinks' = {name} /\ part' = 0 /\ cursor' = cursor
      /\ UNCHANGED <<invocation, server, logins, chosen, skipped>>
  BY DEF OpenSink, NameOf
<1>2. /\ cursor \in 1 .. Len(chosen) /\ Len(chosen) \in Nat
      /\ Files[chosen[cursor]].articles \in Nat
      /\ Begun = cursor - 1 /\ Begun' = cursor
  <2>1. cursor \in 1 .. Len(chosen) /\ Len(chosen) \in Nat
    BY <1>1, Downloads
  <2> QED BY <1>1, <2>1, Downloads DEF Begun
<1>3. /\ DOMAIN disk' = DOMAIN disk \cup {name} /\ disk'[name] = {}
      /\ \A n \in DOMAIN disk : n # name => disk'[n] = disk[n]
  BY <1>1 DEF Truncated
<1>4. \A j \in 1 .. cursor - 1 :
        /\ NameOf(j) \in DOMAIN disk
        /\ (\A k \in j + 1 .. cursor - 1 : NameOf(k) # NameOf(j)) =>
             disk[NameOf(j)] = Written(chosen[j], PartsOf(j))
  BY <1>1, <1>2, Downloads
<1>5. ASSUME NEW j \in 1 .. cursor
      PROVE  /\ NameOf(j) \in DOMAIN disk'
             /\ (\A k \in j + 1 .. cursor : NameOf(k) # NameOf(j)) =>
                  disk'[NameOf(j)] = Written(chosen[j], PartsOf(j)')
  <2>1. CASE j = cursor
    BY <1>1, <1>3, <2>1, NoParts DEF PartsOf
  <2>2. CASE j \in 1 .. cursor - 1
    <3>1. j # cursor /\ cursor \in j + 1 .. cursor /\ \A k \in j + 1 .. cursor - 1 : k \in j + 1 .. cursor
      BY <1>2, <2>2
    <3>2. PartsOf(j)' = PartsOf(j)
      BY <1>1, <3>1, SameNames DEF PartsOf
    <3> HIDE DEF name
    <3>3. ASSUME \A k \in j + 1 .. cursor : NameOf(k) # NameOf(j)
          PROVE  NameOf(j) # name /\ disk[NameOf(j)] = Written(chosen[j], PartsOf(j))
      BY <1>4, <2>2, <3>1, <3>3 DEF name
    <3> QED BY <1>3, <1>4, <2>2, <3>2, <3>3
  <2> QED BY <1>2, <2>1, <2>2
<1> HIDE DEF name
<1>6. cursor' \in 1 .. Len(chosen) + 1 /\ part' \in 0 .. Files[chosen[cursor']].articles
  BY <1>1, <1>2
<1>7. \A j \in 1 .. Begun' :
        /\ NameOf(j) \in DOMAIN disk'
        /\ (\A k \in j + 1 .. Begun' : NameOf(k) # NameOf(j)) =>
             disk'[NameOf(j)] = Written(chosen[j], PartsOf(j)')
  BY <1>2, <1>5
<1>8. OfWanted'
  BY <1>1, SinkOpens DEF name
<1> QED BY <1>1, <1>6, <1>7, <1>8, StillDownloads

LEMMA DownloadExit == ASSUME ExitInv, Download PROVE ExitInv'
<1> DEFINE name == NameOf(cursor)
           n == chosen[cursor]
<1>1. /\ stage = "downloading" /\ sinks # {} /\ part < Files[n].articles
      /\ part' = part + 1 /\ cursor' = cursor
      /\ UNCHANGED <<invocation, server, chosen, skipped>> /\ (LogsIn \/ logins' = logins)
  BY DEF Download, Fetches, LogInFails
<1>2. CASE (Return(1) \/ (Return(2) /\ LogInFails)) /\ sinks' = {} /\ UNCHANGED disk
  <2>1. OfWanted' /\ invocation.name = "get" /\ logins # {} /\ PlaceOK
    BY <1>1, <1>2, Downloads, SameDisk
  <2>2. exit' = 2 => server.ttl # Unset /\ LookupMayFail
    BY <1>2, <2>1 DEF Return, LogInFails, MayAsk
  <2>3. LookupMayFail' = LookupMayFail /\ stage' = "leaving" /\ exit' \in {1, 2}
    BY <1>1, <1>2, SameMeans DEF Return
  <2>4. Left'
    BY <1>1, <1>2, <2>1, <2>2, <2>3 DEF Left
  <2> QED BY <1>1, <2>1, <2>3, <2>4, LeavesBehind
<1>3. CASE /\ disk' = [disk EXCEPT ![name] = @ \cup {<<part', n>>}]
           /\ UNCHANGED <<stage, exit, sinks>>
  <2>1. /\ cursor \in 1 .. Len(chosen) /\ Len(chosen) \in Nat /\ part \in Nat
        /\ Files[n].articles \in Nat /\ part' \in 0 .. Files[n].articles
        /\ Begun = cursor /\ Begun' = cursor
    <3>1. cursor \in 1 .. Len(chosen) /\ Len(chosen) \in Nat
      BY <1>1, Downloads
    <3>2. Files[n].articles \in Nat /\ part \in 0 .. Files[n].articles
      BY <1>1, <3>1, Downloads
    <3> QED BY <1>1, <1>3, <3>1, <3>2 DEF Begun
  <2>2. \A j \in 1 .. cursor :
          /\ NameOf(j) \in DOMAIN disk
          /\ (\A k \in j + 1 .. cursor : NameOf(k) # NameOf(j)) =>
               disk[NameOf(j)] = Written(chosen[j], PartsOf(j))
    BY <1>1, <2>1, Downloads
  <2>3. /\ name \in DOMAIN disk /\ DOMAIN disk' = DOMAIN disk
        /\ disk'[name] = disk[name] \cup {<<part', n>>}
        /\ \A m \in DOMAIN disk : m # name => disk'[m] = disk[m]
    <3>1. name \in DOMAIN disk
      BY <2>1, <2>2
    <3> HIDE DEF name, n
    <3> QED BY <1>3, <3>1
  <2>4. ASSUME NEW j \in 1 .. cursor
        PROVE  /\ NameOf(j) \in DOMAIN disk'
               /\ (\A k \in j + 1 .. cursor : NameOf(k) # NameOf(j)) =>
                    disk'[NameOf(j)] = Written(chosen[j], PartsOf(j)')
    <3>1. CASE j = cursor
      <4>1. j + 1 .. cursor = {} /\ PartsOf(j) = part /\ PartsOf(j)' = part + 1
        BY <1>1, <2>1, <3>1 DEF PartsOf
      <4>2. disk[name] = Written(n, part)
        BY <2>2, <3>1, <4>1
      <4>3. disk'[name] = Written(n, part + 1)
        BY <1>1, <2>1, <2>3, <4>2, PartsAre
      <4> QED BY <2>2, <2>3, <3>1, <4>1, <4>3
    <3>2. CASE j # cursor
      <4>1. cursor \in j + 1 .. cursor
        BY <2>1, <3>2
      <4>2. PartsOf(j)' = PartsOf(j)
        BY <1>1, <3>2, SameNames DEF PartsOf
      <4>3. (\A k \in j + 1 .. cursor : NameOf(k) # NameOf(j)) => NameOf(j) # name
        BY <4>1
      <4> HIDE DEF name
      <4> QED BY <2>2, <2>3, <4>2, <4>3
    <3> QED BY <3>1, <3>2
  <2>5. cursor' \in 1 .. Len(chosen) + 1 /\ cursor' <= Len(chosen)
    BY <1>1, <2>1
  <2>6. \A j \in 1 .. Begun' :
          /\ NameOf(j) \in DOMAIN disk'
          /\ (\A k \in j + 1 .. Begun' : NameOf(k) # NameOf(j)) =>
               disk'[NameOf(j)] = Written(chosen[j], PartsOf(j)')
    BY <2>1, <2>4
  <2>7. stage' = "downloading" /\ Files[chosen[cursor']].articles = Files[n].articles
    BY <1>1, <1>3
  <2>8. OfWanted'
    <3>1. disk'[name] = Written(n, part')
      <4>1. cursor + 1 .. cursor = {} /\ PartsOf(cursor) = part
        BY <2>1 DEF PartsOf
      <4>2. disk[name] = Written(n, part)
        BY <2>1, <2>2, <4>1
      <4> QED BY <1>1, <2>1, <2>3, <4>2, PartsAre
    <3>2. Written(n, part') \subseteq Written(n, Files[n].articles)
      <4>1. 1 .. part' \subseteq 1 .. Files[n].articles
        BY <2>1
      <4> QED BY <4>1 DEF Written
    <3> QED BY <1>1, <2>1, <2>3, <3>1, <3>2, MoreOfWanted
  <2> QED BY <1>1, <2>1, <2>5, <2>6, <2>7, <2>8, StillDownloads
<1> QED BY <1>2, <1>3 DEF Download, NameOf

LEMMA CloseSinkExit == ASSUME ExitInv, CloseSink PROVE ExitInv'
<1>1. /\ stage = "downloading" /\ stage' = "downloading" /\ sinks # {}
      /\ part = Files[chosen[cursor]].articles /\ sinks' = {} /\ cursor' = cursor + 1
      /\ UNCHANGED <<invocation, server, logins, chosen, skipped, disk>>
  BY DEF CloseSink, getting
<1>2. cursor \in 1 .. Len(chosen) /\ Len(chosen) \in Nat
  BY <1>1, Downloads
<1>3. Begun = cursor /\ Begun' = cursor /\ cursor' \in 1 .. Len(chosen) + 1
  BY <1>1, <1>2 DEF Begun
<1>4. \A j \in 1 .. cursor : PartsOf(j)' = PartsOf(j)
  <2> SUFFICES ASSUME NEW j \in 1 .. cursor PROVE PartsOf(j)' = PartsOf(j)
    OBVIOUS
  <2>1. j # cursor' /\ Files'[chosen'[j]] = Files[chosen[j]]
    BY <1>1, <1>2, SameRequest
  <2>2. PartsOf(j)' = Files[chosen[j]].articles
    BY <2>1 DEF PartsOf
  <2> QED BY <1>1, <2>2 DEF PartsOf
<1>5. \A j \in 1 .. Begun' :
        /\ NameOf(j) \in DOMAIN disk'
        /\ (\A k \in j + 1 .. Begun' : NameOf(k) # NameOf(j)) =>
             disk'[NameOf(j)] = Written(chosen[j], PartsOf(j)')
  BY <1>1, <1>3, <1>4, Downloads
<1>6. OfWanted'
  BY <1>1, Downloads, SameDisk
<1> QED BY <1>1, <1>3, <1>5, <1>6, StillDownloads

(* The last file of a name is the last chosen of that name. *)
LEMMA DownloadedExit == ASSUME ExitInv, Downloaded PROVE ExitInv'
<1>1. /\ stage = "downloading" /\ cursor > Len(chosen) /\ Return(IF Failing THEN 1 ELSE 0)
      /\ UNCHANGED <<invocation, server, skipped, asked, disk, sinks>>
  BY DEF Downloaded, getting
<1>2. /\ PlaceOK /\ SelectedUpTo(Len(Files)) /\ ~Flags.dryRun /\ invocation.name = "get"
      /\ Len(chosen) \in Nat /\ DOMAIN chosen = 1 .. Len(chosen) /\ cursor = Len(chosen) + 1
      /\ \A j \in 1 .. Len(chosen) : chosen[j] \in 1 .. Len(Files)
      /\ sinks = {} /\ chosen # <<>> /\ OfWanted
  <2>1. Len(chosen) \in Nat /\ cursor \in 1 .. Len(chosen) + 1
    BY <1>1, Downloads
  <2>2. cursor = Len(chosen) + 1 /\ cursor \notin 1 .. Len(chosen)
    BY <1>1, <2>1
  <2> QED BY <1>1, <2>1, <2>2, Downloads
<1>3. Len(Files) \in Nat /\ DOMAIN Files = 1 .. Len(Files)
  BY <1>1, <1>2, Lists
<1>4. ASSUME NEW j \in 1 .. Len(chosen), ~Taken(chosen[j])
      PROVE  disk[NameOf(j)] = Written(chosen[j], Files[chosen[j]].articles)
  <2>1. Begun = Len(chosen) /\ j # cursor /\ PartsOf(j) = Files[chosen[j]].articles
    BY <1>2 DEF Begun, PartsOf
  <2>2. \A k \in j + 1 .. Len(chosen) : NameOf(k) # NameOf(j)
    <3> SUFFICES ASSUME NEW k \in j + 1 .. Len(chosen), NameOf(k) = NameOf(j) PROVE FALSE
      OBVIOUS
    <3>1. k \in DOMAIN chosen /\ j \in DOMAIN chosen /\ j < k
      BY <1>2
    <3>2. chosen[j] < chosen[k] /\ Wanted(chosen[k])
      BY <1>2, <3>1 DEF SelectedUpTo
    <3>3. chosen[k] \in chosen[j] + 1 .. Len(Files)
      BY <1>2, <1>3, <3>1, <3>2
    <3> QED BY <1>4, <3>2, <3>3 DEF Taken, NameOf
  <2> QED BY <1>1, <2>1, <2>2, Downloads
<1>5. exit' = 0 => GotAll
  <2> SUFFICES ASSUME exit' = 0 PROVE GotAll
    OBVIOUS
  <2>1. Flags.include = Unset =>
          skipped = <<>> /\ \A n \in DOMAIN Files : Files[n].opens = "opens"
    BY <1>1, <1>2, <1>3 DEF Return, Failing, SelectedUpTo
  <2>2. ASSUME NEW n \in DOMAIN Files, Wanted(n), ~Taken(n), ~Unread(n)
        PROVE  disk[OutputName(Files[n])] = Written(n, Files[n].articles)
    <3>1. \E i \in DOMAIN chosen : chosen[i] = n
      BY <1>2, <1>3, <2>2 DEF SelectedUpTo
    <3> QED BY <1>2, <1>4, <2>2, <3>1 DEF NameOf
  <2> QED BY <1>2, <2>1, <2>2 DEF GotAll
<1>6. exit' = 0 => Truth'
  BY <1>1, <1>2, <1>5, SameTruth DEF Truth
<1>7. exit' # 2 /\ stage' = "leaving" /\ sinks' = {} /\ OfWanted'
  BY <1>1, <1>2, SameDisk DEF Return
<1>8. Left'
  BY <1>1, <1>6, <1>7 DEF Left
<1> QED BY <1>1, <1>2, <1>7, <1>8, LeavesBehind

-----------------------------------------------------------------------------
(* stat, verify.                                                             *)

LEMMA Asks ==
  ASSUME ExitInv, stage = "stat"
  PROVE  /\ PlaceOK /\ invocation.name = "stat" /\ disk = <<>> /\ sinks = {}
         /\ Len(Files) \in Nat /\ DOMAIN Files = 1 .. Len(Files) /\ cursor \in 1 .. Len(Files) + 1
         /\ \A n \in 1 .. Len(Files) : Files[n].articles \in Nat
         /\ Sample \in Nat \cup {Unset}
         /\ asked \in Seq(SUBSET Int) /\ Len(asked) = cursor - 1 /\ DOMAIN asked = 1 .. cursor - 1
         /\ \A n \in 1 .. cursor - 1 : asked[n] = Pick(Files[n].articles, Sample)
<1>1. PlaceOK /\ AskingOK
  BY DEF ExitInv
<1>2. invocation.name = "stat" /\ disk = <<>> /\ sinks = {} /\ ~SampleRefused
  BY <1>1 DEF PlaceOK, Connected
<1>3. /\ Len(Files) \in Nat /\ DOMAIN Files = 1 .. Len(Files)
      /\ \A n \in 1 .. Len(Files) : Files[n].articles \in Nat
      /\ Flags.sample \in Nat \cup {Unset, Bad}
  BY <1>1, Lists
<1>4. Sample \in Nat \cup {Unset}
  BY <1>2, <1>3 DEF SampleRefused, Sample, Else
<1>5. asked \in Seq(SUBSET Int) /\ DOMAIN asked = 1 .. Len(asked)
  <2>1. asked \in Seq(SUBSET Int)
    BY <1>1 DEF AskingOK
  <2> QED BY <2>1, LenProperties
<1> QED BY <1>1, <1>2, <1>3, <1>4, <1>5 DEF AskingOK

LEMMA StatExit == ASSUME ExitInv, Stat PROVE ExitInv'
<1> DEFINE picked == Pick(Files[cursor].articles, Sample)
<1>1. /\ stage = "stat" /\ cursor <= Len(Files)
      /\ UNCHANGED <<invocation, server, disk, sinks>>
  BY DEF Stat
<1>2. \/ Return(1) \/ Return(2)
      \/ asked' = Append(asked, picked) /\ cursor' = cursor + 1 /\ stage' = stage
  BY DEF Stat
<1>3. CASE Return(1) \/ Return(2)
  BY <1>1, <1>3, Asks, Leaves DEF Return
<1>4. CASE asked' = Append(asked, picked) /\ cursor' = cursor + 1 /\ stage' = stage
  <2>1. PlaceOK'
    BY <1>1, <1>4, Asks, SameRequest DEF PlaceOK, Connected
  <2>2. /\ cursor \in Nat /\ cursor' \in 1 .. Len(Files) + 1 /\ cursor' - 1 = cursor
        /\ cursor \in 1 .. Len(Files)
        /\ \A n \in 1 .. cursor : n = cursor \/ n \in 1 .. cursor - 1
    BY <1>1, <1>4, Asks
  <2>3. picked \in SUBSET Int
    <3>1. Files[cursor].articles \in Nat /\ Sample \in Nat \cup {Unset}
      BY <1>1, <2>2, Asks
    <3> QED BY <3>1, PickIsSpread
  <2> HIDE DEF picked
  <2>4. /\ asked' \in Seq(SUBSET Int) /\ Len(asked') = cursor /\ asked'[cursor] = picked
        /\ \A n \in 1 .. cursor - 1 : asked'[n] = asked[n]
    <3>1. asked \in Seq(SUBSET Int) /\ Len(asked) = cursor - 1 /\ Len(asked) + 1 = cursor
      BY <1>1, <2>2, Asks
    <3> QED BY <1>4, <2>3, <3>1, AppendProperties
  <2>5. \A n \in 1 .. cursor : asked'[n] = Pick(Files[n].articles, Sample)
    BY <1>1, <2>2, <2>4, Asks DEF picked
  <2>6. AskingOK'
    <3>1. Files' = Files /\ Sample' = Sample /\ \A n, s : Pick(n, s)' = Pick(n, s)
      BY <1>1, SameRequest DEF Pick, Round
    <3> QED BY <2>2, <2>4, <2>5, <3>1 DEF AskingOK
  <2> QED BY <1>1, <1>4, <2>1, <2>6 DEF ExitInv, LeavingOK, SelectingOK, DownloadingOK, DecodingOK
<1> QED BY <1>2, <1>3, <1>4

LEMMA StatEndsExit == ASSUME ExitInv, StatEnds PROVE ExitInv'
<1>1. /\ stage = "stat" /\ cursor > Len(Files)
      /\ Return(IF \E n \in DOMAIN asked : Missing(n) # {} THEN 1 ELSE 0)
      /\ UNCHANGED <<invocation, server, skipped, asked, disk, sinks>>
  BY DEF StatEnds, getting
<1>2. /\ cursor - 1 = Len(Files) /\ DOMAIN asked = DOMAIN Files
      /\ \A n \in DOMAIN Files : asked[n] = Pick(Files[n].articles, Sample)
  <2>1. cursor - 1 = Len(Files)
    BY <1>1, Asks
  <2> QED BY <1>1, <2>1, Asks
<1>3. exit' = 0 => FoundAll
  <2> SUFFICES ASSUME exit' = 0, NEW n \in DOMAIN Files
               PROVE  LET last == Files[n].articles
                          want == IF Sample = Unset \/ Sample > last THEN last ELSE Sample
                      IN /\ asked[n] \subseteq Files[n].held
                         /\ Cardinality(asked[n]) = want
                         /\ want >= 1 => 1 \in asked[n]
                         /\ want >= 2 => last \in asked[n]
    BY DEF FoundAll
  <2>1. asked[n] \subseteq Files[n].held
    BY <1>1, <1>2 DEF Return, Missing
  <2>2. Files[n].articles \in Nat /\ Sample \in Nat \cup {Unset}
    BY <1>1, Asks
  <2> QED BY <1>2, <2>1, <2>2, PickIsSpread
<1>4. exit' = 0 => Truth'
  BY <1>1, <1>3, Asks, SameTruth DEF Truth
<1> QED BY <1>1, <1>4, Asks, Leaves DEF Return

LEMMA VerifyExit == ASSUME ExitInv, Verify PROVE ExitInv'
<1>1. /\ stage = "verify" /\ UNCHANGED <<invocation, asked, disk, sinks>>
      /\ stage' = "leaving"
  BY DEF Verify, Return
<1>2. PlaceOK /\ invocation.name = "verify" /\ disk = <<>> /\ sinks = {}
  BY <1>1 DEF ExitInv, PlaceOK, Connected
<1>3. Truth'
  BY <1>1, <1>2 DEF Truth
<1> QED BY <1>1, <1>2, <1>3, Leaves

-----------------------------------------------------------------------------
(* decode.                                                                   *)

LEMMA DecodePathExit == ASSUME ExitInv, DecodePath PROVE ExitInv'
<1> DEFINE a == invocation.paths[cursor]
           before == IF a.name \in sinks THEN disk ELSE Truncated(a.name)
<1>1. /\ stage = "decoding" /\ cursor <= Len(invocation.paths)
      /\ UNCHANGED <<invocation, server, asked>>
  BY DEF DecodePath
<1>2. /\ PlaceOK /\ DecodingOK /\ invocation.name = "decode"
  BY <1>1 DEF ExitInv, PlaceOK
<1>3. /\ cursor \in 1 .. Len(invocation.paths) /\ Len(invocation.paths) \in Nat /\ cursor \in Nat
      /\ \A n \in 1 .. cursor : n = cursor \/ n \in 1 .. cursor - 1
      /\ \A n \in 1 .. cursor - 1 : n \in 1 .. cursor /\ n # cursor
      /\ \A n \in 1 .. cursor : cursor \in n .. cursor /\ \A m \in n .. cursor - 1 : m \in n .. cursor
  <2>1. Len(invocation.paths) \in Nat /\ cursor \in 1 .. Len(invocation.paths)
    BY <1>1, <1>2, Lists DEF DecodingOK
  <2> QED BY <2>1
<1>4. /\ \A n \in 1 .. cursor - 1 : invocation.paths[n].name \in sinks
      /\ sinks \subseteq DOMAIN disk /\ DecodedUpTo(cursor - 1)
  BY <1>1, <1>2 DEF DecodingOK
<1>5. CASE (Return(1) \/ Return(2)) /\ sinks' = {}
  BY <1>1, <1>2, <1>5, Leaves DEF Return
<1>6. CASE /\ sinks' = sinks \cup {a.name}
           /\ disk' = [before EXCEPT ![a.name] = {p \in @ : p[1] # a.begin} \cup {<<a.begin, cursor>>}]
           /\ cursor' = cursor + 1 /\ stage' = stage
  <2>1. /\ DOMAIN before = DOMAIN disk \cup {a.name} /\ a.name \in DOMAIN before
        /\ \A name \in DOMAIN disk : name # a.name \/ name \in sinks => before[name] = disk[name]
    BY <1>4 DEF Truncated
  <2> HIDE DEF before
  <2>2. /\ DOMAIN disk' = DOMAIN disk \cup {a.name}
        /\ disk'[a.name] = {p \in before[a.name] : p[1] # a.begin} \cup {<<a.begin, cursor>>}
        /\ \A name \in DOMAIN disk : name # a.name => disk'[name] = disk[name]
    BY <1>6, <2>1
  <2>3. cursor' \in 1 .. Len(invocation.paths) + 1 /\ cursor' - 1 = cursor
    BY <1>3, <1>6
  <2>4. \A n \in 1 .. cursor : invocation.paths[n].name \in sinks'
    BY <1>3, <1>4, <1>6
  <2>5. sinks' \subseteq DOMAIN disk'
    BY <1>4, <1>6, <2>2
  <2>6. ASSUME NEW n \in 1 .. cursor
        PROVE  \E m \in n .. cursor :
                 <<invocation.paths[n].begin, m>> \in disk'[invocation.paths[n].name]
    <3> DEFINE b == invocation.paths[n]
    <3>1. CASE n = cursor
      BY <1>3, <2>2, <3>1
    <3>2. CASE n # cursor
      <4>1. n \in 1 .. cursor - 1
        BY <1>3, <3>2
      <4>2. PICK m \in n .. cursor - 1 : <<b.begin, m>> \in disk[b.name]
        BY <1>4, <4>1 DEF DecodedUpTo
      <4>3. b.name \in sinks /\ b.name \in DOMAIN disk /\ m \in n .. cursor
        BY <1>3, <1>4, <4>1
      <4> HIDE DEF a, b
      <4>4. CASE b.name = a.name /\ b.begin = a.begin
        BY <1>3, <2>2, <4>4 DEF b
      <4>5. CASE b.name = a.name /\ b.begin # a.begin
        <5>1. <<b.begin, m>> \in before[a.name] /\ <<b.begin, m>>[1] # a.begin
          BY <2>1, <4>2, <4>3, <4>5
        <5> QED BY <2>2, <4>3, <4>5, <5>1 DEF b
      <4>6. CASE b.name # a.name
        BY <2>2, <4>2, <4>3, <4>6 DEF b
      <4> QED BY <4>4, <4>5, <4>6
    <3> QED BY <3>1, <3>2
  <2>7. PlaceOK'
    BY <1>1, <1>2, <1>6 DEF PlaceOK, Connected
  <2>8. DecodingOK'
    BY <1>1, <2>3, <2>4, <2>5, <2>6 DEF DecodingOK, DecodedUpTo
  <2> QED BY <1>1, <1>6, <2>7, <2>8 DEF ExitInv, LeavingOK, SelectingOK, DownloadingOK, AskingOK
<1> QED BY <1>5, <1>6 DEF DecodePath

LEMMA DecodeEndsExit == ASSUME ExitInv, DecodeEnds PROVE ExitInv'
<1>1. /\ stage = "decoding" /\ cursor > Len(invocation.paths) /\ stage' = "leaving" /\ exit' = 0
      /\ sinks' = {} /\ UNCHANGED <<invocation, server, skipped, asked, disk>>
  BY DEF DecodeEnds, Return, getting
<1>2. PlaceOK /\ DecodingOK /\ invocation.name = "decode"
  BY <1>1 DEF ExitInv, PlaceOK
<1>3. cursor - 1 = Len(invocation.paths) /\ DecodedUpTo(cursor - 1)
  BY <1>1, <1>2, Lists DEF DecodingOK
<1>4. Truth'
  BY <1>1, <1>2, <1>3, SameTruth DEF Truth
<1> QED BY <1>1, <1>2, <1>4, Leaves

-----------------------------------------------------------------------------

LEMMA CliStutters == ASSUME ExitInv, UNCHANGED cliVars PROVE ExitInv'
<1>1. UNCHANGED <<invocation, stage, server, pool, logins, cursor, chosen, skipped, part, asked,
                  disk, sinks, exit>>
  BY DEF cliVars, getting
<1>2. Flags' = Flags /\ Files' = Files /\ Sample' = Sample /\ SampleRefused' = SampleRefused
  BY <1>1, SameRequest
<1>3. PlaceOK' = PlaceOK
  BY <1>1, <1>2 DEF PlaceOK
<1>4. Left' = Left
  BY <1>1, <1>2, SameTruth, SameMeans, SameDisk DEF Left
<1>5. LeavingOK' = LeavingOK
  BY <1>1, <1>4 DEF LeavingOK
<1>6. SelectingOK => SelectingOK'
  BY <1>1, <1>2, SameSelection DEF SelectingOK
<1>7. DownloadingOK => DownloadingOK'
  <2>1. Begun' = Begun /\ \A j : PartsOf(j)' = PartsOf(j)
    BY <1>1, <1>2 DEF Begun, PartsOf
  <2>2. OfWanted' = OfWanted
    BY <1>1, SameDisk
  <2> QED BY <1>1, <1>2, <2>1, <2>2, SameSelection, SameNames DEF DownloadingOK, Written
<1>8. AskingOK' = AskingOK
  BY <1>1, <1>2 DEF AskingOK, Pick, Round
<1>9. DecodingOK' = DecodingOK
  BY <1>1 DEF DecodingOK, DecodedUpTo
<1> QED BY <1>3, <1>5, <1>6, <1>7, <1>8, <1>9 DEF ExitInv

(* Exit status 0 means that what was asked for is there; 2 of a command that *)
(* uses the network that nothing was written, unless a secret that expires   *)
(* could not be had again halfway; and however `get` ends, a name it wrote   *)
(* holds parts of one file it was asked for: for any number of files,        *)
(* articles, paths and sources (get.ts:82-96, stat.ts:88-112, run.ts:89-94,  *)
(* 127-130).                                                                 *)
THEOREM ExitIsTrue == CliSpec => []ExitTellsTheTruth
<1>1. CliInit => ExitInv
  BY CliStarts
<1>2. ExitInv /\ [CliNext]_cliVars => ExitInv'
  BY InvokeExit, ParseExit, ReadNzbExit, FinallyExit, ProbeExit, SelectedExit, OpenSinkExit,
     DownloadExit, CloseSinkExit, DownloadedExit, StatExit, StatEndsExit, VerifyExit,
     DecodePathExit, DecodeEndsExit, CliStutters DEF CliNext
<1>3. ExitInv => ExitTellsTheTruth
  <2> SUFFICES ASSUME ExitInv, stage = "exited" PROVE ExitTellsTheTruth
    BY DEF ExitTellsTheTruth
  <2>1. pool # "open" /\ Left
    BY DEF ExitInv, PlaceOK, LeavingOK
  <2>2. Len(invocation.paths) \in Nat /\ DOMAIN invocation.paths = 1 .. Len(invocation.paths)
    BY Lists DEF ExitInv
  <2> QED BY <2>1, <2>2
        DEF ExitTellsTheTruth, Left, OfWanted, Truth, GotAll, FoundAll, DecodedUpTo, Wanted,
            Written, Taken, Unread
<1> QED BY <1>1, <1>2, <1>3, PTL DEF CliSpec
=============================================================================
