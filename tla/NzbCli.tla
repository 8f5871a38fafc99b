------------------------------- MODULE NzbCli -------------------------------
(***************************************************************************)
(* The `nzb` command (packages/nzb-cli/src): from the command line, the    *)
(* environment and the config file to the settings of a pool, through      *)
(* `get`, `stat`, `verify` or `decode`, to the exit status.                *)
(*                                                                         *)
(* A name is a value; a glob is the set of names it matches.  What an      *)
(* article holds is left to ArticleRead and FileHandle, what `verify`      *)
(* finds to Par2: here a file is its articles' numbers.                    *)
(***************************************************************************)
EXTENDS Integers, Sequences, FiniteSets, SequencesExt

CONSTANTS
  Invocations,    \* what the program may be started with
  Unset,          \* undefined or null: a flag, a setting or a secret not given
  Bad,            \* a flag or a setting of the wrong form
  WithExtension,  \* the names that look like a filename's
  EnvironmentVariables  \* the sources of a secret that are

(* Lists are lists, a file has a number of articles, and --sample is none,  *)
(* wrong or a count (integerOption).                                        *)
ASSUME UnsetAssumption == Unset \notin Int /\ Bad \notin Int /\ Unset # Bad
ASSUME InvocationsAssumption ==
  \A v \in Invocations :
    /\ Len(v.files) \in Nat /\ DOMAIN v.files = 1 .. Len(v.files)
    /\ Len(v.paths) \in Nat /\ DOMAIN v.paths = 1 .. Len(v.paths)
    /\ \A n \in DOMAIN v.files : v.files[n].articles \in Nat
    /\ v.flags.sample \in Nat \cup {Unset, Bad}

VARIABLES
  invocation,
  stage,    \* what the program is doing
  server,   \* ServerSettings of the pool
  pool,     \* "none", "open" or "destroyed"
  logins,   \* every login: to which host, as whom, with which secret
  cursor,   \* the file or path it is at
  chosen,   \* get: the files selected
  skipped,  \* get: unopenable
  part,     \* get: articles of the current file written
  asked,    \* stat: of each file, the segments asked about
  disk,     \* of each name written, its parts: <<where, which>>
  sinks,    \* names open for writing
  exit

getting == <<chosen, skipped, part>>
cliVars == <<invocation, stage, server, pool, logins, cursor, getting, asked, disk, sinks, exit>>

CliInit ==
  /\ invocation = Unset /\ stage = "idle" /\ server = Unset /\ pool = "none" /\ logins = {}
  /\ cursor = 1 /\ chosen = <<>> /\ skipped = <<>> /\ part = 0 /\ asked = <<>>
  /\ disk = <<>> /\ sinks = {} /\ exit = Unset

Invoke ==
  /\ stage = "idle"
  /\ invocation' \in Invocations /\ stage' = "parsing"
  /\ UNCHANGED <<server, pool, logins, cursor, getting, asked, disk, sinks, exit>>

-----------------------------------------------------------------------------
(* Settings. *)

Flags == invocation.flags
ConfigFile == invocation.file

(* The ?? operator. *)
Else(value, fallback) == IF value = Unset THEN fallback ELSE value

Numbers == {"port", "connections", "ttl"}
FlagsRefused ==
  \/ \E k \in Numbers : Flags[k] # Unset /\ (Flags[k] = Bad \/ Flags[k] < 0)
  \/ Flags.security = Bad
  \/ Flags.passEnv # Unset /\ Flags.passFile # Unset

(* loadConfig; only a file nobody pointed at may be missing. *)
SettingInvalid == \E k \in DOMAIN ConfigFile.settings : ConfigFile.settings[k] = Bad
ConfigRefused ==
  IF ConfigFile.state = "missing" THEN Flags.config # Unset
  ELSE ConfigFile.state # "sound" \/ SettingInvalid

(* Flag, then config file. *)
Filed(k) == IF ConfigFile.state = "missing" THEN Unset ELSE ConfigFile.settings[k]
Setting(k) == Else(Flags[k], Filed(k))

Connections ==
  Else(Flags.connections, Else(invocation.env, Else(Filed("connections"), 4)))

(* A named source replaces the chain. *)
PasswordRef == Else(Flags.passEnv, Else(Flags.passFile, Filed("password")))

Settings ==
  [host |-> Setting("host"), port |-> Else(Setting("port"), 563),
   connections |-> Connections, security |-> Else(Setting("security"), "implicit"),
   user |-> Setting("user"), password |-> PasswordRef, ttl |-> Setting("ttl")]

Ports == 1 .. 65535
ServerRefused ==
  \/ Setting("host") = Unset
  \/ Settings.port \notin Ports
  \/ Connections = Bad \/ Connections < 1

DefaultUsername == <<"NNTP_USERNAME", "/run/secret/nntp_username">>
DefaultPassword == <<"NNTP_PASSWORD", "/run/secret/nntp_password", "prompt">>

BugPassword(s) ==
  IF s.password = Unset THEN DefaultPassword ELSE <<s.password>> \o DefaultPassword

Password(s) == IF s.password = Unset THEN DefaultPassword ELSE <<s.password>>

Secret(source) == IF source \in DOMAIN invocation.secrets THEN invocation.secrets[source] ELSE Unset

(* A file can go and a prompt be interrupted between two lookups: which      *)
(* sources have nothing to say at one of them.  The environment is what the  *)
(* program was started with.                                                 *)
Silences == SUBSET (DOMAIN invocation.secrets \ EnvironmentVariables)
Held(source, silent) == IF source \in silent THEN Unset ELSE Secret(source)

(* chain: the first source that has one, or ProviderError. *)
Resolved(sources, silent) ==
  LET n == SelectInSeq(sources, LAMBDA s : Held(s, silent) # Unset)
  IN IF n = 0 THEN Unset ELSE Secret(sources[n])

(* A user named by the settings is a literal. *)
Username(silent) == Else(server.user, Resolved(DefaultUsername, silent))
CanLogIn(silent) == Username(silent) # Unset /\ Resolved(Password(server), silent) # Unset
LookupMayFail == \E silent \in Silences : ~CanLogIn(silent)

-----------------------------------------------------------------------------
(* run, execute. *)

Return(code) == stage' = "leaving" /\ exit' = code

OnlyPath == Len(invocation.paths) = 1
Connected == {"get", "stat", "verify"}

PathsRefused ==
  \/ invocation.name \in Connected \cup {"inspect"} /\ ~OnlyPath
  \/ invocation.name = "completion" /\ (invocation.paths = <<>> \/ invocation.paths[1] = Bad)
  \/ invocation.name = "decode" /\ invocation.paths = <<>>

SampleRefused == Flags.sample = Bad \/ (Flags.all /\ Flags.sample # Unset)

(* A range has a dash, byte counts and an end after its start. *)
RangeRefused == Flags.ranges = Bad \/ (Flags.ranges > 1 /\ ~Flags.sparse)

UsageRefused ==
  \/ ~Flags.known \/ invocation.name = Bad
  \/ PathsRefused
  \/ invocation.name \in Connected /\ (ConfigRefused \/ FlagsRefused \/ ServerRefused)
  \/ invocation.name = "stat" /\ SampleRefused
  \/ invocation.name = "get" /\ RangeRefused

ParseCommandLine ==
  /\ stage = "parsing"
  /\ IF Flags.known /\ Flags.message THEN Return(0) /\ UNCHANGED <<server, pool>>
     ELSE IF UsageRefused THEN Return(2) /\ UNCHANGED <<server, pool>>
     ELSE IF invocation.name = "decode" THEN stage' = "decoding" /\ UNCHANGED <<server, pool, exit>>
     ELSE IF invocation.name \notin Connected
       THEN /\ Return(IF invocation.name = "inspect" /\ ~invocation.readable THEN 2 ELSE 0)
            /\ UNCHANGED <<server, pool>>
     ELSE /\ server' = Settings /\ pool' = "open"
          /\ stage' = "reading" /\ UNCHANGED exit
  /\ UNCHANGED <<invocation, logins, cursor, getting, asked, disk, sinks>>

ReadNzb ==
  /\ stage = "reading"
  /\ IF invocation.readable THEN stage' = invocation.name /\ UNCHANGED exit ELSE Return(2)
  /\ UNCHANGED <<invocation, server, pool, logins, cursor, getting, asked, disk, sinks>>

(* The sources are asked at the first login, at the next if that one failed, *)
(* and at any later one when the secret has expired meanwhile.               *)
MayAsk == logins = {} \/ server.ttl # Unset

(* A request takes an idle connection, or opens one and logs in. *)
LogsIn ==
  \/ logins # {} /\ UNCHANGED logins
  \/ /\ MayAsk
     /\ \E silent \in Silences :
          /\ CanLogIn(silent)
          /\ logins' = logins \cup
               {[host |-> server.host, user |-> Username(silent),
                 secret |-> Resolved(Password(server), silent), silent |-> silent]}

(* ProviderError, which authenticate() lets through. *)
LogInFails == MayAsk /\ LookupMayFail /\ UNCHANGED logins

(* Of several logins one works, and a later one finds the secret expired and *)
(* its source silent.                                                        *)
LosesLogIn == server.ttl # Unset /\ LookupMayFail /\ LogsIn

Finally ==
  /\ stage = "leaving"
  /\ stage' = "exited"
  /\ pool' = IF pool = "open" THEN "destroyed" ELSE pool
  /\ UNCHANGED <<invocation, server, logins, cursor, getting, asked, disk, sinks, exit>>

-----------------------------------------------------------------------------
(* get *)

Files == invocation.files
OutputName(f) ==
  IF f.header \notin WithExtension /\ f.hint \in WithExtension THEN f.hint ELSE f.header
Matches(f) == Flags.include = Unset \/ {f.header, f.hint} \cap Flags.include # {}

(* probe, select: a capacity refusal says nothing about the file; a login    *)
(* that cannot be attempted is one more reason to skip it.                   *)
Probe ==
  /\ stage = "get" /\ cursor <= Len(Files)
  /\ LET f == Files[cursor] IN
     \/ /\ LogsIn /\ f.opens = "refused"
        /\ Return(1) /\ UNCHANGED <<cursor, chosen, skipped>>
     \/ /\ LogsIn /\ f.opens = "opens"
        /\ chosen' = IF Matches(f) /\ ~f.outside THEN Append(chosen, cursor) ELSE chosen
        /\ cursor' = cursor + 1 /\ UNCHANGED <<skipped, stage, exit>>
     \/ /\ LogInFails \/ (LogsIn /\ f.opens = "gone")
        /\ skipped' = Append(skipped, cursor)
        /\ cursor' = cursor + 1 /\ UNCHANGED <<chosen, stage, exit>>
  /\ UNCHANGED <<invocation, server, pool, part, asked, disk, sinks>>

Failing == Flags.include = Unset /\ skipped # <<>>

Selected ==
  /\ stage = "get" /\ cursor > Len(Files)
  /\ IF chosen = <<>> THEN Return(2)
     ELSE IF Flags.dryRun THEN Return(IF Failing THEN 1 ELSE 0)
     ELSE stage' = "downloading" /\ UNCHANGED exit
  /\ cursor' = 1
  /\ UNCHANGED <<invocation, server, pool, logins, getting, asked, disk, sinks>>

(* Opened with 'w': what the name held is gone. *)
Truncated(name) == [n \in DOMAIN disk \cup {name} |-> IF n = name THEN {} ELSE disk[n]]

(* The directory or the file cannot be made; or, with --sparse, not given    *)
(* its length, and then nobody closes it.                                    *)
OpenSink ==
  /\ stage = "downloading" /\ sinks = {} /\ cursor <= Len(chosen)
  /\ LET name == OutputName(Files[chosen[cursor]])
         opened == disk' = Truncated(name) /\ sinks' = {name}
     IN \/ opened /\ UNCHANGED <<stage, exit>>
        \/ Return(1) /\ UNCHANGED <<disk, sinks>>
        \/ Flags.sparse /\ opened /\ Return(1)
  /\ part' = 0
  /\ UNCHANGED <<invocation, server, pool, logins, cursor, chosen, skipped, asked>>

(* The first article is the one that was probed; any other may need a new    *)
(* connection.                                                               *)
Fetches(k) == IF k = 1 THEN UNCHANGED logins ELSE LogsIn

(* An article written, or one that cannot be read or written, or whose       *)
(* connection cannot log in any more: the sink is closed all the same.       *)
Download ==
  /\ stage = "downloading" /\ sinks # {} /\ part < Files[chosen[cursor]].articles
  /\ part' = part + 1
  /\ LET f == Files[chosen[cursor]] IN
     \/ /\ Fetches(part') /\ f.breaks # part'
        /\ disk' = [disk EXCEPT ![OutputName(f)] = @ \cup {<<part', chosen[cursor]>>}]
        /\ UNCHANGED <<stage, exit, sinks>>
     \/ /\ Fetches(part') /\ f.breaks = part'
        /\ Return(1) /\ sinks' = {} /\ UNCHANGED disk
     \/ /\ part' # 1 /\ LogInFails
        /\ Return(2) /\ sinks' = {} /\ UNCHANGED disk
  /\ UNCHANGED <<invocation, server, pool, cursor, chosen, skipped, asked>>

CloseSink ==
  /\ stage = "downloading" /\ sinks # {} /\ part = Files[chosen[cursor]].articles
  /\ sinks' = {} /\ cursor' = cursor + 1
  /\ UNCHANGED <<invocation, stage, server, pool, logins, getting, asked, disk, exit>>

Downloaded ==
  /\ stage = "downloading" /\ cursor > Len(chosen)
  /\ Return(IF Failing THEN 1 ELSE 0)
  /\ UNCHANGED <<invocation, server, pool, logins, cursor, getting, asked, disk, sinks>>

-----------------------------------------------------------------------------
(* stat, verify, decode *)

Sample == IF Flags.all THEN Unset ELSE Else(Flags.sample, 3)

(* Math.round of p/q. *)
Round(p, q) == (2 * p + q) \div (2 * q)

BugPick(n, sample) ==
  IF sample = Unset \/ sample >= n THEN 1 .. n
  ELSE {1 + Round(i * n, sample) : i \in 0 .. sample - 1}

Pick(n, sample) ==
  IF sample = Unset \/ sample >= n THEN 1 .. n
  ELSE IF sample <= 1 THEN 1 .. sample
  ELSE {1 + Round(i * (n - 1), sample - 1) : i \in 0 .. sample - 1}

(* 430 is an answer; anything else is thrown. *)
Stat ==
  /\ stage = "stat" /\ cursor <= Len(Files)
  /\ LET f == Files[cursor]
         picked == Pick(f.articles, Sample)
     IN \/ /\ IF picked = {} THEN UNCHANGED logins ELSE LogsIn /\ f.opens # "refused"
           /\ asked' = Append(asked, picked)
           /\ cursor' = cursor + 1 /\ UNCHANGED <<stage, exit>>
        \/ /\ picked # {} /\ f.opens = "refused" /\ LogsIn
           /\ Return(1) /\ UNCHANGED <<cursor, asked>>
        \/ /\ picked # {} /\ (LogInFails \/ (Cardinality(picked) > 1 /\ LosesLogIn))
           /\ Return(2) /\ UNCHANGED <<cursor, asked>>
  /\ UNCHANGED <<invocation, server, pool, getting, disk, sinks>>

Missing(n) == asked[n] \ Files[n].held

StatEnds ==
  /\ stage = "stat" /\ cursor > Len(Files)
  /\ Return(IF \E n \in DOMAIN asked : Missing(n) # {} THEN 1 ELSE 0)
  /\ UNCHANGED <<invocation, server, pool, logins, cursor, getting, asked, disk, sinks>>

(* What Par2 finds; without a login no volume can be read, and without a     *)
(* volume in the release nobody logs in.                                     *)
Verify ==
  /\ stage = "verify"
  /\ \/ /\ LogsIn
        /\ Return(CASE invocation.verdict = "verified" -> 0
                   [] invocation.verdict = "damaged" -> 1
                   [] invocation.verdict = "refused" -> 2)
     \/ (LogInFails \/ LosesLogIn) /\ Return(2)
     \/ invocation.verdict = "refused" /\ UNCHANGED logins /\ Return(2)
  /\ UNCHANGED <<invocation, server, pool, cursor, getting, asked, disk, sinks>>

(* One sink per name, opened by its first article; a part at its offset. *)
DecodePath ==
  /\ stage = "decoding" /\ cursor <= Len(invocation.paths)
  /\ LET a == invocation.paths[cursor]
         before == IF a.name \in sinks THEN disk ELSE Truncated(a.name)
     IN IF a.state = "sound"
          THEN /\ sinks' = sinks \cup {a.name}
               /\ disk' = [before EXCEPT ![a.name] =
                             {p \in @ : p[1] # a.begin} \cup {<<a.begin, cursor>>}]
               /\ cursor' = cursor + 1 /\ UNCHANGED <<stage, exit>>
          ELSE /\ Return(IF a.state = "unreadable" THEN 2 ELSE 1)
               /\ sinks' = {} /\ UNCHANGED <<cursor, disk>>
  /\ UNCHANGED <<invocation, server, pool, logins, getting, asked>>

DecodeEnds ==
  /\ stage = "decoding" /\ cursor > Len(invocation.paths)
  /\ Return(0) /\ sinks' = {}
  /\ UNCHANGED <<invocation, server, pool, logins, cursor, getting, asked, disk>>

CliNext ==
  \/ Invoke \/ ParseCommandLine \/ ReadNzb \/ Finally
  \/ Probe \/ Selected \/ OpenSink \/ Download \/ CloseSink \/ Downloaded
  \/ Stat \/ StatEnds \/ Verify \/ DecodePath \/ DecodeEnds

CliSpec == CliInit /\ [][CliNext]_cliVars

-----------------------------------------------------------------------------
(* Exit status 0 means that what was asked for is there: `get` wrote every  *)
(* article of every file wanted, except where a later file took the name or *)
(* the credentials were not to be had when the file was probed, which it    *)
(* reports; `stat` found every article it asked about, the first and the    *)
(* last among as many as the sample says; `decode` put every part at its    *)
(* offset.  A connected command that exits with 2 wrote nothing, unless it  *)
(* is a `get` whose secret expired and could not be had again.  However     *)
(* `get` ends, a name holds parts of one wanted file only; and nothing is   *)
(* left open but a sparse file that could not be given its length           *)
(* (get.ts:82-96, stat.ts:88-112, run.ts:89-94, 127-130, sink.ts:46-52).    *)
ExitTellsTheTruth ==
  stage = "exited" =>
    LET Wanted(n) == Files[n].opens = "opens" /\ Matches(Files[n]) /\ ~Files[n].outside
        Written(n) == {<<k, n>> : k \in 1 .. Files[n].articles}
        Taken(n) == \E m \in n + 1 .. Len(Files) : Wanted(m) /\ OutputName(Files[m]) = OutputName(Files[n])
        Excused(n) == Taken(n) \/ (n \in ToSet(skipped) /\ LookupMayFail)
    IN /\ pool # "open"
       /\ sinks = {} \/ (exit = 1 /\ Flags.sparse /\ part = 0)
       /\ exit = 2 /\ invocation.name # "decode" =>
            disk = <<>> \/ (invocation.name = "get" /\ server.ttl # Unset /\ LookupMayFail)
       /\ invocation.name = "get" =>
            \A name \in DOMAIN disk : \E n \in DOMAIN Files :
              Wanted(n) /\ OutputName(Files[n]) = name /\ disk[name] \subseteq Written(n)
       /\ exit = 0 /\ ~Flags.message =>
            CASE invocation.name = "get" ->
                   /\ Flags.include = Unset => skipped = <<>> /\ \A n \in DOMAIN Files : Files[n].opens = "opens"
                   /\ IF Flags.dryRun THEN disk = <<>>
                      ELSE \A n \in DOMAIN Files :
                             Wanted(n) /\ ~Excused(n) => disk[OutputName(Files[n])] = Written(n)
              [] invocation.name = "stat" ->
                   \A n \in DOMAIN Files :
                     LET last == Files[n].articles
                         want == IF Sample = Unset \/ Sample > last THEN last ELSE Sample
                     IN /\ asked[n] \subseteq Files[n].held
                        /\ Cardinality(asked[n]) = want
                        /\ want >= 1 => 1 \in asked[n]
                        /\ want >= 2 => last \in asked[n]
              [] invocation.name = "decode" ->
                   \A n \in DOMAIN invocation.paths :
                     LET a == invocation.paths[n] IN
                       \E m \in n .. Len(invocation.paths) : <<a.begin, m>> \in disk[a.name]
              [] OTHER -> TRUE

(* A password goes to the host and the account the user named, and it is    *)
(* the one the user named, at the first login and at every later one: a     *)
(* source given by flag or by the config file is never replaced by another  *)
(* that happens to hold one, not even when it stops answering; and a config *)
(* file that others can write, or that was asked for and is not there,      *)
(* stops the program before anything is sent (credentials.ts:67-70,         *)
(* config.ts:24-26, 57-63).                                                 *)
SecretGoesWhereNamed ==
  \A login \in logins :
    LET named == {s \in {Flags.passEnv, Flags.passFile} : s # Unset}
        filed == IF ConfigFile.state = "sound" THEN {ConfigFile.settings.password} \ {Unset} ELSE {}
        Holds(s) == Secret(s) = login.secret /\ s \notin login.silent
    IN /\ ConfigFile.state = "sound" \/ (ConfigFile.state = "missing" /\ Flags.config = Unset)
       /\ Flags.host # Unset => login.host = Flags.host
       /\ Flags.host = Unset => login.host = ConfigFile.settings.host
       /\ Flags.user # Unset => login.user = Flags.user
       /\ Flags.user = Unset /\ Filed("user") # Unset => login.user = Filed("user")
       /\ named # {} => \A s \in named : Holds(s)
       /\ named = {} /\ filed # {} => \A s \in filed : Holds(s)
       /\ named = {} /\ filed = {} =>
            \E n \in DOMAIN DefaultPassword :
              /\ Holds(DefaultPassword[n])
              /\ \A m \in 1 .. n - 1 : Held(DefaultPassword[m], login.silent) = Unset
=============================================================================
