-------------------------- MODULE BootstrapPackage --------------------------
(***************************************************************************)
(* scripts/bootstrap-package.mjs --publish: a placeholder published and    *)
(* deprecated for every package, run again until it succeeds, against a    *)
(* registry (external) that is slow to show what it accepted, may fail any *)
(* call, or carry out a call and fail to say so, while CI publishes the    *)
(* first real release.  The dry run changes nothing and is left out.       *)
(***************************************************************************)
EXTENDS Integers, FiniteSets

CONSTANTS
  Packages,
  MaxRuns   \* bound: how often the script is started

Placeholder == "0.0.1"
Release == "1.0.0"

VARIABLES
  versions,    \* the registry: of each package, those published
  visible,     \* packages the registry answers for
  latest,      \* of each package, the version `latest` points at, "" if none
  tagged,      \* packages whose `placeholder` tag is set
  deprecated,  \* packages whose placeholder is deprecated
  phase1,      \* packages not yet looked at
  toPublish,
  phase2,      \* packages still to deprecate
  current,     \* of phase 2: "wait", "deprecate" or "tag", of a package
  failures,
  status,      \* "idle", "listing", "publishing", "deprecating", "succeeded", "failed", "crashed"
  runs

registry == <<versions, visible, latest, tagged, deprecated>>
bootstrapVars == <<registry, phase1, toPublish, phase2, current, failures, status, runs>>

Ended == {"idle", "succeeded", "failed", "crashed"}

BootstrapInit ==
  /\ versions = [p \in Packages |-> {}] /\ visible = {}
  /\ latest = [p \in Packages |-> ""] /\ tagged = {} /\ deprecated = {}
  /\ phase1 = {} /\ toPublish = {} /\ phase2 = {} /\ current = <<>>
  /\ failures = {} /\ status = "idle" /\ runs = 0

-----------------------------------------------------------------------------
(* The registry, and CI. *)

Appear(p) ==
  /\ runs > 0 /\ versions[p] # {} /\ p \notin visible
  /\ visible' = visible \cup {p}
  /\ UNCHANGED <<versions, latest, tagged, deprecated, phase1, toPublish, phase2, current,
                 failures, status, runs>>

PublishRelease(p) ==
  /\ runs > 0 /\ versions[p] = {Placeholder}
  /\ versions' = [versions EXCEPT ![p] = @ \cup {Release}]
  /\ latest' = [latest EXCEPT ![p] = Release]
  /\ UNCHANGED <<visible, tagged, deprecated, phase1, toPublish, phase2, current,
                 failures, status, runs>>

(* `npm view` answers TRUE, or fails for any reason. *)
View(p, holds) == IF p \in visible /\ holds THEN BOOLEAN ELSE {FALSE}

-----------------------------------------------------------------------------

StartRun ==
  /\ status \in Ended /\ runs < MaxRuns
  /\ runs' = runs + 1 /\ status' = "listing"
  /\ phase1' = Packages /\ toPublish' = {} /\ phase2' = Packages /\ current' = <<>>
  /\ failures' = {}
  /\ UNCHANGED registry

List(p) ==
  /\ status = "listing" /\ p \in phase1
  /\ phase1' = phase1 \ {p}
  /\ \E exists \in View(p, TRUE) : toPublish' = IF exists THEN toPublish ELSE toPublish \cup {p}
  /\ status' = IF phase1' = {} THEN "publishing" ELSE status
  /\ UNCHANGED <<registry, phase2, current, failures, runs>>

(* The first version of a package takes `latest`, whatever its tag. *)
Accepted(p) ==
  /\ versions' = [versions EXCEPT ![p] = @ \cup {Placeholder}]
  /\ latest' = [latest EXCEPT ![p] = IF @ = "" THEN Placeholder ELSE @]
  /\ tagged' = tagged \cup {p}

(* A version that is there already is refused. *)
PublishOne(p) ==
  /\ status = "publishing" /\ p \in toPublish
  /\ toPublish' = toPublish \ {p}
  /\ \/ /\ Placeholder \notin versions[p] /\ Accepted(p)
        /\ failures' \in {failures, failures \cup {p}}
     \/ failures' = failures \cup {p} /\ UNCHANGED <<versions, latest, tagged>>
  /\ UNCHANGED <<visible, deprecated, phase1, phase2, current, status, runs>>

Published ==
  /\ status = "publishing" /\ toPublish = {}
  /\ status' = "deprecating"
  /\ UNCHANGED <<registry, phase1, toPublish, phase2, current, failures, runs>>

Take(p) ==
  /\ status = "deprecating" /\ current = <<>> /\ p \in phase2
  /\ phase2' = phase2 \ {p} /\ current' = <<"wait", p>>
  /\ UNCHANGED <<registry, phase1, toPublish, failures, status, runs>>

At(step) == status = "deprecating" /\ current # <<>> /\ current[1] = step
Current == current[2]

BugNeverVisible == failures
NeverVisible == failures \cup {Current}

(* waitUntilVisible: seen in time, or not. *)
WaitUntilVisible ==
  /\ At("wait")
  /\ \E seen \in View(Current, Placeholder \in versions[Current]) :
       IF seen THEN current' = <<"deprecate", Current>> /\ UNCHANGED failures
       ELSE current' = <<>> /\ failures' = NeverVisible
  /\ UNCHANGED <<registry, phase1, toPublish, phase2, status, runs>>

Deprecate ==
  /\ At("deprecate")
  /\ \/ /\ deprecated' = deprecated \cup {Current}
        /\ failures' \in {failures, failures \cup {Current}}
     \/ failures' = failures \cup {Current} /\ UNCHANGED deprecated
  /\ current' = <<"tag", Current>>
  /\ UNCHANGED <<versions, visible, latest, tagged, phase1, toPublish, phase2, status, runs>>

(* The view of `latest` is outside any try: if it fails, so does the script. *)
LatestFails ==
  /\ At("tag")
  /\ status' = "crashed"
  /\ UNCHANGED <<registry, phase1, toPublish, phase2, current, failures, runs>>

DropTag ==
  /\ At("tag") /\ Current \in visible
  /\ \E hasTag \in View(Current, Current \in tagged) :
       IF hasTag /\ latest[Current] \notin {"", Placeholder}
         THEN \/ /\ tagged' = tagged \ {Current}
                 /\ failures' \in {failures, failures \cup {Current}}
              \/ failures' = failures \cup {Current} /\ UNCHANGED tagged
         ELSE UNCHANGED <<tagged, failures>>
  /\ current' = <<>>
  /\ UNCHANGED <<versions, visible, latest, deprecated, phase1, toPublish, phase2, status, runs>>

End ==
  /\ status = "deprecating" /\ current = <<>> /\ phase2 = {}
  /\ status' = IF failures = {} THEN "succeeded" ELSE "failed"
  /\ UNCHANGED <<registry, phase1, toPublish, phase2, current, failures, runs>>

BootstrapNext ==
  \/ StartRun \/ Published \/ WaitUntilVisible \/ Deprecate \/ LatestFails \/ DropTag \/ End
  \/ \E p \in Packages :
       Appear(p) \/ PublishRelease(p) \/ List(p) \/ PublishOne(p) \/ Take(p)

BootstrapSpec == BootstrapInit /\ [][BootstrapNext]_bootstrapVars

-----------------------------------------------------------------------------
(* Whatever calls fail, and however often it is run, the script reports     *)
(* success only when every package's placeholder is on the registry and     *)
(* deprecated; and no placeholder is left with neither its tag nor a        *)
(* release for `latest` (bootstrap-package.mjs:193-221, 235-245).           *)
SuccessMeansDeprecated ==
  /\ status = "succeeded" => deprecated = Packages
  /\ \A p \in Packages :
       /\ p \in deprecated => Placeholder \in versions[p]
       /\ Placeholder \in versions[p] => p \in tagged \/ latest[p] = Release
=============================================================================
