------------------------- MODULE PackageUpdateCheck -------------------------
(***************************************************************************)
(* A package_update_check job for a Python package: the handler of         *)
(* handlers/package_update_check.go over the registry client of            *)
(* pypi/client.go and the classifier of updater/staleness.go.              *)
(*                                                                         *)
(* The handler asks the registry three times (the releases, the metadata   *)
(* of the release it resolved, the releases again), and the registry may   *)
(* publish, yank or delete releases between any two of these requests.     *)
(* The version it then compares is the one the metadata of the release     *)
(* gives, and it compares the texts as semantic versions, not as PEP 440.  *)
(* Each request may fail; a transient failure runs the handler again from  *)
(* the start, until the attempts of the job are used up.                   *)
(***************************************************************************)
EXTENDS PythonVersion, PEP440

CONSTANTS
    Releases,       \* the texts of the versions the project may have
    ParseVersion,   \* the version each text parses to
    NewVersion,     \* what the semver library reads in each text: <<major, minor, patch, pre>>
                    \* with pre = 0 for a release and a pre-release below 0, by its place
                    \* among pre-releases; <<>> if it refuses the text
    InfoVersion,    \* what the version field of a release's metadata may say
    Inputs,         \* the jobs: [listed, constraint, marker], the releases at the start,
                    \* the constraint and the tokens of the marker of a Requires-Dist
    MarkerResult(_),    \* what EvaluateMarker says of a marker: ok and value (PythonMarker)
    Rank,           \* the place of each release in PEP 440 order
    MaxAttempts,    \* attempts of the job
    MaxChanges      \* bound: changes of the registry while the job runs

(* No text, no version. *)
Nothing == "none"

(* The semver library stops reading numbers at the first hyphen, where     *)
(* pypi/version.go goes on, and takes a suffix only after one.             *)
ASSUME UpdateCheckAssumption ==
    /\ IsFiniteSet(Releases)
    /\ ParseVersion \in [Releases -> ParsedVersions]
    /\ \A name \in Releases : ParseVersion[name].raw = name
    /\ NewVersion \in [Releases -> {<<>>} \cup [1..4 -> Int]]
    /\ \A name \in Releases : NewVersion[name] # <<>> =>
          /\ ParseVersion[name].epoch = 0
          /\ \E n \in 1..3 : \A i \in 1..3 :
                NewVersion[name][i] = IF i <= n THEN Part(ParseVersion[name].release, i) ELSE 0
          /\ NewVersion[name][4] <= 0
          /\ NewVersion[name][4] = 0 => ~isPrerelease(ParseVersion[name])
    /\ InfoVersion \in [Releases -> SUBSET (Releases \cup {Nothing})]
    /\ \A i \in Inputs : /\ i.listed \subseteq Releases
                        /\ i.constraint \subseteq Clauses /\ validConstraint(i.constraint)
    /\ Rank \in [Releases -> Nat]
    /\ \A v, w \in Releases : Rank[v] < Rank[w] <=> Precedes(ParseVersion[v], ParseVersion[w])
    /\ MaxAttempts \in Nat \ {0} /\ MaxChanges \in Nat

VARIABLES
    input,      \* the job
    registry,   \* what the registry says of each release: absent, listed or yanked
    changes,    \* changes of the registry so far
    step,       \* the next request of the handler, or how the job ended
    attempts,   \* attempts begun
    available,  \* the releases of the last project response
    current,    \* what ResolveVersion took, then what the metadata calls it
    active,     \* the set of the marker's value, once it was evaluated
    latest,     \* what LatestVersion took, once it did
    staleness   \* the result

vars == <<input, registry, changes, step, attempts, available, current, active, latest, staleness>>

Requests == {"versions", "release", "latest"}

Ended == {"done", "dead"}

Init ==
    /\ input \in Inputs
    /\ registry = [v \in Releases |-> IF v \in input.listed THEN "listed" ELSE "absent"]
    /\ changes = 0
    /\ step = "versions"
    /\ attempts = 1
    /\ available = {}
    /\ current = Nothing
    /\ active = {}
    /\ latest = Nothing
    /\ staleness = "none"

(***************************************************************************)
(* The requests.                                                           *)
(***************************************************************************)

(* The releases with a file that is not yanked. *)
fetchAvailableVersions == {v \in Releases : registry[v] = "listed"}

(* The texts ResolveVersion may answer with. *)
Resolved(constraint, names) == {v.raw : v \in ResolveVersion(constraint, {ParseVersion[name] : name \in names})}

(* A permanent error: the job is dead whatever attempts are left. *)
FailPermanently ==
    /\ step' = "dead"
    /\ UNCHANGED <<attempts, current, active, latest, staleness>>

(* Defect: the attempt is not counted. *)
RequestFails_Uncounted ==
    /\ step \in Requests
    /\ step' = "versions"
    /\ current' = Nothing
    /\ active' = {}
    /\ available' = {}
    /\ UNCHANGED <<input, registry, changes, attempts, latest, staleness>>

(* getJSON fails with an error classifyError calls transient: rate limit,  *)
(* 502, 503, 504 or the network.  The job is run again from the start.     *)
RequestFails ==
    /\ step \in Requests
    /\ IF attempts < MaxAttempts
       THEN step' = "versions" /\ attempts' = attempts + 1
       ELSE step' = "dead" /\ UNCHANGED attempts
    /\ current' = Nothing
    /\ active' = {}
    /\ available' = {}
    /\ UNCHANGED <<input, registry, changes, latest, staleness>>

(* getJSON fails in any other way: another status, a body too large or one *)
(* that does not decode.                                                   *)
ResponseUnusable ==
    /\ step \in Requests
    /\ FailPermanently
    /\ UNCHANGED <<input, registry, changes, available>>

(* The first half of FetchPackage: the releases and ResolveVersion. *)
FetchVersions ==
    /\ step = "versions"
    /\ available' = fetchAvailableVersions
    /\ LET found == Resolved(input.constraint, fetchAvailableVersions) IN
       IF found = {} THEN FailPermanently
       ELSE /\ current' \in found
            /\ step' = "release"
            /\ UNCHANGED <<attempts, active, latest, staleness>>
    /\ UNCHANGED <<input, registry, changes>>

(* A requirement without a marker is active. *)
parseReleaseDependencies ==
    IF input.marker = <<>> THEN [ok |-> TRUE, value |-> TRUE] ELSE MarkerResult(input.marker)

(* The second half of FetchPackage.  A release that was deleted meanwhile  *)
(* is 404, one that was yanked is served; metadata without a version and a *)
(* marker that cannot be parsed fail the package.                          *)
FetchRelease ==
    /\ step = "release"
    /\ \E reported \in InfoVersion[current] :
         IF registry[current] = "absent" \/ reported = Nothing \/ ~parseReleaseDependencies.ok
         THEN FailPermanently
         ELSE /\ current' = reported
              /\ active' = {parseReleaseDependencies.value}
              /\ step' = "latest"
              /\ UNCHANGED <<attempts, latest, staleness>>
    /\ UNCHANGED <<input, registry, changes, available>>

(***************************************************************************)
(* Staleness.                                                              *)
(***************************************************************************)

IsSemver(text) == NewVersion[text] # <<>>

(* Major, minor, patch and pre-release, in this order. *)
GreaterThan(l, c) == FirstOf([i \in 1..4 |-> compareInt(l[i], c[i])]) > 0

Level == <<"major", "minor", "patch">>

(* Defect: a latest version that is lower is not told apart. *)
Classify_Unordered(c, l) ==
    LET higher == {i \in 1..3 : NewVersion[l][i] > NewVersion[c][i]} IN
    IF ~IsSemver(c) \/ ~IsSemver(l) THEN "unknown"
    ELSE IF higher = {} THEN "up_to_date" ELSE Level[Lowest(higher)]

(* A latest version that is greater by its pre-release alone is "unknown". *)
Classify(c, l) ==
    LET higher == {i \in 1..3 : NewVersion[l][i] > NewVersion[c][i]} IN
    IF ~IsSemver(c) \/ ~IsSemver(l) THEN "unknown"
    ELSE IF ~GreaterThan(NewVersion[l], NewVersion[c]) THEN "up_to_date"
    ELSE IF higher = {} THEN "unknown" ELSE Level[Lowest(higher)]

(* LatestVersion and the result. *)
FetchLatest ==
    /\ step = "latest"
    /\ available' = fetchAvailableVersions
    /\ LET found == Resolved({}, fetchAvailableVersions) IN
       IF found = {} THEN FailPermanently
       ELSE /\ latest' \in found
            /\ staleness' = Classify(current, latest')
            /\ step' = "done"
            /\ UNCHANGED <<attempts, current, active>>
    /\ UNCHANGED <<input, registry, changes>>

(***************************************************************************)
(* The registry: its owners publish, yank and delete.                      *)
(***************************************************************************)
RegistryChanges ==
    /\ changes < MaxChanges
    /\ step \in Requests
    /\ \E v \in Releases, status \in {"absent", "listed", "yanked"} :
         /\ status # registry[v]
         /\ registry[v] = "absent" => status = "listed"
         /\ registry' = [registry EXCEPT ![v] = status]
    /\ changes' = changes + 1
    /\ UNCHANGED <<input, step, attempts, available, current, active, latest, staleness>>

(* The job has ended. *)
Terminated == step \in Ended /\ UNCHANGED vars

Handler == RequestFails \/ ResponseUnusable \/ FetchVersions \/ FetchRelease \/ FetchLatest

Next == Handler \/ RegistryChanges \/ Terminated

Spec == Init /\ [][Next]_vars

(* A worker that runs the handler goes on with it: every request ends, the *)
(* client has a timeout.                                                   *)
FairSpec == Spec /\ WF_vars(Handler)

(***************************************************************************)
(* Properties.                                                             *)
(***************************************************************************)

(* Version.Compare orders the releases of a project as PEP 440 does,       *)
(* spellings of one version (1.0 and 1.0.0) being equal.                   *)
VersionsInPEP440Order ==
    \A v, w \in available : Compare(ParseVersion[v], ParseVersion[w]) = compareInt(Rank[v], Rank[w])

With(c, operator, version, wildcard) == [c EXCEPT !.operator = operator, !.version = version, !.wildcard = wildcard]

(* The clauses mean what PEP 440 defines them to mean in terms of each     *)
(* other, for every listed release: ~=V is >=V and ==P.* with V's last     *)
(* release number cut off, != is not ==, and neither <V overlaps >=V nor   *)
(* >V overlaps <=V.  PEP 440 has no ~=V for a V of one release number; the *)
(* ones parseConstraint accepts (~=1.dev1) keep that number, ==1.*         *)
(* (matchesClauses and compatiblePrefix of pypi/version.go).               *)
SpecifierLaws ==
    \A v \in available : \A c \in {c \in input.constraint : c.operator # "===" /\ ~c.wildcard} :
        LET Is(operator) == matchesClause(ParseVersion[v], With(c, operator, c.version, FALSE))
            r == c.version.release
            prefix == IF Len(r) = 1 THEN r ELSE SubSeq(r, 1, Len(r) - 1)
            InSeries == matchesClause(ParseVersion[v], With(c, "==", [c.version EXCEPT !.release = prefix], TRUE))
        IN  /\ c.operator = "~=" => (Is("~=") <=> Is(">=") /\ InSeries)
            /\ Is("!=") <=> ~Is("==")
            /\ ~(Is("<") /\ Is(">=")) /\ ~(Is(">") /\ Is("<="))
            /\ Is("==") => Is(">=") /\ Is("<=")

(* The release ResolveVersion took satisfies the constraint; no other      *)
(* listed release that does is higher, except a pre-release nobody asked   *)
(* for; and it is itself such a pre-release only if no stable one matches. *)
ResolvedIsBest ==
    step = "release" =>
        LET matching == {v \in available : matchesClauses(ParseVersion[v], input.constraint)}
            Early(v) == isPrerelease(ParseVersion[v])
            asked == permitsPrerelease(input.constraint)
        IN  /\ current \in matching
            /\ \A v \in matching : Rank[v] > Rank[current] => Early(v) /\ ~Early(current) /\ ~asked
            /\ Early(current) /\ ~asked => \A v \in matching : Early(v)

(* PEP 440 and semver read the text alike: release numbers and no more.    *)
(* They do not where a hyphen follows: 1-5 is 1.5 to pypi/version.go and a *)
(* pre-release of 1.0.0 to the semver library.                             *)
ReadAlike(text) ==
    LET v == ParseVersion[text] IN
    /\ v.epoch = 0 /\ ~v.hasPre /\ ~v.hasPost /\ ~v.hasDev /\ v.local = <<>>
    /\ Len(v.release) <= 3
    /\ NewVersion[text] = [i \in 1..4 |-> Part(v.release, i)]

(* Whatever the registry did between the requests, when a check ends with  *)
(* "patch", "minor" or "major" the registry lists the latest version and   *)
(* PEP 440 puts it above the current one, if both read the current one     *)
(* alike; and when it ends "up_to_date" no stable release above the        *)
(* current one is listed, if both read the latest one alike                *)
(* (updater/staleness.go Classify on answers of two moments).              *)
StalenessIsTrue ==
    LET newer == {v \in Releases : registry[v] = "listed" /\ Rank[v] > Rank[current]} IN
    step = "done" =>
        /\ ReadAlike(current) /\ staleness \in {"patch", "minor", "major"} => latest \in newer
        /\ ReadAlike(latest) /\ staleness = "up_to_date" => \A v \in newer : isPrerelease(ParseVersion[v])

(* A check ends: transient failures of the registry do not run it forever. *)
CheckEnds == <>(step \in Ended)

=============================================================================
