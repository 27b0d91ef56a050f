---------------------- MODULE PackageUpdateCheckProofs ----------------------
(***************************************************************************)
(* Proofs about PackageUpdateCheck, for every project, constraint, marker  *)
(* and number of changes of the registry: releases are compared as PEP 440 *)
(* orders them, the one that is resolved is the best one, the reported     *)
(* staleness is true, and the requests are bounded.                        *)
(***************************************************************************)
EXTENDS PackageUpdateCheck, PythonVersionProofs, SequenceTheorems

(***************************************************************************)
(* The invariant: what was resolved was resolved from the last answer of   *)
(* the registry, and that answer still stands when the check is done.      *)
(***************************************************************************)
TypeInv ==
    /\ input \in Inputs
    /\ registry \in [Releases -> {"absent", "listed", "yanked"}]
    /\ step \in Requests \cup Ended
    /\ available \subseteq Releases

CurrentInv ==
    /\ step = "release" => current \in Resolved(input.constraint, available)
    /\ step \in {"release", "latest", "done"} => current \in Releases

LatestInv ==
    step = "done" =>
        /\ available = fetchAvailableVersions
        /\ latest \in Resolved({}, available)
        /\ staleness = Classify(current, latest)

CheckInv == TypeInv /\ CurrentInv /\ LatestInv

LEMMA VersionOf ==
    ASSUME NEW v \in Releases
    PROVE  ParseVersion[v] \in ParsedVersions /\ ParseVersion[v].raw = v /\ IsVersion(ParseVersion[v])
BY UpdateCheckAssumption, ParsedIsVersion DEF UpdateCheckAssumption

(* A resolved text is a release, and its version was taken. *)
LEMMA ResolvedText ==
    ASSUME NEW constraint, NEW names \in SUBSET Releases, NEW v \in Resolved(constraint, names)
    PROVE  /\ v \in names
           /\ ParseVersion[v] \in ResolveVersion(constraint, {ParseVersion[name] : name \in names})
<1> DEFINE listed == {ParseVersion[name] : name \in names}
<1>1. PICK w \in ResolveVersion(constraint, listed) : v = w.raw
  BY DEF Resolved
<1>2. w \in listed
  BY DEF ResolveVersion, candidates
<1>3. PICK name \in names : w = ParseVersion[name]
  BY <1>2
<1>4. name = v
  BY <1>1, <1>3, VersionOf
<1> QED
  BY <1>1, <1>3, <1>4

LEMMA CheckInit == Init => CheckInv
BY UpdateCheckAssumption DEF Init, CheckInv, TypeInv, CurrentInv, LatestInv, UpdateCheckAssumption, Requests, Ended

LEMMA CheckStep == CheckInv /\ [Next]_vars => CheckInv'
<1> SUFFICES ASSUME CheckInv, [Next]_vars PROVE CheckInv'
  OBVIOUS
<1> USE DEF CheckInv, TypeInv, CurrentInv, LatestInv, Requests, Ended
<1>1. fetchAvailableVersions \subseteq Releases
  BY DEF fetchAvailableVersions
<1>2. CASE RequestFails
  BY <1>2 DEF RequestFails
<1>3. CASE ResponseUnusable
  BY <1>3 DEF ResponseUnusable, FailPermanently
<1>4. CASE FetchVersions
  <2>1. available' = fetchAvailableVersions /\ UNCHANGED <<input, registry>>
    BY <1>4 DEF FetchVersions
  <2>2. CASE step' = "dead"
    BY <1>1, <2>1, <2>2
  <2>3. CASE step' = "release" /\ current' \in Resolved(input.constraint, fetchAvailableVersions)
    <3>1. current' \in Releases
      BY <1>1, <2>3, ResolvedText
    <3>2. Resolved(input.constraint, available)' = Resolved(input.constraint, fetchAvailableVersions)
      BY <2>1 DEF Resolved
    <3> QED
      BY <1>1, <2>1, <2>3, <3>1, <3>2
  <2> QED
    BY <1>4, <2>2, <2>3 DEF FetchVersions, FailPermanently
<1>5. CASE FetchRelease
  <2>1. /\ step = "release" /\ UNCHANGED <<input, registry, available>>
        /\ \/ step' = "dead"
           \/ step' = "latest" /\ current' \in InfoVersion[current] \ {Nothing}
    BY <1>5 DEF FetchRelease, FailPermanently
  <2>2. InfoVersion[current] \subseteq Releases \cup {Nothing}
    BY <2>1, UpdateCheckAssumption DEF UpdateCheckAssumption
  <2> QED
    BY <2>1, <2>2
<1>6. CASE FetchLatest
  <2>1. /\ available' = fetchAvailableVersions /\ UNCHANGED <<input, registry, current>>
        /\ fetchAvailableVersions' = fetchAvailableVersions
    BY <1>6 DEF FetchLatest, fetchAvailableVersions, FailPermanently
  <2>2. CASE step' = "dead"
    BY <1>1, <2>1, <2>2
  <2>3. CASE /\ step' = "done" /\ latest' \in Resolved({}, fetchAvailableVersions)
             /\ staleness' = Classify(current, latest')
    <3>1. step = "latest"
      BY <1>6 DEF FetchLatest
    <3>2. Resolved({}, available)' = Resolved({}, fetchAvailableVersions)
      BY <2>1 DEF Resolved
    <3> QED
      BY <1>1, <2>1, <2>3, <3>1, <3>2
  <2> QED
    BY <1>6, <2>2, <2>3 DEF FetchLatest, FailPermanently
<1>7. CASE RegistryChanges
  <2>1. UNCHANGED <<input, step, available, current, latest, staleness>> /\ step # "done"
    BY <1>7 DEF RegistryChanges
  <2>2. registry' \in [Releases -> {"absent", "listed", "yanked"}]
    BY <1>7 DEF RegistryChanges
  <2>3. Resolved(input.constraint, available)' = Resolved(input.constraint, available)
    BY <2>1 DEF Resolved
  <2> QED
    BY <2>1, <2>2, <2>3
<1>8. CASE UNCHANGED vars
  BY <1>8 DEF vars, fetchAvailableVersions, Resolved
<1> QED
  BY <1>2, <1>3, <1>4, <1>5, <1>6, <1>7, <1>8 DEF Next, Handler, Terminated

(* The inductive invariant of the update check. *)
THEOREM CheckInvHolds == Spec => []CheckInv
BY CheckInit, CheckStep, PTL DEF Spec

(***************************************************************************)
(* The resolved release.                                                   *)
(***************************************************************************)
LEMMA ListedAreVersions ==
    ASSUME NEW names \in SUBSET Releases
    PROVE  \A v \in {ParseVersion[name] : name \in names} : IsVersion(v)
BY VersionOf

(* Rank, the place of a release in PEP 440 order, is the order of Compare. *)
LEMMA RankCompares ==
    ASSUME NEW v \in Releases, NEW w \in Releases
    PROVE  /\ Compare(ParseVersion[v], ParseVersion[w]) = compareInt(Rank[v], Rank[w])
           /\ Rank[v] > Rank[w] <=> Compare(ParseVersion[v], ParseVersion[w]) > 0
<1> DEFINE x == ParseVersion[v]
           y == ParseVersion[w]
<1>1. /\ Rank[v] \in Nat /\ Rank[w] \in Nat
      /\ Rank[v] < Rank[w] <=> Precedes(x, y)
      /\ Rank[w] < Rank[v] <=> Precedes(y, x)
  BY UpdateCheckAssumption DEF UpdateCheckAssumption
<1>2. IsVersion(x) /\ IsVersion(y)
  BY VersionOf
<1> HIDE DEF x, y
<1>3. Compare(x, y) \in Signs
  BY <1>2, CompareAntisymmetric
<1>4. /\ Compare(x, y) < 0 <=> Precedes(x, y)
      /\ Compare(x, y) > 0 <=> Precedes(y, x)
  BY <1>2, CompareIsPEP440
<1>5. Compare(x, y) = compareInt(Rank[v], Rank[w]) /\ (Rank[v] > Rank[w] <=> Compare(x, y) > 0)
  BY <1>1, <1>3, <1>4 DEF compareInt, Signs
<1> QED
  BY <1>5 DEF x, y

(* Version.Compare puts the releases any registry lists in PEP 440 order. *)
THEOREM VersionsInPEP440OrderHolds == Spec => []VersionsInPEP440Order
<1>1. CheckInv => VersionsInPEP440Order
  <2> SUFFICES ASSUME CheckInv, NEW v \in available, NEW w \in available
               PROVE  Compare(ParseVersion[v], ParseVersion[w]) = compareInt(Rank[v], Rank[w])
    BY DEF VersionsInPEP440Order
  <2>1. v \in Releases /\ w \in Releases
    BY DEF CheckInv, TypeInv
  <2> QED
    BY <2>1, RankCompares
<1> QED
  BY <1>1, CheckInvHolds, PTL

LEMMA BestIsResolved == CheckInv => ResolvedIsBest
<1> SUFFICES ASSUME CheckInv, step = "release" PROVE ResolvedIsBest
  BY DEF ResolvedIsBest
<1> DEFINE listed == {ParseVersion[name] : name \in available}
           clauses == input.constraint
<1>1. available \in SUBSET Releases /\ current \in Resolved(clauses, available)
  BY DEF CheckInv, TypeInv, CurrentInv
<1>2. current \in available /\ ParseVersion[current] \in ResolveVersion(clauses, listed)
  BY <1>1, ResolvedText
<1>3. \A v \in listed : IsVersion(v)
  BY <1>1, ListedAreVersions
<1>4. \A name \in available : ParseVersion[name] \in listed
  OBVIOUS
<1>5. \A v \in available : Rank[v] > Rank[current] => Compare(ParseVersion[v], ParseVersion[current]) > 0
  BY <1>1, <1>2, RankCompares
<1> HIDE DEF listed, clauses
<1>6. /\ matchesClauses(ParseVersion[current], clauses)
      /\ \A v \in listed :
            matchesClauses(v, clauses) /\ Compare(v, ParseVersion[current]) > 0 =>
               isPrerelease(v) /\ ~isPrerelease(ParseVersion[current]) /\ ~permitsPrerelease(clauses)
      /\ isPrerelease(ParseVersion[current]) /\ ~permitsPrerelease(clauses) =>
            \A v \in listed : matchesClauses(v, clauses) => isPrerelease(v)
  BY <1>2, <1>3, ResolvesToBest
<1> QED
  BY <1>2, <1>4, <1>5, <1>6 DEF ResolvedIsBest, clauses

(* Whatever releases the registry lists, the one an update check takes     *)
(* satisfies the constraint and no other that does is higher, pre-releases *)
(* nobody asked for apart (ResolveVersion in FetchPackage).                *)
THEOREM ResolvedIsBestHolds == Spec => []ResolvedIsBest
BY CheckInvHolds, BestIsResolved, PTL

(***************************************************************************)
(* Staleness.                                                              *)
(***************************************************************************)

(* The library's order: the first of the four numbers that differs. *)
LEMMA FirstHigher ==
    ASSUME NEW l \in [1..4 -> Int], NEW c \in [1..4 -> Int]
    PROVE  GreaterThan(l, c) <=> \E k \in 1..4 : l[k] > c[k] /\ \A i \in 1..4 : i < k => l[i] = c[i]
<1> DEFINE cs == [i \in 1..4 |-> compareInt(l[i], c[i])]
           differ == {i \in DOMAIN cs : cs[i] # 0}
<1>1. /\ DOMAIN cs = 1..4
      /\ \A i \in 1..4 : /\ cs[i] = 0 <=> l[i] = c[i]
                         /\ cs[i] > 0 <=> l[i] > c[i]
  BY DEF compareInt
<1>2. differ \subseteq 1..4 /\ \A i \in 1..4 : i \in differ <=> l[i] # c[i]
  BY <1>1
<1>3. FirstOf(cs) = IF differ = {} THEN 0 ELSE cs[Lowest(differ)]
  BY DEF FirstOf
<1>4. GreaterThan(l, c) <=> FirstOf(cs) > 0
  BY DEF GreaterThan
<1> HIDE DEF cs, differ
<1>5. CASE differ = {}
  BY <1>2, <1>3, <1>4, <1>5
<1>6. CASE differ # {}
  <2>1. Lowest(differ) \in differ /\ \A m \in differ : Lowest(differ) <= m
    BY <1>2, <1>6, LowestLeast
  <2> DEFINE k == Lowest(differ)
  <2>a. GreaterThan(l, c) <=> cs[k] > 0
    BY <1>3, <1>4, <1>6
  <2> HIDE DEF k
  <2>b. k \in differ /\ \A m \in differ : k <= m
    BY <2>1 DEF k
  <2>2. k \in 1..4 /\ l[k] # c[k] /\ \A i \in 1..4 : i < k => l[i] = c[i]
    <3>1. k \in 1..4 /\ l[k] # c[k]
      BY <1>2, <2>b
    <3>2. ASSUME NEW i \in 1..4, i < k PROVE l[i] = c[i]
      <4>1. i \notin differ
        BY <2>b, <3>1, <3>2
      <4> QED
        BY <1>2, <4>1
    <3> QED
      BY <3>1, <3>2
  <2>3. GreaterThan(l, c) <=> l[k] > c[k]
    BY <1>1, <2>a, <2>2
  <2> QED
    BY <2>2, <2>3
<1> QED
  BY <1>5, <1>6

(* What the library reads is the release with its last numbers zeroed. *)
LEMMA SemverReading ==
    ASSUME NEW v \in Releases, IsSemver(v)
    PROVE  /\ NewVersion[v] \in [1..4 -> Int] /\ ParseVersion[v].epoch = 0
           /\ \E n \in 1..3 : \A i \in 1..3 :
                NewVersion[v][i] = IF i <= n THEN Number(ParseVersion[v].release, i) ELSE 0
           /\ NewVersion[v][4] <= 0
           /\ NewVersion[v][4] = 0 => ~isPrerelease(ParseVersion[v])
           /\ \A i \in Nat \ {0} : Number(ParseVersion[v].release, i) \in Nat
<1>1. ParseVersion[v].release \in Seq(Nat)
  BY VersionOf DEF ParsedVersions
<1>2. \A i \in Nat \ {0} : /\ Number(ParseVersion[v].release, i) = Part(ParseVersion[v].release, i)
                           /\ Number(ParseVersion[v].release, i) \in Nat
  BY <1>1 DEF Number, Part
<1>3. NewVersion[v] # <<>> /\ NewVersion[v] \in {<<>>} \cup [1..4 -> Int]
  BY UpdateCheckAssumption DEF UpdateCheckAssumption, IsSemver
<1>4. /\ ParseVersion[v].epoch = 0
      /\ \E n \in 1..3 : \A i \in 1..3 :
            NewVersion[v][i] = IF i <= n THEN Part(ParseVersion[v].release, i) ELSE 0
      /\ NewVersion[v][4] <= 0
      /\ NewVersion[v][4] = 0 => ~isPrerelease(ParseVersion[v])
  BY <1>3, UpdateCheckAssumption DEF UpdateCheckAssumption
<1> QED
  BY <1>2, <1>3, <1>4

(* Of a text read alike it is the release itself. *)
LEMMA AlikeReading ==
    ASSUME NEW v \in Releases, ReadAlike(v)
    PROVE  /\ \A i \in 1..4 : NewVersion[v][i] = Number(ParseVersion[v].release, i)
           /\ DOMAIN ParseVersion[v].release \subseteq 1..3
<1>1. /\ ParseVersion[v].release \in Seq(Nat) /\ Len(ParseVersion[v].release) <= 3
      /\ \A i \in 1..4 : NewVersion[v][i] = Part(ParseVersion[v].release, i)
  BY VersionOf DEF ParsedVersions, ReadAlike
<1> QED
  BY <1>1 DEF Number, Part

(* A level is only reported for a latest version that is higher: where the *)
(* library reads a higher number, the release has it too.                  *)
LEMMA LevelIsHigher ==
    ASSUME NEW c \in Releases, NEW l \in Releases, ReadAlike(c), Classify(c, l) \in {"patch", "minor", "major"}
    PROVE  Precedes(ParseVersion[c], ParseVersion[l])
<1> DEFINE C == ParseVersion[c].release
           L == ParseVersion[l].release
           nc == NewVersion[c]
           nl == NewVersion[l]
<1>1. /\ IsSemver(c) /\ IsSemver(l) /\ GreaterThan(nl, nc)
      /\ \E i \in 1..3 : nl[i] > nc[i]
  BY DEF Classify
<1>2. /\ nc \in [1..4 -> Int] /\ nl \in [1..4 -> Int]
      /\ ParseVersion[c].epoch = 0 /\ ParseVersion[l].epoch = 0
      /\ \A i \in Nat \ {0} : Number(C, i) \in Nat
      /\ \A i \in 1..4 : nc[i] = Number(C, i)
  BY <1>1, SemverReading, AlikeReading
<1>3. PICK n \in 1..3 : \A i \in 1..3 : nl[i] = IF i <= n THEN Number(L, i) ELSE 0
  BY <1>1, SemverReading
<1>4. L \in Seq(Nat)
  BY VersionOf DEF ParsedVersions
<1> HIDE DEF C, L, nc, nl
<1>5. PICK k \in 1..4 : nl[k] > nc[k] /\ \A i \in 1..4 : i < k => nl[i] = nc[i]
  BY <1>1, <1>2, FirstHigher
<1>6. k \in 1..3
  BY <1>1, <1>2, <1>5
<1>7. nl[k] > 0 /\ k <= n
  BY <1>2, <1>3, <1>5, <1>6
<1>8. Number(C, k) < Number(L, k)
  BY <1>2, <1>3, <1>5, <1>6, <1>7
<1>9. \A j \in 1..(k - 1) : Number(C, j) = Number(L, j)
  BY <1>2, <1>3, <1>5, <1>6, <1>7
<1>10. k \in DOMAIN L
  BY <1>2, <1>6, <1>8, <1>4 DEF Number
<1>11. LowerRelease(C, L)
  BY <1>8, <1>9, <1>10 DEF LowerRelease
<1> QED
  BY <1>2, <1>11 DEF Precedes, C, L

(* A latest version read alike that is reported as no update is not        *)
(* higher: the release of the current one has at least what the library    *)
(* reads of it.                                                            *)
LEMMA UpToDateIsNotHigher ==
    ASSUME NEW c \in Releases, NEW l \in Releases, ReadAlike(l), Classify(c, l) = "up_to_date"
    PROVE  ~Precedes(ParseVersion[c], ParseVersion[l])
<1> SUFFICES ASSUME Precedes(ParseVersion[c], ParseVersion[l]) PROVE FALSE
  OBVIOUS
<1> DEFINE C == ParseVersion[c].release
           L == ParseVersion[l].release
           nc == NewVersion[c]
           nl == NewVersion[l]
<1>1. IsSemver(c) /\ IsSemver(l) /\ ~GreaterThan(nl, nc)
  <2>1. \A i \in 1..3 : Level[i] # "up_to_date"
    BY DEF Level
  <2> DEFINE higher == {i \in 1..3 : nl[i] > nc[i]}
  <2>2. higher # {} => Lowest(higher) \in 1..3
    BY LowestLeast
  <2>3. Classify(c, l) = IF ~IsSemver(c) \/ ~IsSemver(l) THEN "unknown"
                         ELSE IF ~GreaterThan(nl, nc) THEN "up_to_date"
                         ELSE IF higher = {} THEN "unknown" ELSE Level[Lowest(higher)]
    BY DEF Classify
  <2> HIDE DEF higher
  <2> QED
    BY <2>1, <2>2, <2>3
<1>2. /\ nc \in [1..4 -> Int] /\ nl \in [1..4 -> Int]
      /\ ParseVersion[c].epoch = 0 /\ ParseVersion[l].epoch = 0
      /\ nc[4] = 0 => ~isPrerelease(ParseVersion[c])
      /\ \A i \in Nat \ {0} : Number(C, i) \in Nat /\ Number(L, i) \in Nat
      /\ \A i \in 1..4 : nl[i] = Number(L, i)
      /\ DOMAIN L \subseteq 1..3 /\ nc[4] <= 0
  BY <1>1, SemverReading, AlikeReading
<1>3. PICK n \in 1..3 : \A i \in 1..3 : nc[i] = IF i <= n THEN Number(C, i) ELSE 0
  BY <1>1, SemverReading
<1>4. /\ ~ParseVersion[l].hasPre /\ ~ParseVersion[l].hasPost /\ ~ParseVersion[l].hasDev
      /\ ParseVersion[l].local = <<>>
  BY DEF ReadAlike
<1>5. \A i \in 1..3 : nc[i] <= Number(C, i)
  BY <1>2, <1>3
<1>a. C \in Seq(Nat) /\ L \in Seq(Nat)
  BY VersionOf DEF ParsedVersions
<1>6. ASSUME NEW k \in 1..4, nl[k] > nc[k], \A i \in 1..4 : i < k => nl[i] >= nc[i]
      PROVE  FALSE
  <2> HIDE DEF C, L, nc, nl
  <2>1. \E j \in 1..4 : nl[j] > nc[j] /\ \A i \in 1..4 : i < j => nl[i] = nc[i]
    <3>1. CASE \A i \in 1..4 : i < k => nl[i] = nc[i]
      BY <1>6, <3>1
    <3>2. CASE nl[1] > nc[1]
      BY <3>2
    <3>3. CASE nl[1] = nc[1] /\ nl[2] > nc[2]
      BY <3>3
    <3>4. CASE nl[1] = nc[1] /\ nl[2] = nc[2] /\ nl[3] > nc[3]
      BY <3>4
    <3> QED
      BY <1>2, <1>6, <3>1, <3>2, <3>3, <3>4
  <2> QED
    BY <1>1, <1>2, <2>1, FirstHigher
<1>7. CASE LowerRelease(C, L)
  <2> HIDE DEF C, L, nc, nl
  <2>1. PICK k \in DOMAIN C \cup DOMAIN L : /\ Number(C, k) < Number(L, k)
                                          /\ \A j \in 1..(k - 1) : Number(C, j) = Number(L, j)
    BY <1>7 DEF LowerRelease
  <2>2. k \in Nat \ {0}
    BY <1>a
  <2>3. k \in DOMAIN L
    BY <1>2, <2>1, <2>2 DEF Number
  <2>4. k \in 1..3 /\ nl[k] > nc[k]
    BY <1>2, <1>5, <2>1, <2>3
  <2>5. \A i \in 1..4 : i < k => nl[i] >= nc[i]
    BY <1>2, <1>5, <2>1, <2>4
  <2> QED
    BY <1>6, <2>4, <2>5
<1>8. CASE ~LowerRelease(C, L)
  <2>1. SameRelease(C, L)
    BY <1>2, <1>8 DEF Precedes
  <2>2. isPrerelease(ParseVersion[c])
    <3>1. ~LowerPost(ParseVersion[c], ParseVersion[l]) /\ ~LowerLocal(ParseVersion[c].local, ParseVersion[l].local)
      BY <1>4 DEF LowerPost, LowerLocal
    <3>2. LowerPhase(ParseVersion[c], ParseVersion[l]) \/ LowerDev(ParseVersion[c], ParseVersion[l])
      BY <1>2, <1>8, <3>1 DEF Precedes
    <3> QED
      BY <3>2 DEF LowerPhase, LowerDev, DevOfRelease, isPrerelease
  <2> HIDE DEF C, L, nc, nl
  <2>3. \A i \in 1..4 : Number(C, i) = Number(L, i)
    BY <2>1 DEF SameRelease, Number
  <2>4. nl[4] = 0
    BY <1>2 DEF Number
  <2>5. nl[4] > nc[4] /\ \A i \in 1..4 : i < 4 => nl[i] >= nc[i]
    BY <1>2, <1>5, <2>2, <2>3, <2>4
  <2> QED
    BY <1>6, <2>5
<1> QED
  BY <1>7, <1>8

LEMMA StalenessFromInv == CheckInv => StalenessIsTrue
<1> SUFFICES ASSUME CheckInv, step = "done" PROVE StalenessIsTrue
  BY DEF StalenessIsTrue
<1> DEFINE listed == {ParseVersion[name] : name \in available}
<1>1. /\ available \in SUBSET Releases /\ current \in Releases /\ available = fetchAvailableVersions
      /\ latest \in Resolved({}, available) /\ staleness = Classify(current, latest)
  BY DEF CheckInv, TypeInv, CurrentInv, LatestInv
<1>2. latest \in available /\ ParseVersion[latest] \in ResolveVersion({}, listed) /\ latest \in Releases
  BY <1>1, ResolvedText
<1>3. Rank \in [Releases -> Nat] /\ (Rank[current] < Rank[latest] <=> Precedes(ParseVersion[current], ParseVersion[latest]))
  BY <1>1, <1>2, UpdateCheckAssumption DEF UpdateCheckAssumption
<1>4. \A v \in listed : IsVersion(v)
  BY <1>1, ListedAreVersions
<1>5. ASSUME ReadAlike(latest), staleness = "up_to_date",
             NEW v \in Releases, registry[v] = "listed", Rank[v] > Rank[current]
      PROVE  isPrerelease(ParseVersion[v])
  <2>1. ParseVersion[v] \in listed /\ matchesClauses(ParseVersion[v], {})
    BY <1>1, <1>5 DEF fetchAvailableVersions, matchesClauses
  <2>2. Rank[v] > Rank[latest]
    <3>1. ~ (Rank[current] < Rank[latest])
      BY <1>1, <1>2, <1>3, <1>5, UpToDateIsNotHigher
    <3> QED
      BY <1>1, <1>2, <1>3, <1>5, <3>1
  <2>3. Compare(ParseVersion[v], ParseVersion[latest]) > 0
    BY <1>2, <2>2, RankCompares
  <2> HIDE DEF listed
  <2> QED
    BY <1>2, <1>4, <2>1, <2>3, ResolvesToBest
<1>6. ASSUME ReadAlike(current), staleness \in {"patch", "minor", "major"}
      PROVE  latest \in Releases /\ registry[latest] = "listed" /\ Rank[latest] > Rank[current]
  <2>1. Rank[current] < Rank[latest]
    BY <1>1, <1>2, <1>3, <1>6, LevelIsHigher
  <2> QED
    BY <1>1, <1>2, <1>3, <2>1 DEF fetchAvailableVersions
<1> QED
  BY <1>5, <1>6 DEF StalenessIsTrue

(* The reported staleness is true of the registry the last request saw,    *)
(* whatever it did before: "patch", "minor" and "major" name a release     *)
(* that is listed and above the current one, if semver and PEP 440 read    *)
(* the current one alike, and nothing stable above it is listed when it is *)
(* "up_to_date", if they read the latest one alike (the update check's     *)
(* handler and Classify of updater/staleness.go).                          *)
THEOREM StalenessIsTrueHolds == Spec => []StalenessIsTrue
BY CheckInvHolds, StalenessFromInv, PTL

(***************************************************************************)
(* Specifiers.                                                             *)
(***************************************************************************)
LEMMA SpecifierSign ==
    ASSUME NEW v \in ParsedVersions, NEW s \in ParsedVersions
    PROVE  compareSpecifierVersion(v, s) \in Signs
<1> DEFINE w == IF s.local = <<>> THEN [v EXCEPT !.local = <<>>] ELSE v
<1>1. <<>> \in Seq(Segments)
  OBVIOUS
<1>2. w \in ParsedVersions
  BY <1>1 DEF ParsedVersions
<1> HIDE DEF w
<1>3. Compare(w, s) \in Signs
  BY <1>2, ParsedIsVersion, CompareAntisymmetric
<1> QED
  BY <1>3 DEF compareSpecifierVersion, w

(* A clause without a wildcard, as the switch of matchesClauses reads it. *)
LEMMA ClauseMeaning ==
    ASSUME NEW v, NEW c, c.wildcard = FALSE
    PROVE  LET compared == compareSpecifierVersion(v, c.version) IN
           /\ c.operator = "==" => (matchesClause(v, c) <=> compared = 0)
           /\ c.operator = "!=" => (matchesClause(v, c) <=> compared # 0)
           /\ c.operator = "<" => (matchesClause(v, c) => compared < 0)
           /\ c.operator = "<=" => (matchesClause(v, c) <=> compared <= 0)
           /\ c.operator = ">" => (matchesClause(v, c) => compared > 0)
           /\ c.operator = ">=" => (matchesClause(v, c) <=> compared >= 0)
           /\ c.operator = "~=" => (matchesClause(v, c) <=> compared >= 0 /\ compatiblePrefix(v, c.version))
BY DEF matchesClause

LEMMA LawsFromInv == CheckInv => SpecifierLaws
<1> SUFFICES ASSUME CheckInv, NEW v \in available, NEW c \in input.constraint,
                    c.operator # "===", ~c.wildcard
             PROVE  LET Is(operator) == matchesClause(ParseVersion[v], With(c, operator, c.version, FALSE))
                        r == c.version.release
                        prefix == IF Len(r) = 1 THEN r ELSE SubSeq(r, 1, Len(r) - 1)
                        InSeries == matchesClause(ParseVersion[v],
                                      With(c, "==", [c.version EXCEPT !.release = prefix], TRUE))
                    IN  /\ c.operator = "~=" => (Is("~=") <=> Is(">=") /\ InSeries)
                        /\ Is("!=") <=> ~Is("==")
                        /\ ~(Is("<") /\ Is(">=")) /\ ~(Is(">") /\ Is("<="))
                        /\ Is("==") => Is(">=") /\ Is("<=")
  BY DEF SpecifierLaws
<1> DEFINE V == ParseVersion[v]
           s == c.version
           r == s.release
           p == IF Len(r) = 1 THEN r ELSE SubSeq(r, 1, Len(r) - 1)
           compared == compareSpecifierVersion(V, s)
           Is(operator) == matchesClause(V, With(c, operator, s, FALSE))
           Series == With(c, "==", [s EXCEPT !.release = p], TRUE)
<1>1. /\ V \in ParsedVersions /\ c \in Clauses
  BY UpdateCheckAssumption, VersionOf DEF UpdateCheckAssumption, CheckInv, TypeInv
<1>2. s \in ParsedVersions
  BY <1>1 DEF Clauses
<1>3. compared \in Signs
  BY <1>1, <1>2, SpecifierSign
<1>4. ASSUME NEW o
      PROVE  /\ With(c, o, s, FALSE).operator = o /\ With(c, o, s, FALSE).wildcard = FALSE
             /\ With(c, o, s, FALSE).version = s
  BY <1>1 DEF With, Clauses
<1>5. /\ Is("==") <=> compared = 0
      /\ Is("!=") <=> compared # 0
      /\ Is("<") => compared < 0
      /\ Is("<=") <=> compared <= 0
      /\ Is(">") => compared > 0
      /\ Is(">=") <=> compared >= 0
      /\ Is("~=") <=> compared >= 0 /\ compatiblePrefix(V, s)
  <2> HIDE DEF V, s, compared
  <2>1. ASSUME NEW o
        PROVE  /\ o = "==" => (Is(o) <=> compared = 0)
               /\ o = "!=" => (Is(o) <=> compared # 0)
               /\ o = "<" => (Is(o) => compared < 0)
               /\ o = "<=" => (Is(o) <=> compared <= 0)
               /\ o = ">" => (Is(o) => compared > 0)
               /\ o = ">=" => (Is(o) <=> compared >= 0)
               /\ o = "~=" => (Is(o) <=> compared >= 0 /\ compatiblePrefix(V, s))
    <3> DEFINE d == With(c, o, s, FALSE)
    <3>1. d.operator = o /\ d.wildcard = FALSE /\ d.version = s
      BY <1>4
    <3> HIDE DEF d
    <3>2. compared = compareSpecifierVersion(V, d.version)
      BY <3>1 DEF compared
    <3>3. /\ o = "==" => (matchesClause(V, d) <=> compared = 0)
          /\ o = "!=" => (matchesClause(V, d) <=> compared # 0)
          /\ o = "<" => (matchesClause(V, d) => compared < 0)
          /\ o = "<=" => (matchesClause(V, d) <=> compared <= 0)
          /\ o = ">" => (matchesClause(V, d) => compared > 0)
          /\ o = ">=" => (matchesClause(V, d) <=> compared >= 0)
          /\ o = "~=" => (matchesClause(V, d) <=> compared >= 0 /\ compatiblePrefix(V, s))
      BY <3>1, <3>2, ClauseMeaning
    <3> QED
      BY <3>3 DEF d
  <2> HIDE DEF Is
  <2> QED
    BY <2>1
<1>6. ASSUME c.operator = "~="
      PROVE  compatiblePrefix(V, s) <=> matchesClause(V, Series)
  <2>1. /\ Series.operator = "==" /\ Series.wildcard = TRUE
        /\ Series.version.epoch = s.epoch /\ Series.version.release = p
    BY <1>1, <1>2 DEF With, Clauses, ParsedVersions
  <2>2. matchesClause(V, Series) <=> hasPrefix(V, s.epoch, p)
    <3> HIDE DEF Series, V, s, p
    <3>1. matchesClause(V, Series) <=> TRUE = hasPrefix(V, s.epoch, p)
      BY <2>1 DEF matchesClause
    <3>2. hasPrefix(V, s.epoch, p) \in BOOLEAN
      BY DEF hasPrefix
    <3> QED
      BY <3>1, <3>2
  <2>3. p = SubSeq(r, 1, IF Len(r) > 2 THEN Len(r) - 1 ELSE 1)
    <3>1. r \in Seq(Nat) /\ r # <<>>
      BY <1>2 DEF ParsedVersions
    <3> HIDE DEF r
    <3>2. Len(r) \in Nat \ {0} /\ SubSeq(r, 1, Len(r)) = r
      BY <3>1, SubSeqFull
    <3>3. CASE Len(r) = 1
      BY <3>2, <3>3
    <3>4. CASE Len(r) # 1
      <4>1. Len(r) - 1 = IF Len(r) > 2 THEN Len(r) - 1 ELSE 1
        BY <3>2, <3>4
      <4> QED
        BY <3>4, <4>1
    <3> QED
      BY <3>3, <3>4
  <2> HIDE DEF Series, V, s, p
  <2> QED
    BY <2>2, <2>3 DEF compatiblePrefix
<1> HIDE DEF Series, compared, Is
<1>7. /\ c.operator = "~=" => (Is("~=") <=> Is(">=") /\ matchesClause(V, Series))
      /\ Is("!=") <=> ~Is("==")
      /\ ~(Is("<") /\ Is(">=")) /\ ~(Is(">") /\ Is("<="))
      /\ Is("==") => Is(">=") /\ Is("<=")
  BY <1>3, <1>5, <1>6 DEF Signs
<1> QED
  BY <1>7 DEF Is, Series

(* The clauses mean what PEP 440 defines them to mean in terms of each     *)
(* other, for every release and every constraint parseConstraint accepts   *)
(* (matchesClauses of pypi/version.go).                                    *)
THEOREM SpecifierLawsHold == Spec => []SpecifierLaws
BY CheckInvHolds, LawsFromInv, PTL

(***************************************************************************)
(* Termination.                                                            *)
(***************************************************************************)

(* The requests of an attempt that are still ahead. *)
RequestsLeft ==
    IF step = "versions" THEN 3
    ELSE IF step = "release" THEN 2
    ELSE IF step = "latest" THEN 1
    ELSE 0

(* A bound on the requests a check still makes. *)
StepsLeft == 3 * (MaxAttempts - attempts) + RequestsLeft

AttemptsInv == attempts \in 1..MaxAttempts

LEMMA AttemptsInvHolds == Spec => []AttemptsInv
<1> USE UpdateCheckAssumption DEF UpdateCheckAssumption, AttemptsInv
<1>1. Init => AttemptsInv
  BY DEF Init
<1>2. AttemptsInv /\ [Next]_vars => AttemptsInv'
  BY DEF Next, Handler, RequestFails, ResponseUnusable, FetchVersions, FetchRelease, FetchLatest,
         FailPermanently, RegistryChanges, Terminated, vars
<1> QED
  BY <1>1, <1>2, PTL DEF Spec

LEMMA StepsLeftFalls ==
    ASSUME AttemptsInv, Handler
    PROVE  StepsLeft' < StepsLeft
<1>1. MaxAttempts \in Nat /\ attempts \in 1..MaxAttempts
  BY UpdateCheckAssumption DEF UpdateCheckAssumption, AttemptsInv
<1> USE DEF StepsLeft, RequestsLeft, Requests
<1>2. CASE RequestFails
  <2>1. step \in Requests
    BY <1>2 DEF RequestFails
  <2>2. CASE attempts < MaxAttempts /\ step' = "versions" /\ attempts' = attempts + 1
    BY <1>1, <2>1, <2>2
  <2>3. CASE step' = "dead" /\ attempts' = attempts
    BY <1>1, <2>1, <2>3
  <2> QED
    BY <1>2, <2>2, <2>3 DEF RequestFails
<1>3. CASE ResponseUnusable
  BY <1>1, <1>3 DEF ResponseUnusable, FailPermanently
<1>4. CASE FetchVersions
  BY <1>1, <1>4 DEF FetchVersions, FailPermanently
<1>5. CASE FetchRelease
  BY <1>1, <1>5 DEF FetchRelease, FailPermanently
<1>6. CASE FetchLatest
  BY <1>1, <1>6 DEF FetchLatest, FailPermanently
<1> QED
  BY <1>2, <1>3, <1>4, <1>5, <1>6 DEF Handler

(* A check makes at most three requests in each attempt of its job: every  *)
(* request lowers a natural number, whether it is answered or fails, and   *)
(* nothing the registry does in between raises it.                         *)
THEOREM RequestsAreBounded ==
    Spec => /\ [](StepsLeft \in 0 .. 3 * MaxAttempts)
            /\ [][StepsLeft' <= StepsLeft /\ (Handler => StepsLeft' < StepsLeft)]_vars
<1>1. AttemptsInv => StepsLeft \in 0 .. 3 * MaxAttempts
  BY UpdateCheckAssumption DEF UpdateCheckAssumption, AttemptsInv, StepsLeft, RequestsLeft
<1>2. AttemptsInv /\ [Next]_vars => [StepsLeft' <= StepsLeft /\ (Handler => StepsLeft' < StepsLeft)]_vars
  <2> SUFFICES ASSUME AttemptsInv, Next
               PROVE  \/ StepsLeft' <= StepsLeft /\ (Handler => StepsLeft' < StepsLeft)
                      \/ UNCHANGED vars
    OBVIOUS
  <2>1. StepsLeft \in Int /\ (AttemptsInv' => StepsLeft' \in Int)
    BY UpdateCheckAssumption DEF UpdateCheckAssumption, AttemptsInv, StepsLeft, RequestsLeft
  <2>2. CASE Handler
    <3>1. attempts' \in Int
      BY <2>2, UpdateCheckAssumption DEF AttemptsInv, UpdateCheckAssumption, Handler, RequestFails, ResponseUnusable,
         FetchVersions, FetchRelease, FetchLatest, FailPermanently
    <3>2. StepsLeft' \in Int
      BY <3>1, UpdateCheckAssumption DEF UpdateCheckAssumption, StepsLeft, RequestsLeft
    <3> QED
      BY <2>1, <2>2, <3>2, StepsLeftFalls
  <2>3. CASE RegistryChanges
    <3>1. StepsLeft' = StepsLeft
      BY <2>3 DEF RegistryChanges, StepsLeft, RequestsLeft
    <3>2. ~Handler \/ StepsLeft' < StepsLeft
      BY StepsLeftFalls
    <3> QED
      BY <2>1, <3>1, <3>2
  <2> QED
    BY <2>2, <2>3 DEF Next, Terminated
<1> QED
  BY <1>1, <1>2, AttemptsInvHolds, PTL DEF Spec

=============================================================================
