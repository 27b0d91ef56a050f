--------------------------- MODULE PythonVersion ---------------------------
(***************************************************************************)
(* Versions and version constraints of pypi/version.go: the order of       *)
(* Version.Compare, the clauses a constraint is made of and which release  *)
(* ResolveVersion takes.                                                   *)
(*                                                                         *)
(* A version is what ParseVersion makes of its text: a record with the     *)
(* text's name (raw), the epoch, the release numbers, the three optional   *)
(* suffixes and the local segments.  A constraint is the set of clauses    *)
(* parseConstraint makes: records [operator, wildcard, dotted, version],   *)
(* dotted if the text has a dot before any + or -.                         *)
(***************************************************************************)
EXTENDS Integers, Sequences, FiniteSets

(* A local segment: a number, or a word by its place among words. *)
Segments == [number : BOOLEAN, value : Int]

(* What ParseVersion returns, and what parseConstraint makes of a clause. *)
ParsedVersions ==
    [raw : STRING, epoch : Nat, release : Seq(Nat) \ {<<>>}, hasPre : BOOLEAN, preKind : Nat, preNum : Nat,
     hasPost : BOOLEAN, postNum : Nat, hasDev : BOOLEAN, devNum : Nat, local : Seq(Segments)]

Operators == {"===", "==", "!=", "<", "<=", ">", ">=", "~="}

Clauses == [operator : Operators, wildcard : BOOLEAN, dotted : BOOLEAN, version : ParsedVersions]

compareInt(left, right) == IF left < right THEN -1 ELSE IF left > right THEN 1 ELSE 0

Lowest(S) == CHOOSE n \in S : \A m \in S : n <= m

(* The first comparison of the sequence cs that is not zero. *)
FirstOf(cs) ==
    LET differ == {i \in DOMAIN cs : cs[i] # 0}
    IN  IF differ = {} THEN 0 ELSE cs[Lowest(differ)]

(* Defect: releases of different length are compared without padding. *)
Part_Short(release, i) == IF i <= Len(release) THEN release[i] ELSE -1

(* Missing release numbers are zero. *)
Part(release, i) == IF i <= Len(release) THEN release[i] ELSE 0

Longer(left, right) == IF Len(left) > Len(right) THEN Len(left) ELSE Len(right)

compareRelease(left, right) ==
    FirstOf([i \in 1..Longer(left, right) |-> compareInt(Part(left, i), Part(right, i))])

(* A pre-release comes before the release, a development release that is   *)
(* neither a pre- nor a post-release before all of them.                   *)
PreKey(v) ==
    IF v.hasPre THEN <<0, v.preKind, v.preNum>>
    ELSE IF v.hasDev /\ ~v.hasPost THEN <<-1, 0, 0>> ELSE <<1, 0, 0>>

comparePre(left, right) ==
    FirstOf([i \in 1..3 |-> compareInt(PreKey(left)[i], PreKey(right)[i])])

compareOptionalNumber(leftSet, left, rightSet, right, missingRank) ==
    IF ~leftSet /\ ~rightSet THEN 0
    ELSE IF ~leftSet THEN missingRank
    ELSE IF ~rightSet THEN -missingRank
    ELSE compareInt(left, right)

(* Segments of a local version: numbers come after words. *)
compareSegment(left, right) ==
    IF left.number = right.number THEN compareInt(left.value, right.value)
    ELSE IF left.number THEN 1 ELSE -1

compareLocal(left, right) ==
    LET shorter == IF Len(left) < Len(right) THEN Len(left) ELSE Len(right)
    IN  FirstOf([i \in 1..shorter |-> compareSegment(left[i], right[i])]
                  \o <<compareInt(Len(left), Len(right))>>)

Compare(v, other) ==
    FirstOf(<<compareInt(v.epoch, other.epoch),
              compareRelease(v.release, other.release),
              comparePre(v, other),
              compareOptionalNumber(v.hasPost, v.postNum, other.hasPost, other.postNum, -1),
              compareOptionalNumber(v.hasDev, v.devNum, other.hasDev, other.devNum, 1),
              compareLocal(v.local, other.local)>>)

isPrerelease(v) == v.hasPre \/ v.hasDev

(***************************************************************************)
(* Clauses.                                                                *)
(***************************************************************************)

(* What parseConstraint refuses.  It counts the dots of ~=V where PEP 440  *)
(* wants two release numbers: ~=1.dev1 passes, ~=1-1 does not.  The        *)
(* version of a wildcard clause has only an epoch and release numbers.     *)
validConstraint(clauses) ==
    \A c \in clauses :
        /\ c.operator = "~=" => c.dotted
        /\ c.operator = "===" => Cardinality(clauses) = 1
        /\ c.wildcard => c.operator \in {"==", "!="}

permitsPrerelease(clauses) ==
    \E c \in clauses : c.operator # "===" /\ ~c.wildcard /\ isPrerelease(c.version)

(* A specified version without local segments matches any local version. *)
compareSpecifierVersion(candidate, specified) ==
    Compare(IF specified.local = <<>> THEN [candidate EXCEPT !.local = <<>>] ELSE candidate, specified)

samePublicRelease(left, right) ==
    left.epoch = right.epoch /\ compareRelease(left.release, right.release) = 0

hasPrefix(v, epoch, prefix) ==
    /\ v.epoch = epoch
    /\ Len(v.release) >= Len(prefix)
    /\ \A i \in DOMAIN prefix : v.release[i] = prefix[i]

(* Defect: the last release number is compared as well. *)
compatiblePrefix_Whole(candidate, minimum) == hasPrefix(candidate, minimum.epoch, minimum.release)

(* All but the last of the minimum's release numbers, and at least one. *)
compatiblePrefix(candidate, minimum) ==
    LET n == Len(minimum.release)
    IN  hasPrefix(candidate, minimum.epoch, SubSeq(minimum.release, 1, IF n > 2 THEN n - 1 ELSE 1))

matchesClause(v, c) ==
    LET compared == compareSpecifierVersion(v, c.version) IN
    IF c.operator = "===" THEN v.raw = c.version.raw
    ELSE IF c.wildcard THEN (c.operator = "==") = hasPrefix(v, c.version.epoch, c.version.release)
    ELSE CASE c.operator = "==" -> compared = 0
           [] c.operator = "!=" -> compared # 0
           [] c.operator = "<" -> /\ compared < 0
                                  /\ c.version.hasPre \/ ~samePublicRelease(v, c.version) \/ ~isPrerelease(v)
           [] c.operator = "<=" -> compared <= 0
           [] c.operator = ">" -> /\ compared > 0
                                  /\ c.version.hasPost \/ ~samePublicRelease(v, c.version) \/ ~v.hasPost
           [] c.operator = ">=" -> compared >= 0
           [] c.operator = "~=" -> compared >= 0 /\ compatiblePrefix(v, c.version)

matchesClauses(v, clauses) == \A c \in clauses : matchesClause(v, c)

(***************************************************************************)
(* ResolveVersion.                                                         *)
(***************************************************************************)

(* Defect: pre-releases take part whenever they match. *)
candidates_All(clauses, available) == {v \in available : matchesClauses(v, clauses)}

(* Stable releases, and pre-releases only if a clause names one or no      *)
(* stable release matches.                                                 *)
candidates(clauses, available) ==
    LET matching == {v \in available : matchesClauses(v, clauses)}
        stable == {v \in matching : ~isPrerelease(v)}
    IN  IF permitsPrerelease(clauses) \/ stable = {} THEN matching ELSE stable

(* The answers ResolveVersion may give: sort.Slice is not stable and the   *)
(* list of releases comes out of a map, so that of several spellings of    *)
(* the highest version any may be last.                                    *)
ResolveVersion(clauses, available) ==
    LET found == candidates(clauses, available)
    IN  {v \in found : \A w \in found : Compare(w, v) <= 0}

=============================================================================
