------------------------ MODULE MCPackageUpdateCheck ------------------------
(***************************************************************************)
(* Releases, constraints and markers for PackageUpdateCheck.               *)
(***************************************************************************)
EXTENDS PackageUpdateCheck, PythonMarker, SequencesExt

Version(raw, release) ==
    [raw |-> raw, epoch |-> 0, release |-> release, hasPre |-> FALSE, preKind |-> 0, preNum |-> 0,
     hasPost |-> FALSE, postNum |-> 0, hasDev |-> FALSE, devNum |-> 0, local |-> <<>>]

Pre(raw, release, kind, num) == [Version(raw, release) EXCEPT !.hasPre = TRUE, !.preKind = kind, !.preNum = num]
Post(v, raw, num) == [v EXCEPT !.raw = raw, !.hasPost = TRUE, !.postNum = num]
Dev(v, raw, num) == [v EXCEPT !.raw = raw, !.hasDev = TRUE, !.devNum = num]

V10 == Version("1.0", <<1, 0>>)
V142 == Version("1.4.2", <<1, 4, 2>>)
V20rc1 == Pre("2.0rc1", <<2, 0>>, 2, 1)

(* PEP 440 order, equal versions together. *)
Ascending == <<
    {Dev(V10, "1.0.dev1", 1)},
    {Pre("1.0a1", <<1, 0>>, 0, 1)},
    {V10, Version("1.0.0", <<1, 0, 0>>)},
    {Dev(Post(V10, "1.0.post1", 1), "1.0.post1.dev2", 2)},
    {Post(V10, "1.0.post1", 1)},
    {Version("1.4", <<1, 4>>)},
    {V142},
    {Version("1-5", <<1, 5>>)},
    {V20rc1, Pre("2.0-rc1", <<2, 0>>, 2, 1)},
    {Version("2.0", <<2, 0>>)},
    {[Version("1!0.5", <<0, 5>>) EXCEPT !.epoch = 1]} >>

Versions == UNION Range(Ascending)
MCReleases == {v.raw : v \in Versions}
MCParseVersion == [name \in MCReleases |-> CHOOSE v \in Versions : v.raw = name]
MCRank == [name \in MCReleases |-> CHOOSE i \in DOMAIN Ascending : MCParseVersion[name] \in Ascending[i]]

(* The semver library: numbers, and what follows a hyphen as a pre-release *)
(* ("5" before "rc1").                                                     *)
MCNewVersion ==
    [name \in MCReleases |->
       LET v == MCParseVersion[name] IN
       CASE name = "1-5" -> <<1, 0, 0, -2>>
         [] name = "2.0-rc1" -> <<2, 0, 0, -1>>
         [] OTHER -> IF v.epoch = 0 /\ Len(v.release) <= 3 /\ ~v.hasPre /\ ~v.hasPost /\ ~v.hasDev
                     THEN [i \in 1..4 |-> Part(v.release, i)] ELSE <<>>]

(* A release may be called by another spelling, or not at all. *)
MCInfoVersion == [name \in MCReleases |-> IF name = "1.0" THEN {"1.0", "1.0.0", Nothing} ELSE {name}]

Clause(operator, version) == [operator |-> operator, wildcard |-> FALSE, dotted |-> TRUE, version |-> version]
Series(operator, release) == [operator |-> operator, wildcard |-> TRUE, dotted |-> TRUE, version |-> Version("", release)]

Constraints ==
    {{}, {Series("==", <<1>>)}, {Series("!=", <<1, 0>>)}, {Clause("===", V10)}, {Clause("~=", V10)},
     {Clause("~=", V142)}, {Clause("~=", Dev(Version("1", <<1>>), "1.dev1", 1))}, {Clause(">=", V10), Clause("<", V20rc1)}, {Clause("!=", V10), Clause("<", Version("2.0", <<2, 0>>))}}
    \cup {{Clause(operator, v)} : operator \in {"==", "<=", ">"}, v \in {V10, Post(V10, "1.0.post1", 1), V20rc1}}

(***************************************************************************)
(* Markers over a Python 3.12 on Linux.  Text order: "", "2", "3.12",      *)
(* "3.12.0", "3.9", "linux", "linux2 win32", "posix", "win32".             *)
(***************************************************************************)
Operand(kind, value, text, holds, version) ==
    [kind |-> kind, value |-> value, text |-> text, holds |-> holds, isVersion |-> version # <<>>, version |-> Version("", version)]

Word(kind, value) == Operand(kind, value, 0, {}, <<>>)

python_version == Operand("variable", "python_version", 3, {1, 2, 3}, <<3, 12>>)
sys_platform == Operand("variable", "sys_platform", 6, {1, 6}, <<>>)
s39 == Operand("string", "3.9", 5, {1, 5}, <<3, 9>>)
linux == Operand("string", "linux", 6, {1, 6}, <<>>)
platforms == Operand("string", "linux2 win32", 7, {1, 2, 6, 7, 9}, <<>>)

(* One true and one false comparison, and one that does not parse. *)
Comparisons ==
    {<<python_version, Word("operator", o), s39>> : o \in {">=", "<", "="}}

Others == {<<sys_platform, Word("word", "in"), platforms>>,
           <<linux, Word("word", "not"), Word("word", "in"), sys_platform>>,
           <<sys_platform, Word("operator", "=="), linux>>,
           <<python_version, Word("operator", "~="), s39>>,
           <<s39, Word("operator", ">"), Word("word", "python")>>}

Or == <<Word("word", "or")>>
And == <<Word("word", "and")>>
Left == <<Word("left", "(")>>
Right == <<Word("right", ")")>>

Markers ==
    Comparisons \cup Others
    \cup {a \o x \o b \o y \o c : a, c \in Comparisons, b \in Comparisons \cup Others, x, y \in {And, Or}}
    \cup {a \o x \o Left \o b \o y \o c \o Right : a, b, c \in Comparisons, x, y \in {And, Or}}
    \cup {Left \o a \o x \o b \o close : a, b \in Comparisons, x \in {And, Or}, close \in {<<>>, Right, Right \o Right}}

(* Every constraint on every two releases, every marker on one release. *)
MCInputs ==
    [listed : {{v, w} : v, w \in MCReleases}, constraint : Constraints, marker : {<<>>}]
    \cup [listed : {{"1.0"}}, constraint : {{}}, marker : Markers]

(* The value of a marker is the one its grammar gives it (and binds more   *)
(* than or, parentheses first, one value only), and exactly the releases   *)
(* whose marker is not in the grammar are refused (EvaluateMarker of       *)
(* pypi/requirement.go).                                                   *)
MarkerFollowsGrammar ==
    input.marker # <<>> =>
        /\ step = "release" => (parseReleaseDependencies.ok <=> OrValues(input.marker, 1, Len(input.marker)) # {})
        /\ step = "latest" => OrValues(input.marker, 1, Len(input.marker)) = active

=============================================================================
