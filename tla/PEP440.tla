------------------------------- MODULE PEP440 -------------------------------
(***************************************************************************)
(* The order PEP 440 gives to versions ("Summary of permitted suffixes and *)
(* relative ordering"), said declaratively: the reference for              *)
(* Version.Compare of pypi/version.go.  A version is a record as in        *)
(* PythonVersion; nothing else is taken from there.                        *)
(***************************************************************************)
EXTENDS Integers, Sequences

(* Releases of different length: the shorter one is padded with zeros. *)
Number(release, i) == IF i \in DOMAIN release THEN release[i] ELSE 0

SameRelease(l, r) == \A i \in DOMAIN l \cup DOMAIN r : Number(l, i) = Number(r, i)

LowerRelease(l, r) ==
    \E i \in DOMAIN l \cup DOMAIN r :
        /\ Number(l, i) < Number(r, i)
        /\ \A j \in 1..(i - 1) : Number(l, j) = Number(r, j)

(* Within a release: development releases of the release itself, then the  *)
(* pre-releases, then the release with its post-releases.                  *)
DevOfRelease(v) == v.hasDev /\ ~v.hasPre /\ ~v.hasPost

SamePhase(v, w) ==
    /\ v.hasPre <=> w.hasPre
    /\ DevOfRelease(v) <=> DevOfRelease(w)
    /\ v.hasPre => v.preKind = w.preKind /\ v.preNum = w.preNum

LowerPhase(v, w) ==
    \/ DevOfRelease(v) /\ ~DevOfRelease(w)
    \/ v.hasPre /\ ~w.hasPre /\ ~DevOfRelease(w)
    \/ /\ v.hasPre /\ w.hasPre
       /\ v.preKind < w.preKind \/ (v.preKind = w.preKind /\ v.preNum < w.preNum)

(* Within a phase: post-releases come after what they correct. *)
SamePost(v, w) == (v.hasPost <=> w.hasPost) /\ (v.hasPost => v.postNum = w.postNum)

LowerPost(v, w) == w.hasPost /\ (v.hasPost => v.postNum < w.postNum)

(* Development releases come before what they prepare. *)
SameDev(v, w) == (v.hasDev <=> w.hasDev) /\ (v.hasDev => v.devNum = w.devNum)

LowerDev(v, w) == v.hasDev /\ (w.hasDev => v.devNum < w.devNum)

(* Local versions: words before numbers, a prefix before what it begins. *)
LowerSegment(s, t) ==
    \/ ~s.number /\ t.number
    \/ (s.number <=> t.number) /\ s.value < t.value

LowerLocal(l, r) ==
    \E i \in DOMAIN r :
        /\ \A j \in 1..(i - 1) : j \in DOMAIN l /\ l[j] = r[j]
        /\ i \in DOMAIN l => LowerSegment(l[i], r[i])

(* v comes before w. *)
Precedes(v, w) ==
    \/ v.epoch < w.epoch
    \/ /\ v.epoch = w.epoch
       /\ \/ LowerRelease(v.release, w.release)
          \/ /\ SameRelease(v.release, w.release)
             /\ \/ LowerPhase(v, w)
                \/ /\ SamePhase(v, w)
                   /\ \/ LowerPost(v, w)
                      \/ /\ SamePost(v, w)
                         /\ \/ LowerDev(v, w)
                            \/ SameDev(v, w) /\ LowerLocal(v.local, w.local)

=============================================================================
