---------------------------- MODULE UpdateProofs ----------------------------
(***************************************************************************)
(* Theorems about Semver and UpdateChecker.  The order of versions is      *)
(* irreflexive and transitive; with it, every version that ran before is   *)
(* below the one that runs, and every offer is above it.                   *)
(***************************************************************************)
EXTENDS UpdateChecker, TLAPS, WellFoundedInduction

Version == [semver : BOOLEAN, nums : [1..3 -> Nat], pre : Seq(PreIds)]

-----------------------------------------------------------------------------
(* The order                                                               *)

LEMMA IdsAreOrdered ==
  ASSUME NEW a \in PreIds, NEW b \in PreIds, NEW c \in PreIds
  PROVE  /\ ~PreIdAbove(a, a)
         /\ PreIdAbove(a, b) /\ PreIdAbove(b, c) => PreIdAbove(a, c)
BY DEF PreIds, PreIdAbove

LEMMA NumsAreOrdered ==
  ASSUME NEW a \in Version, NEW b \in Version, NEW c \in Version
  PROVE  /\ ~NumsAbove(a, a)
         /\ NumsAbove(a, b) /\ NumsAbove(b, c) => NumsAbove(a, c)
<1> USE DEF NumsAbove
<1>1. \A v \in {a, b, c} : \A i \in 1..3 : v.nums[i] \in Nat
  BY DEF Version
<1>2. ~NumsAbove(a, a)
  BY <1>1
<1>3. ASSUME NumsAbove(a, b), NumsAbove(b, c) PROVE NumsAbove(a, c)
  <2>1. PICK i \in 1..3 : a.nums[i] > b.nums[i] /\ \A j \in 1..(i - 1) : a.nums[j] = b.nums[j]
    BY <1>3
  <2>2. PICK k \in 1..3 : b.nums[k] > c.nums[k] /\ \A j \in 1..(k - 1) : b.nums[j] = c.nums[j]
    BY <1>3
  <2>3. CASE i < k
    BY <1>1, <2>1, <2>2, <2>3
  <2>4. CASE i = k
    BY <1>1, <2>1, <2>2, <2>4
  <2>5. CASE k < i
    BY <1>1, <2>1, <2>2, <2>5
  <2> QED BY <2>3, <2>4, <2>5
<1> QED BY <1>2, <1>3

LEMMA PreAreOrdered ==
  ASSUME NEW p \in Seq(PreIds), NEW q \in Seq(PreIds), NEW r \in Seq(PreIds)
  PROVE  /\ ~PreAbove(p, p)
         /\ PreAbove(p, q) /\ PreAbove(q, r) => PreAbove(p, r)
<1> USE DEF PreAbove
<1>1. /\ \A i \in 1..Len(p) : p[i] \in PreIds
      /\ \A i \in 1..Len(q) : q[i] \in PreIds
      /\ \A i \in 1..Len(r) : r[i] \in PreIds
      /\ Len(p) \in Nat /\ Len(q) \in Nat /\ Len(r) \in Nat
  OBVIOUS
<1>2. ~PreAbove(p, p)
  BY <1>1, IdsAreOrdered
\* First(s, t, i): s and t differ first at i, and s is above there.
<1> DEFINE First(s, t, i) == /\ i \in 1..Len(s) /\ i <= Len(t) /\ PreIdAbove(s[i], t[i])
                             /\ \A j \in 1..(i - 1) : s[j] = t[j]
           Longer(s, t) == Len(s) > Len(t) /\ \A j \in 1..Len(t) : s[j] = t[j]
<1>3. ASSUME NEW i, NEW k, First(p, q, i), First(q, r, k) PROVE PreAbove(p, r)
  <2>1. CASE i < k
    <3>1. First(p, r, i)
      BY <1>1, <1>3, <2>1
    <3> QED BY <3>1
  <2>2. CASE i = k
    <3>1. PreIdAbove(p[i], r[i])
      BY <1>1, <1>3, <2>2, IdsAreOrdered
    <3>2. First(p, r, i)
      BY <1>1, <1>3, <2>2, <3>1
    <3> QED BY <3>2
  <2>3. CASE k < i
    <3>1. k \in 1..Len(p) /\ p[k] = q[k] /\ k <= Len(r)
      BY <1>1, <1>3, <2>3
    <3>2. \A j \in 1..(k - 1) : p[j] = r[j]
      BY <1>1, <1>3, <2>3
    <3>3. First(p, r, k)
      BY <1>3, <3>1, <3>2
    <3> QED BY <3>3
  <2> QED BY <1>1, <1>3, <2>1, <2>2, <2>3
<1>4. ASSUME NEW i, First(p, q, i), Longer(q, r) PROVE PreAbove(p, r)
  <2>1. CASE i <= Len(r)
    <3>1. First(p, r, i)
      BY <1>1, <1>4, <2>1
    <3> QED BY <3>1
  <2>2. CASE i > Len(r)
    <3>1. Longer(p, r)
      BY <1>1, <1>4, <2>2
    <3> QED BY <3>1
  <2> QED BY <1>1, <1>4, <2>1, <2>2
<1>5. ASSUME NEW k, Longer(p, q), First(q, r, k) PROVE PreAbove(p, r)
  <2>1. First(p, r, k)
    BY <1>1, <1>5
  <2> QED BY <2>1
<1>6. ASSUME Longer(p, q), Longer(q, r) PROVE PreAbove(p, r)
  <2>1. Longer(p, r)
    BY <1>1, <1>6
  <2> QED BY <2>1
<1>7. /\ PreAbove(p, q) => Longer(p, q) \/ \E i : First(p, q, i)
      /\ PreAbove(q, r) => Longer(q, r) \/ \E k : First(q, r, k)
  OBVIOUS
<1> HIDE DEF First, Longer
<1> QED BY <1>2, <1>3, <1>4, <1>5, <1>6, <1>7

\* compareSemver is a strict order, on every version the parser accepts: a release is never
\* above itself, and what is above something above it is above it.
THEOREM VersionsAreOrdered ==
  ASSUME NEW a \in Version, NEW b \in Version, NEW c \in Version
  PROVE  /\ ~Above(a, a)
         /\ Above(a, b) /\ Above(b, c) => Above(a, c)
<1>1. a.pre \in Seq(PreIds) /\ b.pre \in Seq(PreIds) /\ c.pre \in Seq(PreIds)
  BY DEF Version
<1>2. /\ ~PreOrReleaseAbove(a.pre, a.pre)
      /\ PreOrReleaseAbove(a.pre, b.pre) /\ PreOrReleaseAbove(b.pre, c.pre)
           => PreOrReleaseAbove(a.pre, c.pre)
  BY <1>1, PreAreOrdered DEF PreOrReleaseAbove
<1>3. /\ NumsAbove(a, b) /\ b.nums = c.nums => NumsAbove(a, c)
      /\ a.nums = b.nums /\ NumsAbove(b, c) => NumsAbove(a, c)
  BY DEF NumsAbove
<1> QED BY <1>2, <1>3, NumsAreOrdered DEF Above

\* Two lists of identifiers that differ, differ first somewhere, or one begins with the other.
LEMMA PreCompare ==
  ASSUME NEW p \in Seq(PreIds), NEW q \in Seq(PreIds), p # q
  PROVE  PreAbove(p, q) \/ PreAbove(q, p)
<1>1. /\ Len(p) \in Nat /\ Len(q) \in Nat
      /\ \A i \in 1..Len(p) : p[i] \in PreIds
      /\ \A i \in 1..Len(q) : q[i] \in PreIds
  OBVIOUS
<1> DEFINE Differ == {i \in Nat : i \in 1..Len(p) /\ i <= Len(q) /\ p[i] # q[i]}
<1>2. CASE Differ # {}
  <2>1. PICK i \in Differ : \A j \in Differ : <<j, i>> \notin OpToRel(<, Nat)
    BY <1>2, NatLessThanWellFounded, WFMin
  <2>2. \A j \in Differ : ~(j < i)
    BY <2>1 DEF OpToRel
  <2>3. /\ i \in 1..Len(p) /\ i \in 1..Len(q) /\ p[i] # q[i]
        /\ \A j \in 1..(i - 1) : p[j] = q[j]
    BY <1>1, <2>2
  <2>4. p[i] \in PreIds /\ q[i] \in PreIds
    BY <1>1, <2>3
  <2>5. PreIdAbove(p[i], q[i]) \/ PreIdAbove(q[i], p[i])
    BY <2>3, <2>4 DEF PreIdAbove, PreIds
  <2> QED BY <1>1, <2>3, <2>5 DEF PreAbove
<1>3. CASE Differ = {}
  <2>1. \A i \in 1..Len(p) : i <= Len(q) => p[i] = q[i]
    BY <1>1, <1>3
  <2>2. Len(p) # Len(q)
    BY <1>1, <2>1
  <2> QED BY <1>1, <2>1, <2>2 DEF PreAbove
<1> QED BY <1>2, <1>3

\* compareSemver leaves no two versions uncompared: of two that are neither the same
\* numbers nor the same prerelease, one is above the other.  A manifest that names another
\* version is therefore an upgrade or a downgrade, never neither.
THEOREM VersionsCompare ==
  ASSUME NEW a \in Version, NEW b \in Version
  PROVE  Above(a, b) \/ Above(b, a) \/ (a.nums = b.nums /\ a.pre = b.pre)
<1>1. a.pre \in Seq(PreIds) /\ b.pre \in Seq(PreIds) /\ a.nums \in [1..3 -> Nat] /\ b.nums \in [1..3 -> Nat]
  BY DEF Version
<1>2. CASE a.nums = b.nums
  <2>1. a.pre # b.pre => PreOrReleaseAbove(a.pre, b.pre) \/ PreOrReleaseAbove(b.pre, a.pre)
    BY <1>1, PreCompare DEF PreOrReleaseAbove
  <2> QED BY <1>2, <2>1 DEF Above
<1>3. CASE a.nums # b.nums
  <2> DEFINE A(i) == a.nums[i]
             B(i) == b.nums[i]
  <2>1. \A i \in 1..3 : A(i) \in Nat /\ B(i) \in Nat
    BY <1>1
  <2>2. A(1) # B(1) \/ A(2) # B(2) \/ A(3) # B(3)
    BY <1>1, <1>3
  <2>3. \E i \in 1..3 : A(i) # B(i) /\ \A j \in 1..(i - 1) : A(j) = B(j)
    <3>1. CASE A(1) # B(1)
      BY <3>1
    <3>2. CASE A(1) = B(1) /\ A(2) # B(2)
      BY <3>2
    <3>3. CASE A(1) = B(1) /\ A(2) = B(2) /\ A(3) # B(3)
      BY <3>3
    <3> QED BY <2>2, <3>1, <3>2, <3>3
  <2>4. PICK i \in 1..3 : A(i) # B(i) /\ \A j \in 1..(i - 1) : A(j) = B(j)
    BY <2>3
  <2>5. A(i) > B(i) \/ B(i) > A(i)
    BY <2>1, <2>4
  <2> QED BY <2>4, <2>5 DEF Above, NumsAbove
<1> QED BY <1>2, <1>3

-----------------------------------------------------------------------------
(* Offers                                                                  *)

\* Every status, of the checker, of the page and of a check under way, is about a release,
\* and says of it whether it is newer than the version that runs.
Verdicts ==
  \A st \in {status, page} \cup {reply[c] : c \in Checkers} :
    st # <<>> => st[1].latest \in Releases /\ st[1].available = IsNewer(current, st[1].latest)

\* What has been read, and what can be read, is a release.
Sources ==
  /\ \A ch \in Channels : manifest[ch] # <<>> => manifest[ch][1] \in Releases
  /\ \A c \in Checkers : found[c] # <<>> => found[c][1] \in Releases
  /\ \A c \in Checkers : pc[c] = "record" => found[c] # <<>>
  /\ \A c \in Checkers : channel[c] \in Channels

\* The version that runs is above every version that ran before, as far as they are versions.
Progress ==
  /\ current \in Version /\ ran \subseteq Version
  /\ \A v \in ran : v.semver => current.semver /\ Above(current, v)

Domains ==
  /\ DOMAIN reply = Checkers /\ DOMAIN found = Checkers /\ DOMAIN pc = Checkers
  /\ DOMAIN channel = Checkers /\ DOMAIN manifest = Channels

IInv == Domains /\ Verdicts /\ Sources /\ Progress

LEMMA ReleasesAreVersions == Releases \subseteq Version /\ Builds \subseteq Version
BY UpdateAssumption DEF VersionType, Version

LEMMA InitIInv == Init => IInv
<1> SUFFICES ASSUME Init PROVE IInv
  OBVIOUS
<1> USE DEF Init, Quiet
<1>1. Domains
  BY DEF Domains
<1>2. \A st \in {status, page} \cup {reply[c] : c \in Checkers} : st = <<>>
  OBVIOUS
<1>3. Verdicts
  BY <1>2 DEF Verdicts
<1>4. Sources
  BY DEF Sources, Channels
<1>5. Progress
  BY ReleasesAreVersions DEF Progress
<1> QED BY <1>1, <1>3, <1>4, <1>5 DEF IInv

LEMMA StepIInv == IInv /\ [Next]_vars => IInv'
<1> SUFFICES ASSUME IInv, [Next]_vars PROVE IInv'
  OBVIOUS
<1> USE DEF IInv, Domains, Verdicts, Sources, Progress
<1>1. ASSUME NEW v \in Releases, Release(v) PROVE IInv'
  BY <1>1 DEF Release, checkers, Channels
<1>2. CASE ToggleDevMode \/ UNCHANGED vars
  BY <1>2 DEF ToggleDevMode, checkers, vars
<1>3. CASE Install
  <2> DEFINE v == page[1].latest
  <2>1. v \in Releases /\ IsNewer(current, v) /\ current' = v /\ ran' = ran \cup {current}
    BY <1>3 DEF Install, IsOffer
  <2>2. v \in Version /\ v.semver
    BY <2>1, ReleasesAreVersions, UpdateAssumption
  <2>3. current.semver => Above(v, current)
    BY <2>1, <2>2 DEF IsNewer
  <2>4. \A u \in ran : u.semver => Above(v, u)
    BY <2>2, <2>3, VersionsAreOrdered
  <2> HIDE DEF v
  <2>5. Progress'
    BY <2>1, <2>2, <2>3, <2>4
  <2>6. Domains' /\ Sources'
    BY <1>3 DEF Install, Channels
  <2>7. \A st \in {status', page'} \cup {reply'[c] : c \in Checkers} : st = <<>>
    BY <1>3 DEF Install
  <2>8. Verdicts'
    BY <2>7
  <2> QED BY <2>5, <2>6, <2>8
<1>4. CASE Poll
  BY <1>4 DEF Poll, checkers
<1>5. ASSUME NEW c \in Checkers, Begin(c) PROVE IInv'
  BY <1>5 DEF Begin, BeginOn, Channels
<1>6. ASSUME NEW c \in Checkers, Fetch(c) PROVE IInv'
  BY <1>6 DEF Fetch, FetchAny
<1>7. ASSUME NEW c \in Checkers, FetchFails(c) PROVE IInv'
  BY <1>7 DEF FetchFails
<1>8. ASSUME NEW c \in Checkers, Record(c) PROVE IInv'
  BY <1>8 DEF Record, Verdict
<1>9. ASSUME NEW c \in Checkers, Announce(c) PROVE IInv'
  BY <1>9 DEF Announce
<1>10. ASSUME NEW c \in Checkers, Answer(c) PROVE IInv'
  BY <1>10 DEF Answer
<1> HIDE DEF IInv
<1> QED BY <1>1, <1>2, <1>3, <1>4, <1>5, <1>6, <1>7, <1>8, <1>9, <1>10 DEF Next, CheckStep

\* No offer leads back to a version that ran before, for any set of releases, published in
\* any order, and any number of checks at once.
THEOREM NoPhantomDowngrade == Spec => []NeverGoesBack
<1>1. IInv => NeverGoesBack
  <2> SUFFICES ASSUME IInv, NEW st \in {status, page}, IsOffer(st)
               PROVE  st[1].latest \notin ran \cup {current}
    BY DEF NeverGoesBack
  <2>1. st[1].latest \in Releases /\ IsNewer(current, st[1].latest)
    BY DEF IInv, Verdicts, IsOffer
  <2>2. /\ st[1].latest \in Version /\ st[1].latest.semver
        /\ current \in Version /\ ran \subseteq Version
    BY <2>1, ReleasesAreVersions, UpdateAssumption DEF IInv, Progress
  <2>3. ASSUME st[1].latest \in ran PROVE FALSE
    <3>1. Above(current, st[1].latest) /\ Above(st[1].latest, current)
      BY <2>1, <2>2, <2>3 DEF IInv, Progress, IsNewer
    <3> QED BY <2>2, <3>1, VersionsAreOrdered
  <2> QED BY <2>1, <2>3 DEF IsNewer
<1> QED BY InitIInv, StepIInv, <1>1, PTL DEF Spec

\* No offer is left for the next poll to show, however checks interleave: each was pushed, or
\* its check is on the way to push it.
THEOREM OffersReachPages == Spec => []OffersAreAnnounced
<1>1. Init => OffersAreAnnounced
  BY DEF Init, OffersAreAnnounced, IsOffer
<1>2. IInv /\ OffersAreAnnounced /\ [Next]_vars => OffersAreAnnounced'
  <2> SUFFICES ASSUME IInv, OffersAreAnnounced, [Next]_vars PROVE OffersAreAnnounced'
    OBVIOUS
  <2> USE DEF OffersAreAnnounced, IsOffer
  <2>0. DOMAIN pc = Checkers /\ DOMAIN reply = Checkers
    BY DEF IInv, Domains
  <2>1. CASE ToggleDevMode \/ Install \/ Poll \/ UNCHANGED vars \/ \E v \in Releases : Release(v)
    BY <2>1 DEF ToggleDevMode, Install, Poll, Release, vars, checkers
  <2>2. ASSUME NEW c \in Checkers, Begin(c) \/ Fetch(c) \/ FetchFails(c) \/ Answer(c)
        PROVE  OffersAreAnnounced'
    BY <2>0, <2>2 DEF Begin, BeginOn, Fetch, FetchAny, FetchFails, Answer
  <2>3. ASSUME NEW c \in Checkers, Announce(c) PROVE OffersAreAnnounced'
    BY <2>0, <2>3 DEF Announce
  <2>4. ASSUME NEW c \in Checkers, Record(c) PROVE OffersAreAnnounced'
    <3>1. CASE IsNews(status, status')
      BY <2>0, <2>4, <3>1 DEF Record, IsNews
    <3>2. CASE ~IsNews(status, status')
      <4>1. IsOffer(status)' => IsOffer(status) /\ status[1].latest = status'[1].latest
        BY <3>2 DEF IsNews
      <4>2. \A d \in Checkers : pc[d] = "announce" => pc'[d] = "announce" /\ reply'[d] = reply[d]
        BY <2>0, <2>4 DEF Record
      <4>3. pushed' = pushed
        BY <2>4 DEF Record
      <4> QED BY <4>1, <4>2, <4>3
    <3> QED BY <3>1, <3>2
  <2> HIDE DEF OffersAreAnnounced
  <2> QED BY <2>1, <2>2, <2>3, <2>4 DEF Next, CheckStep
<1> QED BY InitIInv, StepIInv, <1>1, <1>2, PTL DEF Spec
=============================================================================
