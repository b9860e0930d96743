------------------------------- MODULE Semver -------------------------------
(***************************************************************************)
(* The order of versions, src/internal/update/update.go 220-364.           *)
(*                                                                         *)
(* A version is what parseSemver makes of a string: whether it has the     *)
(* shape of a version at all, the numbers of its core, and its prerelease  *)
(* identifiers.  An identifier is numeric or not; n is its value or, of an *)
(* alphanumeric one, its place in ASCII order.                             *)
(***************************************************************************)
EXTENDS Naturals, Sequences

PreIds == [numeric : BOOLEAN, n : Nat]

VersionType == [semver : BOOLEAN, nums : [1..3 -> Nat], pre : Seq(PreIds)]

\* comparePreID(a, b) > 0
PreIdAbove(a, b) ==
  \/ ~a.numeric /\ b.numeric
  \/ a.numeric = b.numeric /\ a.n > b.n

\* The first place where the two differ decides.
NumsAbove(a, b) ==
  \E i \in 1..3 : a.nums[i] > b.nums[i] /\ \A j \in 1..(i - 1) : a.nums[j] = b.nums[j]

PreAbove(p, q) ==
  \/ \E i \in 1..Len(p) : /\ i <= Len(q) /\ PreIdAbove(p[i], q[i])
                          /\ \A j \in 1..(i - 1) : p[j] = q[j]
  \/ Len(p) > Len(q) /\ \A j \in 1..Len(q) : p[j] = q[j]

\* A release outranks its prereleases.
PreOrReleaseAbove(p, q) ==
  \/ p = <<>> /\ q # <<>>
  \/ p # <<>> /\ q # <<>> /\ PreAbove(p, q)

\* compareSemver(a, b) > 0
Above(a, b) ==
  \/ NumsAbove(a, b)
  \/ a.nums = b.nums /\ PreOrReleaseAbove(a.pre, b.pre)

IsNewer(current, latest) ==
  current # latest /\ (current.semver /\ latest.semver => Above(latest, current))
=============================================================================
