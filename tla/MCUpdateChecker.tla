--------------------------- MODULE MCUpdateChecker ---------------------------
(***************************************************************************)
(* Versions for TLC: a chain in the order that docs/dev/auto-update.md and *)
(* the examples of Semantic Versioning 2.0.0 give, against which IsNewer   *)
(* is checked, and a release history with prereleases and a late patch.    *)
(***************************************************************************)
EXTENDS UpdateChecker

Num(n) == [numeric |-> TRUE, n |-> n]
Word(n) == [numeric |-> FALSE, n |-> n]
V(major, minor, patch, pre) ==
  [semver |-> TRUE, nums |-> <<major, minor, patch>>, pre |-> pre]

alpha == Word(1)
beta == Word(2)
dev == Word(3)
rc == Word(4)

\* v1.9.0 < v1.10.0-alpha < -alpha.1 < -alpha.beta < -beta < -beta.2 < -beta.11 < -dev.1
\* < -dev.2 < -rc.1 < v1.10.0 < v1.10.1-dev.1 < v1.10.1 < v2.0.0-dev.1 < v2.0.0
Chain == <<
  V(1, 9, 0, <<>>), V(1, 10, 0, <<alpha>>), V(1, 10, 0, <<alpha, Num(1)>>),
  V(1, 10, 0, <<alpha, beta>>), V(1, 10, 0, <<beta>>), V(1, 10, 0, <<beta, Num(2)>>),
  V(1, 10, 0, <<beta, Num(11)>>), V(1, 10, 0, <<dev, Num(1)>>), V(1, 10, 0, <<dev, Num(2)>>),
  V(1, 10, 0, <<rc, Num(1)>>), V(1, 10, 0, <<>>), V(1, 10, 1, <<dev, Num(1)>>),
  V(1, 10, 1, <<>>), V(2, 0, 0, <<dev, Num(1)>>), V(2, 0, 0, <<>>) >>

ASSUME ChainIsOrdered ==
  \A i, j \in 1..Len(Chain) : IsNewer(Chain[i], Chain[j]) <=> i < j

LocalBuild == [semver |-> FALSE, nums |-> <<0, 0, 0>>, pre |-> <<>>]

MCReleases == {V(1, 0, 0, <<>>), V(1, 1, 0, <<dev, Num(1)>>), V(1, 1, 0, <<>>)}
MCBuilds == {LocalBuild, V(1, 0, 0, <<>>)}
=============================================================================
