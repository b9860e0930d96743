SPECIFICATION FairSpec
CONSTANTS
  Releases <- MCReleases
  Builds <- MCBuilds
  Requests = {r1}
INVARIANTS NeverGoesBack OffersAreAnnounced
PROPERTY PageCatchesUp
