SPECIFICATION Spec
CONSTANTS
  r1 = r1
  r2 = r2
  Requests = {r1, r2}
  Keys <- TwoKeys
  LegacyKey = "api_key"
  Values = {"", "a"}
  Unset = ""
  Numbers = {0, 1}
  Lists <- SomeLists
  Order <- TwoPlugins
  Declares <- TheirKeys
  Posts <- SomePosts
SYMMETRY Symmetric
INVARIANT FailedPostChangesNothing
