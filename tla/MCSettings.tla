----------------------------- MODULE MCSettings -----------------------------
(* An instance of Settings: two requests, two plugins with one key each    *)
(* and a list of disabled plugins.                                         *)
EXTENDS Settings, TLC

CONSTANTS r1, r2

TwoKeys == {"api_key", "limit"}
TwoPlugins == <<"ballchasing", "ranks">>
TheirKeys == ("ballchasing" :> {"api_key"}) @@ ("ranks" :> {"limit"})

\* Two plugins disabled, and what becomes of that when one is posted.
SomeLists == {<<>>, <<"dejavu", "session">>, <<"session">>, <<"session", "session">>}

Post(numbers, lists, keys) == [numbers |-> numbers, lists |-> lists, keys |-> keys]

\* The number with the list, one key or the other, and everything.
SomePosts ==
  {Post({0}, {<<"session">>}, <<>>),
   Post({}, {}, "api_key" :> "a"), Post({}, {}, "limit" :> "a"),
   Post({1}, {<<"session">>}, ("api_key" :> "") @@ ("limit" :> "a"))}

Symmetric == Permutations({r1, r2})
=============================================================================
