---------------------------- MODULE MCRadixTree ----------------------------
\* Routes over the characters / a b - and paths of up to four of them.
EXTENDS RadixTree, FiniteSets

CONSTANTS read, write

\* The router never looks at which operation it is.
OpsAlike == Permutations(Ops)

MCParams == {"{x}", "{y}"}
MCRegexps == {"{n:a*}", "{m:[ab]*}"}
MCRexOf == ("{n:a*}" :> "a*") @@ ("{m:[ab]*}" :> "[ab]*")

Chars == {"/", "a", "b", "-"}
MCPaths == {<<"/">> \o s : s \in BoundedSeq(Chars, 3)}
Words(cs) == BoundedSeq(cs, 3) \ {<<>>}
MCLanguage == ("a*" :> Words({"a"})) @@ ("[ab]*" :> Words({"a", "b"}))

\* Static splits, params against literals and expressions, tails, the catch-all.
MCPatterns ==
  { <<"/">>, <<"/", "a">>, <<"/", "a", "b">>, <<"/", "a", "/", "b">>,
    <<"/", "{x}">>, <<"/", "{y}", "/", "b">>, <<"/", "{x}", "-", "b">>, <<"/", "{y}", "b">>,
    <<"/", "a", "{x}">>, <<"/", "a", "/", "*">>, <<"/", "*">>,
    <<"/", "{n:a*}">>, <<"/", "{m:[ab]*}", "/", "a">>, <<"/", "{n:a*}", "-", "b">>,
    <<"/", "{n:a*}", "/", "{x}">> }
=============================================================================
