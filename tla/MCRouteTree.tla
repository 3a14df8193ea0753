---------------------------- MODULE MCRouteTree ----------------------------
\* A few routes, mounted and walked two or three names deep.
EXTENDS RouteTree, FiniteSets

MCParams == {"{x}", "{y}"}
MCGlobs == {"a*", "?"}
MCRegexps == {"{_glob0:a.*}", "{_glob0:.}", "{_wildcard0:.*}"}
MCGlobRegexp == ("a*" :> "{_glob0:a.*}") @@ ("?" :> "{_glob0:.}")
  @@ ("*" :> "{_wildcard0:.*}")
\* The expression made of "?" is a dot: nothing in its text looks like a glob.
MCStarred == {"{_glob0:a.*}", "{_wildcard0:.*}"}
MCRexOf == [r \in MCRegexps |-> r]

MCNames == {<<"a">>, <<"b">>, <<"a", "b">>}
MCLanguage == [w \in MCGlobs \cup MCRegexps |->
  CASE w \in {"a*", "{_glob0:a.*}"} -> {n \in MCNames : Head(n) = "a"}
    [] w \in {"?", "{_glob0:.}"} -> {n \in MCNames : Len(n) = 1}
    [] OTHER -> MCNames]

\* Literals, two parameters of one level with different children, a catch-all,
\* and globs: a last name, a name below a directory, a star on the way.
MCScriptPatterns ==
  { <<"/", "a">>, <<"/", "a", "/", "b">>,
    <<"/", "{x}", "/", "b">>, <<"/", "{y}", "/", "a">>, <<"/", "a", "/", "*">>,
    <<"/", "a*">>, <<"/", "a", "/", "?">>, <<"/", "*", "/", "b">> }
MCRoutes == {ConvertGlobPattern(p) : p \in MCScriptPatterns}
=============================================================================
