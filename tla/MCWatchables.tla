---------------------------- MODULE MCWatchables ----------------------------
(* Registries of up to MaxDefinitions definitions over three paths, with   *)
(* room for two RPVs, list requests with and without filters, and details  *)
(* of paths that may be known or not.                                      *)
EXTENDS WatchableList

CONSTANT MaxDefinitions   \* bound: definitions the datasource returns

MCPaths == {<<"/", "a">>, <<"/", "b">>, <<"/", "a", "b">>}
MCDefinitions == UNION {[1..n -> WatchableDefinition] : n \in 0..MaxDefinitions}

Unfiltered(n) == [NoRequest EXCEPT !.max_per = n]
ByType(n, T) == [Unfiltered(n) EXCEPT !.by_type = TRUE, !.types = T]
ByName(n, P) == [Unfiltered(n) EXCEPT !.by_name = TRUE, !.names = P]

MCListRequests ==
    {Unfiltered(n) : n \in 0..3}
    \cup {ByType(2, T) : T \in {{}, {"var"}, {"rpv", "alias"}, {"other"}}}
    \cup {ByName(1, {p}) : p \in
            {<<"*">>, <<"*", "b">>, <<"/", "?">>, <<"/", "*", "a", "*">>, <<"?", "*", "?", "?">>, <<>>}}
    \cup {[ByName(2, {<<"*", "a">>, <<"/", "b">>}) EXCEPT !.by_type = TRUE, !.types = {"rpv"}]}

MCInfoRequests == {<<<<"/", "a">>, <<"/", "b">>>>, <<<<"/", "a", "b">>, <<"/", "a">>, <<"/", "a", "b">>>>}

=============================================================================
