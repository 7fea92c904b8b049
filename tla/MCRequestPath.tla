--------------------------- MODULE MCRequestPath ----------------------------
(* Payloads with a field of every kind next to an array, and strings with  *)
(* every kind of character.                                                *)
EXTENDS RequestCuts

MCAction == <<"A", "c">>

MCCharacters ==
    {"a", "c", "k", "n", "t", "u", "A", "P", "\"", "\\", "newline"}
        \cup DOMAIN Code \cup CutCodes

Strings == {<<>>, <<"a">>, <<"\\", "n">>, <<"\"", "u">>, <<"newline", "control">>,
            <<"eacute", "\\">>, <<"high", "low", "a">>}

MCLeaves ==
    {<<"null">>, <<"bool", TRUE>>, <<"bool", FALSE>>, <<"number", <<"1", "0">>>>,
     <<"number", <<"-", "2">>>>} \cup {<<"string", s>> : s \in Strings}

Arrays == {<<>>, <<<<"string", <<"\"">>>>>>, <<<<"number", <<"1">>>>, <<"number", <<"2">>>>>>,
           <<<<"object", {<<<<"t">>, <<"bool", TRUE>>>>}>>, <<"object", {}>>>>}

MCValues ==
    {<<"object", {<<<<"k">>, leaf>>, <<<<"\"">>, <<"array", array>>>>}>> :
        leaf \in MCLeaves, array \in Arrays}
=============================================================================
