------------------------------ MODULE MCBuild -------------------------------
EXTENDS Build

Parts == {"a", "b", "", ".", "..", "spinfoam.h", "bad", "long"}
Names == {<<p>> : p \in Parts} \cup (Parts \X Parts)
Bundle(names) == [n \in names |-> [name |-> n, len |-> Len(n)]]
MCBundles == {Bundle({m, n}) : m, n \in Names}
               \cup {<<>>, Bundle({<<"a">>, <<"b">>, <<"long">>})}
MCPaths == {<<"", "src", "a">>, <<"", "src", "b", "..", ".", "a">>,
            <<"", "src", "spinfoam.h">>, <<"", "src", "..", "src", "a">>,
            <<"src", "a">>, <<"", "src", "a", "b">>}
MCSDK == [name |-> <<"SDK">>, len |-> 3]
Char(raw, w) == [raw |-> raw, text |-> w]
MCMessages == {<<>>, <<Char(1, 1)>>, <<Char(3, 3)>>, <<Char(1, 3)>>,
               <<Char(3, 3), Char(3, 3)>>}
=============================================================================
