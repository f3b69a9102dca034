------------------------------ MODULE MCGuest -------------------------------
EXTENDS Guest

Nested(v) == Tree("array", <<v>>)
MCTexts == {Nested(Nested(Null)), Tree("array", <<Null, Null, Null>>)}
MCPayloads == {Nested(Null), Nested(Nested(Null))}
MCConfig == Tree("object", <<Null>>)
MCCapabilities == {[name |-> "c", arguments |-> <<Null>>]}
=============================================================================
