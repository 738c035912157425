------------------------------ MODULE MCServices ------------------------------
EXTENDS Services

MCAtoms == {"/", ".", "?", "%2F", "sites", "actors", "groups", "token", "rotate",
            "verify", "v1", "x"}

Short == {"/", ".", "?", "%2F", "sites"}

\* Every text of at most two atoms, and the longer ones that would reach
\* somewhere else.
MCIDs ==
    {<<>>} \union {<<a>> : a \in Short} \union {<<a, b>> : a, b \in Short}
    \union {<<".", ".", "/", "actors">>,
            <<".", ".", "%2F", "actors">>,
            <<".", ".", "/", ".", ".", "/", "groups">>,
            <<"x", "/", "token", "/", "rotate">>,
            <<"x", "/", "verify", "?">>,
            <<".", ".", ".">>}

MCBases == {<<>>, <<Slash>>, <<Slash, Literal("v1")>>,
            <<Slash, Literal("v1"), Slash>>}
=============================================================================
