--------------------------------- MODULE Api ---------------------------------
(***************************************************************************)
(* The API as testdata/openapi.json describes it, and what stands in front *)
(* of it: a proxy that may normalise paths, and the router.                *)
(***************************************************************************)
EXTENDS Paths

ReadOnly ==
    {"email_otp_auth_providers", "oidc_auth_providers",
     "google_auth_providers", "entra_auth_providers", "okta_auth_providers",
     "entra_directories", "google_directories", "okta_directories"}

\* The key of the request body each collection expects.
BodyKey ==
    [sites |-> "site", resources |-> "resource", policies |-> "policy",
     groups |-> "group", actors |-> "actor", clients |-> "client"]

\* A route: the verb, the path with ":id" for a parameter, the key of the
\* body ("" for none) and what a successful answer holds.
Route(op, verb, path, key, answer) ==
    [op |-> op, verb |-> verb, path |-> path, key |-> key, answer |-> answer]

ReadRoutes(c) ==
    {Route(<<c, "List">>, "GET", <<c>>, "", "page"),
     Route(<<c, "Get">>, "GET", <<c, ":id">>, "", "data")}

WriteRoutes(c) ==
    {Route(<<c, "Update">>, "PATCH", <<c, ":id">>, BodyKey[c], "data"),
     Route(<<c, "Put">>, "PUT", <<c, ":id">>, BodyKey[c], "data"),
     Route(<<c, "Delete">>, "DELETE", <<c, ":id">>, "", "data")}

CreateRoute(c) == Route(<<c, "Create">>, "POST", <<c>>, BodyKey[c], "data")

MemberRoutes(c, members) ==
    LET path == <<c, ":id", members>>
    IN {Route(<<members, "List">>, "GET", path, "", "page"),
        Route(<<members, "ReplaceAll">>, "PUT", path, members, "data"),
        Route(<<members, "Patch">>, "PATCH", path, members, "data")}

GatewayRoutes ==
    LET gateways == <<"sites", ":id", "gateways">>
        gateway == gateways \o <<":id">>
        token == gateway \o <<"token">>
    IN {Route(<<"gateways", "List">>, "GET", gateways, "", "page"),
        Route(<<"gateways", "Provision">>, "POST", gateways, "gateway", "data"),
        Route(<<"gateways", "Get">>, "GET", gateway, "", "data"),
        Route(<<"gateways", "Update">>, "PATCH", gateway, "gateway", "data"),
        Route(<<"gateways", "Put">>, "PUT", gateway, "gateway", "data"),
        Route(<<"gateways", "Delete">>, "DELETE", gateway, "", "data"),
        Route(<<"gateways", "CreateToken">>, "POST", token, "", "data"),
        Route(<<"gateways", "RotateToken">>, "POST", token \o <<"rotate">>,
              "", "data")}

VerifyRoutes ==
    {Route(<<"clients", "Verify">>, "PUT",
           <<"clients", ":id", "verify">>, "", "data"),
     Route(<<"clients", "Unverify">>, "PUT",
           <<"clients", ":id", "unverify">>, "", "data")}

\* What the collections offer: all can be read, some can be changed, and
\* clients register themselves.
Reading == UNION {ReadRoutes(c) : c \in ReadOnly \union DOMAIN BodyKey}
Writing == UNION {WriteRoutes(c) : c \in DOMAIN BodyKey}
Making == {CreateRoute(c) : c \in DOMAIN BodyKey \ {"clients"}}

Routes ==
    Reading \union Writing \union Making
    \union MemberRoutes("groups", "memberships")
    \union MemberRoutes("resources", "pool_members")
    \union GatewayRoutes \union VerifyRoutes

-----------------------------------------------------------------------------

\* The path ends at the first unescaped question mark.
BeforeQuery(wire) ==
    LET end == SelectInSeq(wire, LAMBDA w : w = Literal("?"))
    IN IF end = 0 THEN wire ELSE SubSeq(wire, 1, end - 1)

\* The segments between unescaped slashes.
Split(wire) ==
    FoldLeft(LAMBDA segments, w :
                IF w = Slash
                THEN Append(segments, <<>>)
                ELSE Append(Front(segments), Append(Last(segments), w)),
             <<<<>>>>, wire)

\* A normalising proxy drops empty and "." segments and resolves "..".
Normalised(segments) ==
    FoldLeft(LAMBDA kept, s :
                IF s \in {<<>>, <<Literal(".")>>} THEN kept
                ELSE IF s # <<Literal("."), Literal(".")>> THEN Append(kept, s)
                ELSE IF kept = <<>> THEN kept ELSE Front(kept),
             <<>>, segments)

\* The segments of a path, which starts with a slash.  A server that does
\* not normalise sees empty and dot segments as they are.
Segments(wire, normalise) ==
    LET segments == Tail(Split(BeforeQuery(wire)))
    IN IF normalise THEN Normalised(segments) ELSE segments

\* The segments below the base path, decoded, as the router sees them.
Routed(base, wire, normalise) ==
    LET segments == Segments(wire, normalise)
        depth == Len(Segments(TrimSlash(base), normalise))
    IN [i \in 1..(Len(segments) - depth) |-> PathUnescape(segments[depth + i])]

Matches(route, verb, segments) ==
    /\ route.verb = verb
    /\ Len(route.path) = Len(segments)
    /\ \A i \in DOMAIN segments :
           route.path[i] = ":id" \/ segments[i] = <<route.path[i]>>

\* The parameters a route takes from the segments it matches.
Parameters(route, segments) ==
    FoldLeftDomain(LAMBDA ids, i :
                       IF route.path[i] = ":id" THEN Append(ids, segments[i])
                       ELSE ids,
                   <<>>, segments)

=============================================================================
