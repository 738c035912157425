------------------------------- MODULE Services -------------------------------
(***************************************************************************)
(* One call of a service method: from the caller's arguments to a request  *)
(* of the API, and from the answer to the result.  Retries, failures and   *)
(* concurrency are RetryCall's business: calls share nothing here.         *)
(***************************************************************************)
EXTENDS Api

CONSTANTS
    Atoms,  \* what texts are made of
    IDs,    \* the identifiers callers supply
    Bases   \* the path of the base URL, escaped

ASSUME IDsAssumption == IDs \subseteq Seq(Atoms)

\* A raw question mark would end the path: checkBaseURL (firezone.go:292-296)
\* and url.Parse leave none in it.
ASSUME BasesAssumption ==
    \A b \in Bases :
        /\ b \in Seq([atom : Atoms, escaped : BOOLEAN])
        /\ \A i \in DOMAIN b : b[i] # Literal("?")

\* Req is what the caller passes as the request body: a pointer, maybe nil.
Reqs == {"nil", "req"}

(***************************************************************************)
(* The methods.  A method checks "ids" in order, wraps "body" under a key  *)
(* unless the key is "", and makes one request whose answer it decodes     *)
(* into "out": one object, a page, or nothing.                             *)
(***************************************************************************)
Method(op, verb, ids, path, body, out) ==
    [op |-> op, verb |-> verb, ids |-> ids, path |-> path, body |-> body,
     out |-> out]

NoBody == [key |-> "", value |-> "none"]
Body(key, value) == [key |-> key, value |-> value]

Listing(op, ids, path) == Method(op, "GET", ids, path, NoBody, "page")
Getting(op, ids, path) == Method(op, "GET", ids, path, NoBody, "data")
Deleting(op, ids, path) == Method(op, "DELETE", ids, path, NoBody, "none")
Creating(op, ids, path, body) == Method(op, "POST", ids, path, body, "data")
Updating(op, ids, path, body) == Method(op, "PATCH", ids, path, body, "data")
Putting(op, ids, path, body) == Method(op, "PUT", ids, path, body, "data")

SitesService(id, req) ==
    {Getting(<<"sites", "Get">>, <<id>>, <<<<"sites">>, id>>),
     Listing(<<"sites", "List">>, <<>>, <<<<"sites">>>>),
     Creating(<<"sites", "Create">>, <<>>, <<<<"sites">>>>, Body("site", req)),
     Updating(<<"sites", "Update">>, <<id>>, <<<<"sites">>, id>>,
              Body("site", req)),
     Deleting(<<"sites", "Delete">>, <<id>>, <<<<"sites">>, id>>)}

GatewaysService(siteID, id, req) ==
    LET basePath(segments) ==
            <<<<"sites">>, siteID, <<"gateways">>>> \o segments
        ids == <<siteID, id>>
    IN {Getting(<<"gateways", "Get">>, ids, basePath(<<id>>)),
        Listing(<<"gateways", "List">>, <<siteID>>, basePath(<<>>)),
        Creating(<<"gateways", "Provision">>, <<siteID>>, basePath(<<>>),
                 Body("gateway", req)),
        Updating(<<"gateways", "Update">>, ids, basePath(<<id>>),
                 Body("gateway", req)),
        Creating(<<"gateways", "RotateToken">>, ids,
                 basePath(<<id, <<"token">>, <<"rotate">>>>), NoBody),
        Deleting(<<"gateways", "Delete">>, ids, basePath(<<id>>))}

ClientsService(id, req) ==
    {Getting(<<"clients", "Get">>, <<id>>, <<<<"clients">>, id>>),
     Listing(<<"clients", "List">>, <<>>, <<<<"clients">>>>),
     Updating(<<"clients", "Update">>, <<id>>, <<<<"clients">>, id>>,
              Body("client", req)),
     Deleting(<<"clients", "Delete">>, <<id>>, <<<<"clients">>, id>>),
     Putting(<<"clients", "Verify">>, <<id>>,
             <<<<"clients">>, id, <<"verify">>>>, NoBody),
     Putting(<<"clients", "Unverify">>, <<id>>,
             <<<<"clients">>, id, <<"unverify">>>>, NoBody)}

ResourcesService(id, req) ==
    {Getting(<<"resources", "Get">>, <<id>>, <<<<"resources">>, id>>),
     Listing(<<"resources", "List">>, <<>>, <<<<"resources">>>>),
     Creating(<<"resources", "Create">>, <<>>, <<<<"resources">>>>,
              Body("resource", req)),
     Updating(<<"resources", "Update">>, <<id>>, <<<<"resources">>, id>>,
              Body("resource", req)),
     Deleting(<<"resources", "Delete">>, <<id>>, <<<<"resources">>, id>>)}

GroupsService(id, req) ==
    {Getting(<<"groups", "Get">>, <<id>>, <<<<"groups">>, id>>),
     Listing(<<"groups", "List">>, <<>>, <<<<"groups">>>>),
     Creating(<<"groups", "Create">>, <<>>, <<<<"groups">>>>,
              Body("group", req)),
     Updating(<<"groups", "Update">>, <<id>>, <<<<"groups">>, id>>,
              Body("group", req)),
     Deleting(<<"groups", "Delete">>, <<id>>, <<<<"groups">>, id>>)}

\* Disable and Enable check the identifier and call Update, which checks it
\* again.
PoliciesService(id, req) ==
    {Getting(<<"policies", "Get">>, <<id>>, <<<<"policies">>, id>>),
     Listing(<<"policies", "List">>, <<>>, <<<<"policies">>>>),
     Creating(<<"policies", "Create">>, <<>>, <<<<"policies">>>>,
              Body("policy", req)),
     Deleting(<<"policies", "Delete">>, <<id>>, <<<<"policies">>, id>>)}
    \union
    {Updating(<<"policies", "Update">>, <<id>>, <<<<"policies">>, id>>,
              Body("policy", value))
        : value \in {req, "is_disabled: true", "is_disabled: false"}}

ActorsService(id, req) ==
    {Getting(<<"actors", "Get">>, <<id>>, <<<<"actors">>, id>>),
     Listing(<<"actors", "List">>, <<>>, <<<<"actors">>>>),
     Creating(<<"actors", "Create">>, <<>>, <<<<"actors">>>>,
              Body("actor", req)),
     Deleting(<<"actors", "Delete">>, <<id>>, <<<<"actors">>, id>>)}
    \union
    {Updating(<<"actors", "Update">>, <<id>>, <<<<"actors">>, id>>,
              Body("actor", value))
        : value \in {req, "is_disabled: true", "is_disabled: false"}}

\* The bodies of ReplaceAll and Patch are built by the method, never nil.
MembershipsService(groupID) ==
    LET basePath == <<<<"groups">>, groupID, <<"memberships">>>>
    IN {Listing(<<"memberships", "List">>, <<groupID>>, basePath),
        Putting(<<"memberships", "ReplaceAll">>, <<groupID>>, basePath,
                Body("memberships", "entries")),
        Updating(<<"memberships", "Patch">>, <<groupID>>, basePath,
                 Body("memberships", "patch"))}

PoolMembersService(resourceID) ==
    LET basePath == <<<<"resources">>, resourceID, <<"pool_members">>>>
    IN {Listing(<<"pool_members", "List">>, <<resourceID>>, basePath),
        Putting(<<"pool_members", "ReplaceAll">>, <<resourceID>>, basePath,
                Body("pool_members", "entries")),
        Updating(<<"pool_members", "Patch">>, <<resourceID>>, basePath,
                 Body("pool_members", "patch"))}

ReadOnlyService(c, id) ==
    {Getting(<<c, "Get">>, <<id>>, <<<<c>>, id>>),
     Listing(<<c, "List">>, <<>>, <<<<c>>>>)}

AuthProviders(id) ==
    UNION {ReadOnlyService(c, id) : c \in
        {"email_otp_auth_providers", "oidc_auth_providers",
         "google_auth_providers", "entra_auth_providers",
         "okta_auth_providers"}}

Directories(id) ==
    UNION {ReadOnlyService(c, id) : c \in
        {"entra_directories", "google_directories", "okta_directories"}}

\* The services whose methods take one identifier at most.
SharedServices(id, req) ==
    SitesService(id, req) \union ClientsService(id, req)
    \union ResourcesService(id, req) \union GroupsService(id, req)
    \union PoliciesService(id, req) \union ActorsService(id, req)
    \union MembershipsService(id) \union PoolMembersService(id)
    \union AuthProviders(id) \union Directories(id)

ServiceMethods == UNION {SharedServices(id, req) : id \in IDs, req \in Reqs}

GatewayMethods ==
    UNION {GatewaysService(siteID, id, req)
               : siteID \in IDs, id \in IDs, req \in Reqs}

Methods == ServiceMethods \union GatewayMethods

-----------------------------------------------------------------------------
VARIABLES
    base,       \* the client's base path
    call,       \* the method called, with its arguments
    pc,         \* "called", "sent", "answered" or "returned"
    request,    \* what is on the wire
    answer,     \* what came back
    result      \* what the method returned

vars == <<base, call, pc, request, answer, result>>

Nothing == [verb |-> "", path |-> <<>>, body |-> NoBody]

Init ==
    /\ base \in Bases
    /\ call \in Methods
    /\ pc = "called"
    /\ request = Nothing
    /\ answer = "none"
    /\ result = "none"

\* Mutant: a nil pointer in a non-nil interface is not recognised.
WrapBodyBlindly(body) == "ok"

WrapBody(body) == IF body.value = "nil" THEN "ErrNilRequest" ELSE "ok"

\* The first check that fails.
Refusal ==
    LET bad == {i \in DOMAIN call.ids : CheckID(call.ids[i]) # "ok"}
    IN IF bad = {} THEN WrapBody(call.body) ELSE CheckID(call.ids[Min(bad)])

Refuse ==
    /\ pc = "called"
    /\ Refusal # "ok"
    /\ result' = Refusal
    /\ pc' = "returned"
    /\ UNCHANGED <<base, call, request, answer>>

Send ==
    /\ pc = "called"
    /\ Refusal = "ok"
    /\ request' = [verb |-> call.verb,
                   path |-> EscapedPath(ResolvePath(base, BuildPath(call.path))),
                   body |-> call.body]
    /\ pc' = "sent"
    /\ UNCHANGED <<base, call, answer, result>>

RoutesReached(normalise) ==
    {r \in Routes : Matches(r, request.verb,
                            Routed(base, request.path, normalise))}

\* The API answers as the route says.  An answer to a DELETE may be empty.
Answer ==
    /\ pc = "sent"
    /\ \E normalise \in BOOLEAN : \E r \in RoutesReached(normalise) :
         answer' \in {r.answer}
             \union (IF r.verb = "DELETE" THEN {"empty"} ELSE {})
    /\ pc' = "answered"
    /\ UNCHANGED <<base, call, request, result>>

\* Mutant: the answer is decoded even when nobody wants it.
DoAlwaysDecodes == answer = "data"

\* do: with no out nothing is decoded, nor is an empty body.
Do == call.out = "none" \/ answer \in {"empty", "data"}

\* doList: an empty body does not decode.
DoList == answer = "page"

Return ==
    /\ pc = "answered"
    /\ result' = IF (call.out = "page" /\ DoList) \/ (call.out # "page" /\ Do)
                 THEN "ok" ELSE "decoding error"
    /\ pc' = "returned"
    /\ UNCHANGED <<base, call, request, answer>>

Next == Refuse \/ Send \/ Answer \/ Return

Spec == Init /\ [][Next]_vars

-----------------------------------------------------------------------------

\* The variables hold what their names say; a body on the wire is never nil.
TypeOK ==
    /\ base \in Bases
    /\ pc \in {"called", "sent", "answered", "returned"}
    /\ request.verb \in {"", "GET", "POST", "PUT", "PATCH", "DELETE"}
    /\ request.body.value # "nil"
    /\ answer \in {"none", "data", "page", "empty"}
    /\ result \in {"none", "ok", "decoding error", "ErrMissingID",
                   "dot segment", "ErrNilRequest"}

(* Escaping keeps an identifier from redirecting a request
   (path.go:38-49): whatever a caller passes, a request that leaves reaches
   the route of the method that was called and no other, with exactly the
   caller's identifiers as its parameters and a body the route expects -
   whether or not a proxy normalises the path on the way. *)
ReachesItsRoute ==
    pc = "sent" =>
        \A normalise \in BOOLEAN :
            {[op |-> r.op, key |-> r.key,
              ids |-> Parameters(r, Routed(base, request.path, normalise))]
                 : r \in RoutesReached(normalise)}
            = {[op |-> call.op, key |-> request.body.key, ids |-> call.ids]}

(* Only what cannot be addressed is refused, and for its own reason: an
   identifier is missing, it is a dot segment, or a body is nil
   (path.go:19-36, firezone.go:353-391).  Any other identifier, however odd,
   is sent. *)
RefusedForAReason ==
    pc = "returned" =>
        /\ result = "ErrMissingID" =>
               \E i \in DOMAIN call.ids : call.ids[i] = <<>>
        /\ result = "dot segment" =>
               \E i \in DOMAIN call.ids :
                   /\ call.ids[i] # <<>>
                   /\ Normalised(<<PathEscape(call.ids[i])>>) = <<>>
        /\ result = "ErrNilRequest" => call.body.value = "nil"

(* A method decodes the shape its route answers with, so a call that took
   effect is not reported as a decoding error (firezone.go:463-502). *)
DecodesItsAnswer == result # "decoding error"

(* path.go:10-12 promises ErrMissingID for an empty or otherwise unusable
   identifier.  The code does not keep this: "." and ".." are refused with an
   error of another kind (path.go:33-34). *)
UnusableIDsAreMissing == result # "dot segment"

=============================================================================
