----------------------------- MODULE GatewayToken -----------------------------
(***************************************************************************)
(* The life of a Gateway's token: an administrator who keeps one host      *)
(* connected with Provision, RotateToken, Get and Delete, over calls whose *)
(* answers may be lost and whose requests may arrive late.  A token's      *)
(* secret is in the one answer that minted it and nowhere else.            *)
(*                                                                         *)
(* The server is the API as gateways.go:22-44, :84-113 and :209-228 and    *)
(* openapi.json:5021 and :19203 describe it.  Tokens and Gateways that     *)
(* nobody refers to any more are used again, so that the model stays       *)
(* finite without a bound on how many there are.                           *)
(***************************************************************************)
EXTENDS Integers, FiniteSets

CONSTANTS
    Gateways,   \* Gateway IDs
    Tokens,     \* token secrets; a token's ID is not told apart from it
    None,       \* no Gateway, no token
    Grace,      \* ticks a rotated token stays valid (4 hours)
    MaxLost     \* how many calls end in a transport error: a bound

ASSUME NoneAssumption == None \notin Gateways \cup Tokens
ASSUME GraceAssumption == Grace \in Nat \ {0}
ASSUME MaxLostAssumption == MaxLost \in Nat

VARIABLES
    \* The server.
    created,    \* the Gateways there are
    inUse,      \* gateway_token_id: the token each last connected with
    pending,    \* the token minted for each that it has not connected with
    rotated,    \* what is left of the grace period; -1 if rotated_at is null
    \* The administrator and its calls.
    gw,         \* the Gateway it manages
    secret,     \* the last secret it was given for it
    view,       \* what it saw of it since its last call
    call,       \* its call: the request, and the answer once it is applied
    strays,     \* requests given up on that may still arrive
    lost,       \* the calls that have ended in a transport error
    \* The host.
    config,     \* the token in its configuration
    online      \* it is connected

serverVars == <<created, inUse, pending, rotated>>
adminVars == <<gw, secret, view, call, strays, lost>>
hostVars == <<config, online>>
vars == <<serverVars, adminVars, hostVars>>

Idle == [op |-> "none", gw |-> None, phase |-> "idle", token |-> None]

Unseen == [seen |-> FALSE, pending |-> FALSE, elapsed |-> FALSE,
           token |-> None, online |-> FALSE]

Init ==
    /\ created = {}
    /\ inUse = [g \in Gateways |-> None]
    /\ pending = [g \in Gateways |-> None]
    /\ rotated = [g \in Gateways |-> -1]
    /\ gw = None /\ secret = None /\ view = Unseen
    /\ call = Idle
    /\ strays = {}
    /\ lost = 0
    /\ config = None
    /\ online = FALSE

-----------------------------------------------------------------------------
(* The server. *)

UsedTokens == {inUse[g] : g \in created} \cup {pending[g] : g \in created}
              \cup {secret, call.token, config, view.token}

FreshToken == CHOOSE t \in Tokens : t \notin UsedTokens

UsedGateways == created \cup {gw, call.gw} \cup {r.gw : r \in strays}

FreshGateway == CHOOSE g \in Gateways : g \notin UsedGateways

\* The token connects: the pending one, or the one in use within its grace.
Accepted(g, t) ==
    /\ g \in created
    /\ \/ t = pending[g]
       \/ t = inUse[g] /\ rotated[g] # 0
    /\ t # None

\* Creates the Gateway and mints its token.
ServeProvision(g) ==
    /\ created' = created \cup {g}
    /\ inUse' = [inUse EXCEPT ![g] = None]
    /\ pending' = [pending EXCEPT ![g] = FreshToken]
    /\ rotated' = [rotated EXCEPT ![g] = -1]

\* Mutant: the token in use is replaced at once.
ServeRotateAtOnce(g) ==
    /\ pending' = [pending EXCEPT ![g] = FreshToken]
    /\ inUse' = [inUse EXCEPT ![g] = None]
    /\ UNCHANGED <<created, rotated>>

\* Replaces a pending token at once, and only that; the token in use keeps its
\* original deadline, or gets one.
ServeRotate(g) ==
    /\ pending' = [pending EXCEPT ![g] = FreshToken]
    /\ rotated' = [rotated EXCEPT ![g] =
           IF inUse[g] # None /\ @ = -1 THEN Grace ELSE @]
    /\ UNCHANGED <<created, inUse>>

ServeDelete(g) ==
    /\ created' = created \ {g}
    /\ inUse' = [inUse EXCEPT ![g] = None]
    /\ pending' = [pending EXCEPT ![g] = None]
    /\ rotated' = [rotated EXCEPT ![g] = -1]

\* A session does not outlive its token.
HostAfter == online' = (online /\ \E g \in created' :
                            \/ config = pending'[g]
                            \/ config = inUse'[g] /\ rotated'[g] # 0)

Serve(r) ==
    CASE r.op = "provision" -> ServeProvision(FreshGateway)
      [] r.op = "rotate" /\ r.gw \in created -> ServeRotate(r.gw)
      [] r.op = "delete" /\ r.gw \in created -> ServeDelete(r.gw)
      [] OTHER -> UNCHANGED serverVars

Found(r) == r.op = "provision" \/ r.gw \in created

Mints(r) == r.op \in {"provision", "rotate"} /\ Found(r)

\* IDs and secrets are never used twice.  A request waits while the model has
\* none to spare: a bound, which no behaviour of the checked instance meets.
Supplied(r) ==
    /\ Mints(r) => \E t \in Tokens : t \notin UsedTokens
    /\ r.op = "provision" => \E g \in Gateways : g \notin UsedGateways

\* The answer carries the new Gateway and the secret.
Apply ==
    /\ call.phase = "sent"
    /\ Supplied(call)
    /\ Serve(call)
    /\ call' = [call EXCEPT
           !.phase = IF Found(call) THEN "applied" ELSE "notFound",
           !.gw = IF call.op = "provision" THEN FreshGateway ELSE @,
           !.token = IF Mints(call) THEN FreshToken ELSE None]
    /\ HostAfter
    /\ UNCHANGED <<gw, secret, view, strays, lost, config>>

\* A request given up on arrives; nobody sees its answer.
ApplyStray(r) ==
    /\ Supplied(r)
    /\ Serve(r)
    /\ strays' = strays \ {r}
    /\ HostAfter
    /\ UNCHANGED <<gw, secret, view, call, lost, config>>

-----------------------------------------------------------------------------
(* The administrator. *)

Begin(op, g) ==
    /\ call.phase = "idle"
    /\ call' = [op |-> op, gw |-> g, phase |-> "sent", token |-> None]
    /\ view' = Unseen
    /\ UNCHANGED <<serverVars, gw, secret, strays, lost, hostVars>>

Provision == gw = None /\ Begin("provision", None)

\* Stranded: past the grace period and not connected.
Stranded == view.pending /\ view.elapsed /\ ~view.online

\* As a routine, or because the host does not come online; the secret in hand
\* is delivered first.
RotateToken ==
    gw # None /\ config = secret /\ view.seen /\ ~Stranded /\ Begin("rotate", gw)

\* A stranded Gateway is deleted, and then provisioned anew.
Delete == gw # None /\ Stranded /\ Begin("delete", gw)

\* Mutant: the answer to RotateToken is decoded without its secret.
TakeSecretOfProvision ==
    /\ call.phase = "applied"
    /\ call.op \in {"provision", "rotate"}
    /\ gw' = call.gw
    /\ secret' = IF call.op = "provision" THEN call.token ELSE secret
    /\ call' = Idle
    /\ UNCHANGED <<serverVars, view, strays, lost, hostVars>>

\* The one time the secret is seen.
TakeSecret ==
    /\ call.phase = "applied"
    /\ call.op \in {"provision", "rotate"}
    /\ gw' = call.gw
    /\ secret' = call.token
    /\ call' = Idle
    /\ UNCHANGED <<serverVars, view, strays, lost, hostVars>>

\* The Gateway is gone: deleted by this call or by an earlier one.
Forget ==
    /\ \/ call.phase = "applied" /\ call.op = "delete"
       \/ call.phase = "notFound"
    /\ gw' = None
    /\ secret' = None
    /\ call' = Idle
    /\ UNCHANGED <<serverVars, view, strays, lost, hostVars>>

\* Mutant: the SDK repeats a request that ended in a network error.
GiveUpAndResend ==
    /\ call.phase \in {"sent", "applied"}
    /\ strays = {}
    /\ strays' = {[id |-> 0, op |-> call.op, gw |-> call.gw]}
    /\ UNCHANGED <<serverVars, gw, secret, view, call, lost, hostVars>>

\* A transport error, which ends the call: the answer is lost, or the
\* request is still on its way.
GiveUp ==
    /\ call.phase \in {"sent", "applied", "notFound"}
    /\ lost < MaxLost
    /\ lost' = lost + 1
    /\ strays' = IF call.phase = "sent"
                 THEN strays \cup {[id |-> lost', op |-> call.op, gw |-> call.gw]}
                 ELSE strays
    /\ call' = Idle
    /\ UNCHANGED <<serverVars, gw, secret, view, hostVars>>

\* Mutant: a rotation is pending only until its deadline.
RotationPendingUntilDeadline(g) == rotated[g] > 0

RotationPending(g) == rotated[g] # -1

\* Get, and what it tells of a Gateway.
Poll ==
    /\ call.phase = "idle"
    /\ gw \in created
    /\ view' = [seen |-> TRUE, pending |-> RotationPending(gw),
                elapsed |-> rotated[gw] = 0, token |-> inUse[gw],
                online |-> online /\ config \in {inUse[gw], pending[gw]}]
    /\ UNCHANGED <<serverVars, gw, secret, call, strays, lost, hostVars>>

\* Get returns 404: a Delete that seemed lost has arrived.
PollNotFound ==
    /\ call.phase = "idle"
    /\ gw # None /\ gw \notin created
    /\ gw' = None /\ secret' = None /\ view' = Unseen
    /\ UNCHANGED <<serverVars, call, strays, lost, hostVars>>

\* The secret reaches the host's configuration, and the host restarts.
Deliver ==
    /\ secret # None
    /\ config # secret
    /\ config' = secret
    /\ online' = FALSE
    /\ UNCHANGED <<serverVars, adminVars>>

-----------------------------------------------------------------------------
(* The host and the clock. *)

\* Connecting with the pending token confirms it and deletes the other.
Connect ==
    \E g \in created :
        /\ ~online
        /\ Accepted(g, config)
        /\ online' = TRUE
        /\ inUse' = [inUse EXCEPT ![g] = config]
        /\ pending' = [pending EXCEPT ![g] = IF @ = config THEN None ELSE @]
        /\ rotated' = [rotated EXCEPT ![g] =
               IF pending[g] = config THEN -1 ELSE @]
        /\ UNCHANGED <<created, config, adminVars>>

Crash ==
    /\ online
    /\ online' = FALSE
    /\ UNCHANGED <<serverVars, config, adminVars>>

Tick ==
    /\ \E g \in created : rotated[g] > 0
    /\ rotated' = [g \in Gateways |->
           IF rotated[g] > 0 THEN rotated[g] - 1 ELSE rotated[g]]
    /\ UNCHANGED <<created, inUse, pending, config, adminVars>>
    /\ HostAfter

-----------------------------------------------------------------------------

Next ==
    \/ Apply \/ \E r \in strays : ApplyStray(r)
    \/ Provision \/ RotateToken \/ Delete
    \/ TakeSecret \/ Forget \/ GiveUp
    \/ Poll \/ PollNotFound \/ Deliver
    \/ Connect \/ Crash \/ Tick

\* What the administrator does for a host it sees offline.
Repair == ~view.online /\ (Provision \/ RotateToken \/ Delete)

\* Calls end; the administrator keeps looking, repairs and delivers; the host
\* keeps trying to connect, and the administrator is not forever the faster.
Fairness ==
    /\ WF_vars(Apply) /\ WF_vars(TakeSecret) /\ WF_vars(Forget)
    /\ WF_vars(Poll) /\ WF_vars(PollNotFound)
    /\ WF_vars(Repair) /\ WF_vars(Deliver)
    /\ SF_vars(Connect)

Spec == Init /\ [][Next]_vars /\ Fairness

-----------------------------------------------------------------------------
(* Properties. *)

\* gateways.go:22-44 and :220-224: a Get that shows a connected Gateway
\* without a pending rotation confirms the pickup: the token in use is the
\* last secret the administrator was given, and stays it until its next call,
\* whatever became of the calls that were lost.
PickupConfirmed ==
    view.seen /\ ~view.pending /\ view.token # None /\ gw \in created
        => inUse[gw] = secret

\* gateways.go:212-216: the window exists so that the replacement can be
\* delivered without downtime: no RotateToken, the repeated and the late ones
\* included, disconnects a host that is connected.
Seamless ==
    [][(\E g \in created : pending'[g] \notin {pending[g], None})
         => (online => online')]_vars

\* gateways.go:173-188 and retry.go:31-66: a Gateway that nobody manages is the
\* work of a Provision whose call ended in a transport error, at most one for
\* each: the SDK never repeats a call that may have taken effect.
OrphansCounted ==
    Cardinality(created \ {gw, call.gw})
        + Cardinality({r \in strays : r.op = "provision"}) <= lost

\* gateways.go:36-41, :110-113, :220-228: rotating again, and deleting and
\* provisioning what is stranded, brings every host back, whatever secrets
\* were lost on the way.
Recovers == []<>online
=============================================================================
