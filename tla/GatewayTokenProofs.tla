-------------------------- MODULE GatewayTokenProofs --------------------------
(***************************************************************************)
(* For any number of Gateways, tokens and lost calls, and any grace        *)
(* period: a Get that shows a connected Gateway without a pending rotation *)
(* confirms the pickup, rotating disconnects no host, and every Gateway    *)
(* that nobody manages is accounted for by a call that was lost.           *)
(*                                                                         *)
(* The argument for the first two is where a token may be.  A pending one  *)
(* that the administrator or the host holds was minted for the Gateway     *)
(* under management and is the last secret taken; while a minted token is  *)
(* still on its way, no pending one is held by anybody.                    *)
(***************************************************************************)
EXTENDS GatewayToken, FiniteSetTheorems, TLAPS

Token == Tokens \cup {None}
Gateway == Gateways \cup {None}
Requests == {"provision", "rotate", "delete"}

Types ==
    /\ created \in SUBSET Gateways /\ IsFiniteSet(created)
    /\ inUse \in [Gateways -> Token]
    /\ pending \in [Gateways -> Token]
    /\ rotated \in [Gateways -> Nat \cup {-1}]
    /\ gw \in Gateway /\ secret \in Token /\ config \in Token
    /\ view \in [seen : BOOLEAN, pending : BOOLEAN, elapsed : BOOLEAN,
                 token : Token, online : BOOLEAN]
    /\ call \in [op : Requests \cup {"none"}, gw : Gateway,
                 phase : {"idle", "sent", "applied", "notFound"}, token : Token]
    /\ strays \in SUBSET [id : Nat, op : Requests, gw : Gateway]
    /\ IsFiniteSet(strays)
    /\ lost \in Nat
    /\ online \in BOOLEAN

\* A minted token is on its way to the administrator.
Minted == call.phase = "applied" /\ call.op \in {"provision", "rotate"}

\* The call in flight, and the Gateway it is about.
CallInv ==
    /\ call.phase = "idle" <=> call = Idle
    /\ call.phase # "idle" => call.op \in Requests
    /\ call.op = "provision" =>
           gw = None /\ (call.phase = "sent" => call.gw = None)
    /\ call.op \in {"rotate", "delete"} => call.gw = gw /\ gw # None
    /\ (\/ call.phase = "notFound"
        \/ call.phase = "applied" /\ call.op = "delete")
           => gw # None /\ call.gw = gw /\ gw \notin created
    /\ Minted => call.token \in Tokens /\ call.gw \in Gateways
    /\ view.seen => call.phase = "idle"

\* Connected without a pending rotation.
Settled(g) == rotated[g] = -1 /\ inUse[g] # None

Held == {config, secret} \ {None}

\* Where a token may be.
TokenInv ==
    /\ \A g, h \in created : pending[g] # None => pending[g] # inUse[h]
    /\ \A g \in created :
           pending[g] \in Held => g = gw /\ pending[g] = secret
    /\ gw \in created /\ Settled(gw) => inUse[gw] = secret
    /\ PickupConfirmed

\* And where it is not while one is on its way.
MintedInv ==
    Minted => /\ \A g \in created : pending[g] \notin Held
              /\ \A g \in created : pending[g] = call.token => g = call.gw
              /\ call.gw \in created => ~Settled(call.gw)

\* A connected host is connected with a token in use.
HostInv ==
    online => /\ config # None
              /\ \E g \in created : config = inUse[g] /\ rotated[g] # 0

Inv == Types /\ CallInv /\ TokenInv /\ MintedInv /\ HostInv

LEMMA InvInit == Init => Inv
  <1> SUFFICES ASSUME Init PROVE Inv
    OBVIOUS
  <1>1. Types
    BY FS_EmptySet DEF Init, Types, Token, Gateway, Requests, Unseen, Idle
  <1>2. CallInv
    BY DEF Init, CallInv, Minted, Idle, Unseen
  <1>3. TokenInv /\ MintedInv
    BY DEF Init, TokenInv, MintedInv, Minted, Idle, Unseen, Held, PickupConfirmed
  <1> QED BY <1>1, <1>2, <1>3 DEF Init, Inv, HostInv

-----------------------------------------------------------------------------
(* The server. *)

\* What is fresh is nobody's.
LEMMA FreshIsFresh ==
    ASSUME NEW r, Supplied(r)
    PROVE  /\ Mints(r) => /\ FreshToken \in Tokens \ UsedTokens
                          /\ FreshToken # None
           /\ r.op = "provision" => /\ FreshGateway \in Gateways \ UsedGateways
                                    /\ FreshGateway # None
  <1>1. Mints(r) => FreshToken \in Tokens \ UsedTokens
    BY DEF Supplied, FreshToken
  <1>2. r.op = "provision" => FreshGateway \in Gateways \ UsedGateways
    BY DEF Supplied, FreshGateway
  <1> QED BY <1>1, <1>2, NoneAssumption

\* The Gateway a request is about.
Target(r) == IF r.op = "provision" THEN FreshGateway ELSE r.gw

\* What serving request r leaves of Gateway g: nothing of it changes but the
\* target's pending token, which is then fresh, and its grace period, which
\* begins.  A Gateway for which a token has just been minted is not settled.
Served(r, g) ==
    /\ g \in created => inUse'[g] = inUse[g]
    /\ g \notin created => /\ r.op = "provision" /\ g = FreshGateway
                           /\ inUse'[g] = None
    /\ \/ g \in created /\ pending'[g] = pending[g]
       \/ Mints(r) /\ g = Target(r) /\ pending'[g] = FreshToken
    /\ g \in created => \/ rotated'[g] = rotated[g]
                        \/ rotated[g] = -1 /\ rotated'[g] = Grace
    /\ Mints(r) /\ g = Target(r) => pending'[g] = FreshToken /\ ~Settled(g)'

LEMMA ServeLeaves ==
    ASSUME Types, NEW r, r.gw \in Gateway, Supplied(r), Serve(r)
    PROVE  /\ \A g \in created' : Served(r, g)
           /\ created' = IF r.op = "provision" THEN created \cup {FreshGateway}
                         ELSE IF r.op = "delete" THEN created \ {r.gw}
                         ELSE created
           /\ inUse' \in [Gateways -> Token]
           /\ pending' \in [Gateways -> Token]
           /\ rotated' \in [Gateways -> Nat \cup {-1}]
  <1>1. /\ Mints(r) => FreshToken \in Tokens
        /\ r.op = "provision" => FreshGateway \in Gateways \ created
    BY FreshIsFresh DEF UsedGateways
  <1>2. Grace \in Nat /\ Grace # -1
    BY GraceAssumption
  <1>3. CASE r.op = "provision"
    <2>1. ServeProvision(FreshGateway) /\ Mints(r)
      BY <1>3 DEF Serve, Mints, Found
    <2> QED
      BY <1>1, <1>2, <1>3, <2>1
         DEF ServeProvision, Types, Token, Served, Target, Settled
  <1>4. CASE r.op = "rotate" /\ r.gw \in created
    <2>1. ServeRotate(r.gw) /\ Mints(r)
      BY <1>4 DEF Serve, Mints, Found
    <2> QED
      BY <1>1, <1>2, <1>4, <2>1
         DEF ServeRotate, Types, Token, Served, Target, Settled
  <1>5. CASE r.op = "delete" /\ r.gw \in created
    <2>1. ServeDelete(r.gw) /\ ~Mints(r)
      BY <1>5 DEF Serve, Mints
    <2> QED
      BY <1>1, <1>5, <2>1 DEF ServeDelete, Types, Token, Served, Target
  <1>6. CASE /\ UNCHANGED serverVars
             /\ r.op # "provision"
             /\ ~(r.op \in {"rotate", "delete"} /\ r.gw \in created)
    <2>1. ~Mints(r) /\ (r.op = "delete" => r.gw \notin created)
      BY <1>6 DEF Mints, Found
    <2> QED BY <1>6, <2>1 DEF serverVars, Types, Served
  <1> QED BY <1>3, <1>4, <1>5, <1>6 DEF Serve

\* Serving a request keeps the tokens where they may be, and the host online if
\* its Gateway is still there.
LEMMA ServedTokens ==
    ASSUME Inv, NEW r, r.gw \in Gateway, Supplied(r), Serve(r), HostAfter,
           UNCHANGED <<gw, secret, config, view>>
    PROVE  TokenInv' /\ HostInv'
  <1>1. /\ \A g \in created' : Served(r, g)
        /\ \A g \in created' : g \in Gateways
    BY ServeLeaves, FreshIsFresh DEF Inv, Types
  <1>2. /\ Mints(r) =>
               /\ FreshToken \notin {secret, config, None}
               /\ \A g \in created : FreshToken # inUse[g] /\ FreshToken # pending[g]
        /\ r.op = "provision" => FreshGateway \notin created /\ FreshGateway # gw
    BY FreshIsFresh DEF UsedTokens, UsedGateways
  <1>3. /\ \A g, h \in created : pending[g] # None => pending[g] # inUse[h]
        /\ \A g \in created :
               pending[g] \in Held => g = gw /\ pending[g] = secret
        /\ gw \in created /\ Settled(gw) => inUse[gw] = secret
        /\ PickupConfirmed
    BY DEF Inv, TokenInv
  <1>4. Grace # -1 /\ Grace # 0 /\ None \notin Gateways
    BY GraceAssumption, NoneAssumption
  <1>5. \A g \in created' : /\ g \in created => inUse'[g] = inUse[g]
                            /\ g \notin created => inUse'[g] = None
                            /\ \/ g \in created /\ pending'[g] = pending[g]
                               \/ Mints(r) /\ pending'[g] = FreshToken
    BY <1>1 DEF Served
  <1>6. Held' = Held
    BY DEF Held
  <1>7. \A g, h \in created' : pending'[g] # None => pending'[g] # inUse'[h]
    BY <1>2, <1>3, <1>5
  <1>8. \A g \in created' : pending'[g] \in Held => g = gw /\ pending'[g] = secret
    BY <1>2, <1>3, <1>5 DEF Held
  <1>9. gw \in created' => gw \in created
    BY <1>1, <1>2 DEF Served
  <1>10. gw \in created' /\ Settled(gw)' => inUse'[gw] = secret
    BY <1>1, <1>3, <1>4, <1>5, <1>9 DEF Served, Settled
  <1>11. PickupConfirmed'
    BY <1>3, <1>5, <1>9 DEF PickupConfirmed
  <1>12. HostInv'
    <2> SUFFICES ASSUME online'
                 PROVE  /\ config # None
                        /\ \E g \in created' : config = inUse'[g] /\ rotated'[g] # 0
      BY DEF HostInv
    <2>1. online /\ \E g \in created' : \/ config = pending'[g]
                                        \/ config = inUse'[g] /\ rotated'[g] # 0
      BY DEF HostAfter
    <2>2. config # None /\ \E h \in created : config = inUse[h]
      BY <2>1 DEF Inv, HostInv
    <2>3. \A g \in created' : config # pending'[g]
      BY <1>2, <1>3, <1>5, <2>2
    <2> QED BY <2>1, <2>2, <2>3
  <1> QED BY <1>6, <1>7, <1>8, <1>9, <1>10, <1>11, <1>12 DEF TokenInv

LEMMA ApplyStep ==
    ASSUME Inv, Apply
    PROVE  Inv'
  <1>1. /\ call.phase = "sent" /\ Supplied(call) /\ Serve(call) /\ HostAfter
        /\ call' = [call EXCEPT
               !.phase = IF Found(call) THEN "applied" ELSE "notFound",
               !.gw = IF call.op = "provision" THEN FreshGateway ELSE @,
               !.token = IF Mints(call) THEN FreshToken ELSE None]
        /\ UNCHANGED <<gw, secret, view, strays, lost, config>>
    BY DEF Apply
  <1>2. /\ call.op \in Requests /\ call.gw \in Gateway
        /\ call \in [op : Requests \cup {"none"}, gw : Gateway,
                     phase : {"idle", "sent", "applied", "notFound"},
                     token : Token]
        /\ call.op = "provision" => gw = None
        /\ call.op # "provision" => call.gw = gw /\ gw # None
    BY <1>1 DEF Inv, Types, CallInv, Requests
  <1>3. /\ call'.op = call.op
        /\ call'.phase = IF Found(call) THEN "applied" ELSE "notFound"
        /\ call'.gw = Target(call)
        /\ call'.token = IF Mints(call) THEN FreshToken ELSE None
    BY <1>1, <1>2 DEF Target
  <1>4. TokenInv' /\ HostInv'
    BY <1>1, <1>2, ServedTokens
  <1>5. /\ Mints(call) =>
               /\ FreshToken \in Tokens
               /\ FreshToken \notin {secret, config, None}
               /\ \A g \in created : FreshToken # inUse[g] /\ FreshToken # pending[g]
        /\ call.op = "provision" => /\ FreshGateway \in Gateways \ created
                                    /\ FreshGateway # gw
    BY <1>1, FreshIsFresh DEF UsedTokens, UsedGateways
  <1>6. /\ \A g \in created' : Served(call, g)
        /\ created' = IF call.op = "provision" THEN created \cup {FreshGateway}
                      ELSE IF call.op = "delete" THEN created \ {call.gw}
                      ELSE created
        /\ inUse' \in [Gateways -> Token]
        /\ pending' \in [Gateways -> Token]
        /\ rotated' \in [Gateways -> Nat \cup {-1}]
    BY <1>1, <1>2, ServeLeaves DEF Inv
  <1>7. Types'
    <2>1. created' \in SUBSET Gateways /\ IsFiniteSet(created')
      BY <1>5, <1>6, FS_AddElement, FS_RemoveElement DEF Inv, Types
    <2>2. call' \in [op : Requests \cup {"none"}, gw : Gateway,
                     phase : {"idle", "sent", "applied", "notFound"},
                     token : Token]
      BY <1>1, <1>2, <1>5 DEF Token, Gateway
    <2>3. online' \in BOOLEAN
      BY <1>1 DEF HostAfter, Inv, Types
    <2> QED BY <1>1, <1>6, <2>1, <2>2, <2>3 DEF Inv, Types
  <1>8. CallInv'
    <2>1. call' # Idle /\ ~view.seen
      BY <1>1, <1>3 DEF Idle, Inv, CallInv
    <2> QED
      BY <1>1, <1>2, <1>3, <1>5, <1>6, <2>1
         DEF CallInv, Minted, Found, Mints, Target, Requests, Gateway, Inv, Types
  <1>9. MintedInv'
    <2> SUFFICES ASSUME Minted' PROVE MintedInv'
      BY DEF MintedInv
    <2>1. Mints(call) /\ call'.token = FreshToken
      BY <1>3 DEF Minted, Found, Mints
    <2>2. \A g \in created' : pending'[g] \notin Held'
      <3>1. \A g \in created' : g # Target(call) => g \in created /\ g # gw
        BY <1>2, <1>5, <1>6, NoneAssumption DEF Served, Target, Inv, Types
      <3>2. Held' = Held /\ FreshToken \notin Held
        BY <1>1, <1>5, <2>1 DEF Held
      <3>3. \A g \in created : pending[g] \in Held => g = gw
        BY DEF Inv, TokenInv
      <3> QED BY <1>6, <2>1, <3>1, <3>2, <3>3 DEF Served
    <2>3. \A g \in created' : pending'[g] = FreshToken => g = Target(call)
      BY <1>5, <1>6, <2>1 DEF Served
    <2>4. \A g \in created' : g = Target(call) => ~Settled(g)'
      BY <1>6, <2>1 DEF Served
    <2> QED BY <1>3, <2>1, <2>2, <2>3, <2>4 DEF MintedInv, Settled
  <1> QED BY <1>4, <1>7, <1>8, <1>9 DEF Inv

LEMMA ApplyStrayStep ==
    ASSUME Inv, NEW r \in strays, ApplyStray(r)
    PROVE  Inv'
  <1>1. /\ Supplied(r) /\ Serve(r) /\ HostAfter
        /\ strays' = strays \ {r}
        /\ UNCHANGED <<gw, secret, view, call, lost, config>>
    BY DEF ApplyStray
  <1>2. r.op \in Requests /\ r.gw \in Gateway
    BY DEF Inv, Types
  <1>3. TokenInv' /\ HostInv'
    BY <1>1, <1>2, ServedTokens
  <1>4. /\ Mints(r) => /\ FreshToken \in Tokens
                       /\ FreshToken \notin {secret, config, call.token, None}
        /\ r.op = "provision" => /\ FreshGateway \in Gateways \ created
                                 /\ FreshGateway \notin {gw, call.gw}
    BY <1>1, FreshIsFresh DEF UsedTokens, UsedGateways
  <1>5. /\ \A g \in created' : Served(r, g)
        /\ created' = IF r.op = "provision" THEN created \cup {FreshGateway}
                      ELSE IF r.op = "delete" THEN created \ {r.gw}
                      ELSE created
        /\ inUse' \in [Gateways -> Token]
        /\ pending' \in [Gateways -> Token]
        /\ rotated' \in [Gateways -> Nat \cup {-1}]
    BY <1>1, <1>2, ServeLeaves DEF Inv
  <1>6. Types'
    <2>1. created' \in SUBSET Gateways /\ IsFiniteSet(created')
      BY <1>4, <1>5, FS_AddElement, FS_RemoveElement DEF Inv, Types
    <2>2. strays' \in SUBSET [id : Nat, op : Requests, gw : Gateway]
      BY <1>1 DEF Inv, Types
    <2>3. IsFiniteSet(strays')
      BY <1>1, FS_RemoveElement DEF Inv, Types
    <2>4. online' \in BOOLEAN
      BY <1>1 DEF HostAfter, Inv, Types
    <2> QED BY <1>1, <1>5, <2>1, <2>2, <2>3, <2>4 DEF Inv, Types
  <1>7. CallInv'
    <2>1. gw \notin created => gw \notin created'
      BY <1>4, <1>5
    <2> QED BY <1>1, <2>1 DEF Inv, CallInv, Minted
  <1>8. MintedInv'
    <2> SUFFICES ASSUME Minted PROVE MintedInv'
      BY <1>1 DEF MintedInv, Minted
    <2>1. /\ \A g \in created : pending[g] \notin Held
          /\ \A g \in created : pending[g] = call.token => g = call.gw
          /\ call.gw \in created => ~Settled(call.gw)
          /\ call.token \in Tokens
      BY DEF Inv, MintedInv, CallInv
    <2>2. Held' = Held
      BY <1>1 DEF Held
    <2>3. \A g \in created' :
              \/ g \in created /\ pending'[g] = pending[g]
              \/ Mints(r) /\ pending'[g] = FreshToken
      BY <1>5 DEF Served
    <2>4. \A g \in created' : pending'[g] \notin Held
      BY <1>4, <2>1, <2>3 DEF Held
    <2>5. \A g \in created' : pending'[g] = call.token => g = call.gw
      BY <1>4, <2>1, <2>3
    <2>6. \A g \in created' : g = call.gw => ~Settled(g)'
      BY <1>4, <1>5, <2>1, GraceAssumption DEF Served, Settled
    <2> QED BY <1>1, <2>2, <2>4, <2>5, <2>6 DEF MintedInv, Settled
  <1> QED BY <1>3, <1>6, <1>7, <1>8 DEF Inv

-----------------------------------------------------------------------------
(* The administrator. *)

LEMMA BeginStep ==
    ASSUME Inv, Provision \/ RotateToken \/ Delete
    PROVE  Inv'
  <1>1. /\ call.phase = "idle" /\ view' = Unseen
        /\ UNCHANGED <<serverVars, gw, secret, strays, lost, hostVars>>
        /\ \/ gw = None /\ call' = [op |-> "provision", gw |-> None,
                                    phase |-> "sent", token |-> None]
           \/ gw # None /\ call' = [op |-> "rotate", gw |-> gw,
                                    phase |-> "sent", token |-> None]
           \/ gw # None /\ call' = [op |-> "delete", gw |-> gw,
                                    phase |-> "sent", token |-> None]
    BY DEF Provision, RotateToken, Delete, Begin
  <1>2. Types'
    BY <1>1 DEF Inv, Types, Unseen, Token, Gateway, Requests, serverVars, hostVars
  <1>3. CallInv' /\ MintedInv'
    BY <1>1 DEF CallInv, MintedInv, Minted, Requests, Unseen, Idle
  <1>4. TokenInv' /\ HostInv'
    BY <1>1 DEF Inv, TokenInv, PickupConfirmed, HostInv, Settled, Held, Unseen,
                serverVars, hostVars
  <1> QED BY <1>2, <1>3, <1>4 DEF Inv

\* The administrator's call is over, and it has the secret of a Gateway, or no
\* Gateway any more.
LEMMA EndStep ==
    ASSUME Inv, TakeSecret \/ Forget \/ PollNotFound
    PROVE  Inv'
  <1>1. /\ call' = Idle /\ UNCHANGED <<serverVars, strays, lost, hostVars>>
        /\ view' \in {view, Unseen} /\ ~view'.seen
    <2>1. CASE TakeSecret \/ Forget
      BY <2>1 DEF TakeSecret, Forget, Inv, CallInv
    <2>2. CASE PollNotFound
      BY <2>2 DEF PollNotFound, Inv, CallInv, Unseen
    <2> QED BY <2>1, <2>2
  <1>2. \/ Minted /\ gw' = call.gw /\ secret' = call.token
        \/ gw' = None /\ secret' = None /\ gw \notin created
    <2>1. CASE TakeSecret
      BY <2>1 DEF TakeSecret, Minted
    <2>2. CASE Forget
      BY <2>2 DEF Forget, Inv, CallInv
    <2>3. CASE PollNotFound
      BY <2>3 DEF PollNotFound
    <2> QED BY <2>1, <2>2, <2>3
  <1>3. Types'
    <2>1. gw' \in Gateway /\ secret' \in Token
      BY <1>2 DEF Inv, Types, Token, Gateway
    <2>2. view' \in [seen : BOOLEAN, pending : BOOLEAN, elapsed : BOOLEAN,
                     token : Token, online : BOOLEAN]
      <3>1. /\ view \in [seen : BOOLEAN, pending : BOOLEAN, elapsed : BOOLEAN,
                         token : Token, online : BOOLEAN]
            /\ Unseen \in [seen : BOOLEAN, pending : BOOLEAN,
                           elapsed : BOOLEAN, token : Token, online : BOOLEAN]
        BY DEF Inv, Types, Unseen, Token
      <3> QED BY <1>1, <3>1, Zenon
    <2> QED
      BY <1>1, <2>1, <2>2
         DEF Inv, Types, Idle, Token, Gateway, Requests, serverVars, hostVars
  <1>4. CallInv' /\ MintedInv' /\ HostInv'
    BY <1>1 DEF Inv, CallInv, MintedInv, Minted, HostInv, Idle, Requests,
                serverVars, hostVars
  <1>5. \A g \in created :
            pending[g] \in Held' => g = gw' /\ pending[g] = secret'
    BY <1>1, <1>2 DEF Inv, TokenInv, MintedInv, Held, hostVars
  <1>6. gw' \notin created \/ ~Settled(gw')
    BY <1>2, NoneAssumption DEF Inv, Types, MintedInv
  <1>7. TokenInv'
    BY <1>1, <1>5, <1>6
       DEF Inv, TokenInv, PickupConfirmed, Settled, serverVars
  <1> QED BY <1>3, <1>4, <1>7 DEF Inv

LEMMA GiveUpStep ==
    ASSUME Inv, GiveUp
    PROVE  Inv'
  <1>1. /\ call.phase # "idle" /\ call' = Idle /\ lost' = lost + 1
        /\ strays' = IF call.phase = "sent"
                     THEN strays \cup {[id |-> lost', op |-> call.op,
                                        gw |-> call.gw]}
                     ELSE strays
        /\ UNCHANGED <<serverVars, gw, secret, view, hostVars>>
    BY DEF GiveUp
  <1>2. call.op \in Requests /\ call.gw \in Gateway /\ lost' \in Nat /\ ~view.seen
    BY <1>1 DEF Inv, CallInv, Types
  <1>3. /\ strays' \in SUBSET [id : Nat, op : Requests, gw : Gateway]
        /\ IsFiniteSet(strays')
    <2>1. /\ strays \in SUBSET [id : Nat, op : Requests, gw : Gateway]
          /\ IsFiniteSet(strays)
      BY DEF Inv, Types
    <2>2. [id |-> lost', op |-> call.op, gw |-> call.gw]
              \in [id : Nat, op : Requests, gw : Gateway]
      BY <1>2
    <2>3. IsFiniteSet(strays \cup {[id |-> lost', op |-> call.op,
                                    gw |-> call.gw]})
      BY <2>1, FS_AddElement
    <2> QED BY <1>1, <2>1, <2>2, <2>3
  <1>4. Types'
    BY <1>1, <1>2, <1>3
       DEF Inv, Types, Idle, Token, Gateway, serverVars, hostVars
  <1>5. CallInv' /\ MintedInv'
    BY <1>1, <1>2 DEF CallInv, MintedInv, Minted, Idle, Requests
  <1>6. TokenInv' /\ HostInv'
    BY <1>1 DEF Inv, TokenInv, PickupConfirmed, HostInv, Settled, Held,
                serverVars, hostVars
  <1> QED BY <1>4, <1>5, <1>6 DEF Inv

LEMMA PollStep ==
    ASSUME Inv, Poll
    PROVE  Inv'
  <1>1. /\ call.phase = "idle" /\ gw \in created
        /\ view' = [seen |-> TRUE, pending |-> RotationPending(gw),
                    elapsed |-> rotated[gw] = 0, token |-> inUse[gw],
                    online |-> online /\ config \in {inUse[gw], pending[gw]}]
        /\ UNCHANGED <<serverVars, gw, secret, call, strays, lost, hostVars>>
    BY DEF Poll
  <1>2. Types'
    BY <1>1 DEF Inv, Types, RotationPending, serverVars, hostVars
  <1>3. CallInv' /\ MintedInv' /\ HostInv'
    BY <1>1 DEF Inv, CallInv, MintedInv, Minted, HostInv, Settled, Held,
                serverVars, hostVars
  <1>4. Settled(gw) => inUse[gw] = secret
    BY <1>1 DEF Inv, TokenInv
  <1>5. PickupConfirmed'
    BY <1>1, <1>4 DEF PickupConfirmed, Settled, RotationPending, serverVars
  <1>6. TokenInv'
    BY <1>1, <1>5 DEF Inv, TokenInv, Settled, Held, serverVars, hostVars
  <1> QED BY <1>2, <1>3, <1>6 DEF Inv

LEMMA DeliverStep ==
    ASSUME Inv, Deliver
    PROVE  Inv'
  <1>1. /\ config' = secret /\ online' = FALSE
        /\ UNCHANGED <<serverVars, adminVars>>
    BY DEF Deliver
  <1>2. Held' \subseteq Held
    BY <1>1 DEF Held, adminVars
  <1>3. Types' /\ CallInv' /\ HostInv'
    BY <1>1 DEF Inv, Types, CallInv, Minted, HostInv, serverVars, adminVars
  <1>4. TokenInv' /\ MintedInv'
    BY <1>1, <1>2 DEF Inv, TokenInv, MintedInv, Minted, PickupConfirmed, Settled,
                      serverVars, adminVars
  <1> QED BY <1>3, <1>4 DEF Inv

-----------------------------------------------------------------------------
(* The host and the clock. *)

LEMMA ConnectStep ==
    ASSUME Inv, Connect
    PROVE  Inv'
  <1>1. PICK g \in created :
            /\ ~online /\ Accepted(g, config) /\ online' = TRUE
            /\ inUse' = [inUse EXCEPT ![g] = config]
            /\ pending' = [pending EXCEPT ![g] = IF @ = config THEN None ELSE @]
            /\ rotated' = [rotated EXCEPT ![g] =
                   IF pending[g] = config THEN -1 ELSE @]
            /\ UNCHANGED <<created, config, adminVars>>
    BY DEF Connect
  <1>2. /\ config # None
        /\ \/ pending[g] = config
           \/ pending[g] # config /\ config = inUse[g] /\ rotated[g] # 0
    BY <1>1 DEF Accepted
  <1>3. /\ \A a, h \in created : pending[a] # None => pending[a] # inUse[h]
        /\ \A a \in created :
               pending[a] \in Held => a = gw /\ pending[a] = secret
        /\ gw \in created /\ Settled(gw) => inUse[gw] = secret
        /\ PickupConfirmed
    BY DEF Inv, TokenInv
  <1>4. pending[g] = config => g = gw /\ config = secret
    BY <1>2, <1>3 DEF Held
  <1>5. /\ created \subseteq Gateways
        /\ g \in Gateways
        /\ inUse \in [Gateways -> Token] /\ pending \in [Gateways -> Token]
        /\ rotated \in [Gateways -> Nat \cup {-1}]
    BY DEF Inv, Types
  <1>6. \A a \in created :
            /\ inUse'[a] = IF a = g THEN config ELSE inUse[a]
            /\ pending'[a] = IF a = g /\ pending[g] = config
                             THEN None ELSE pending[a]
            /\ rotated'[a] = IF a = g /\ pending[g] = config
                             THEN -1 ELSE rotated[a]
    BY <1>1, <1>5
  <1>7. Types'
    BY <1>1, <1>5 DEF Inv, Types, Token, adminVars
  <1>8. CallInv'
    BY <1>1 DEF Inv, CallInv, Minted, adminVars
  <1>9. TokenInv'
    <2>1. \A a, h \in created : pending'[a] # None => pending'[a] # inUse'[h]
      BY <1>2, <1>3, <1>4, <1>6 DEF Held
    <2>2. \A a \in created :
              pending'[a] \in Held => a = gw /\ pending'[a] = secret
      BY <1>3, <1>6 DEF Held
    <2>3. \A a \in created : a = gw /\ Settled(a)' => inUse'[a] = secret
      BY <1>2, <1>3, <1>4, <1>6 DEF Settled
    <2>4. PickupConfirmed'
      BY <1>1, <1>2, <1>3, <1>4, <1>6 DEF PickupConfirmed, adminVars
    <2> QED BY <1>1, <2>1, <2>2, <2>3, <2>4 DEF TokenInv, Held, Settled, adminVars
  <1>10. MintedInv'
    <2> SUFFICES ASSUME Minted PROVE MintedInv'
      BY <1>1 DEF MintedInv, Minted, adminVars
    <2>1. /\ \A a \in created : pending[a] \notin Held
          /\ \A a \in created : pending[a] = call.token => a = call.gw
          /\ call.gw \in created => ~Settled(call.gw)
          /\ call.token # None
      BY NoneAssumption DEF Inv, MintedInv, CallInv
    <2>2. pending[g] # config
      BY <1>2, <2>1 DEF Held
    <2>3. \A a \in created : /\ pending'[a] \notin Held
                             /\ pending'[a] = call.token => a = call.gw
      BY <1>6, <2>1, <2>2
    <2>4. \A a \in created : a = call.gw => ~Settled(a)'
      BY <1>2, <1>6, <2>1, <2>2 DEF Settled
    <2> QED BY <1>1, <2>3, <2>4 DEF MintedInv, Held, Settled, adminVars
  <1>11. HostInv'
    BY <1>1, <1>2, <1>6 DEF HostInv
  <1> QED BY <1>7, <1>8, <1>9, <1>10, <1>11 DEF Inv

LEMMA TickStep ==
    ASSUME Inv, Tick
    PROVE  Inv'
  <1>1. /\ rotated' = [g \in Gateways |->
               IF rotated[g] > 0 THEN rotated[g] - 1 ELSE rotated[g]]
        /\ UNCHANGED <<created, inUse, pending, config, adminVars>>
        /\ HostAfter
    BY DEF Tick
  <1>2. \A g \in Gateways : /\ rotated[g] \in Nat \cup {-1}
                            /\ rotated'[g] \in Nat \cup {-1}
                            /\ rotated'[g] = -1 <=> rotated[g] = -1
    BY <1>1 DEF Inv, Types
  <1>3. Types'
    <2>1. rotated' \in [Gateways -> Nat \cup {-1}]
      BY <1>1, <1>2
    <2>2. online' \in BOOLEAN
      BY <1>1 DEF HostAfter, Inv, Types
    <2> QED BY <1>1, <2>1, <2>2 DEF Inv, Types, adminVars
  <1>4. CallInv'
    BY <1>1 DEF Inv, CallInv, Minted, adminVars
  <1>5. \A g \in created : Settled(g)' <=> Settled(g)
    BY <1>1, <1>2 DEF Settled, Inv, Types
  <1>6. TokenInv' /\ MintedInv'
    BY <1>1, <1>5 DEF Inv, TokenInv, MintedInv, Minted, PickupConfirmed, Held,
                      Settled, adminVars
  <1>7. HostInv'
    BY <1>1 DEF Inv, HostInv, HostAfter, TokenInv
  <1> QED BY <1>3, <1>4, <1>6, <1>7 DEF Inv

-----------------------------------------------------------------------------

LEMMA InvStep ==
    ASSUME Inv, [Next]_vars
    PROVE  Inv'
  <1>1. CASE Apply
    BY <1>1, ApplyStep
  <1>2. CASE \E r \in strays : ApplyStray(r)
    BY <1>2, ApplyStrayStep
  <1>3. CASE Provision \/ RotateToken \/ Delete
    BY <1>3, BeginStep
  <1>4. CASE TakeSecret \/ Forget \/ PollNotFound
    BY <1>4, EndStep
  <1>5. CASE GiveUp
    BY <1>5, GiveUpStep
  <1>6. CASE Poll
    BY <1>6, PollStep
  <1>7. CASE Deliver
    BY <1>7, DeliverStep
  <1>8. CASE Connect
    BY <1>8, ConnectStep
  <1>9. CASE Crash
    <2>1. online' = FALSE /\ UNCHANGED <<serverVars, config, adminVars>>
      BY <1>9 DEF Crash
    <2> QED BY <2>1 DEF Inv, Types, CallInv, Minted, TokenInv, MintedInv, HostInv,
                        PickupConfirmed, Settled, Held, serverVars, adminVars
  <1>10. CASE Tick
    BY <1>10, TickStep
  <1>11. CASE UNCHANGED vars
    BY <1>11 DEF Inv, Types, CallInv, Minted, TokenInv, MintedInv, HostInv,
                 PickupConfirmed, Settled, Held, vars, serverVars, adminVars,
                 hostVars
  <1> QED
    BY <1>1, <1>2, <1>3, <1>4, <1>5, <1>6, <1>7, <1>8, <1>9, <1>10, <1>11 DEF Next

LEMMA SpecInv == Spec => []Inv
  BY InvInit, InvStep, PTL DEF Spec

\* gateways.go:22-44 and :220-224: for any number of Gateways, secrets and lost
\* calls, a Get that shows a connected Gateway without a pending rotation means
\* that the last secret the administrator was given is the one in use.
THEOREM PickupIsConfirmed == Spec => []PickupConfirmed
  <1>1. Inv => PickupConfirmed
    BY DEF Inv, TokenInv
  <1> QED BY <1>1, SpecInv, PTL

\* No step that mints a token for a Gateway there is disconnects a host.
LEMMA MintingStep ==
    ASSUME Inv, [Next]_vars, \E g \in created : pending'[g] \notin {pending[g], None},
           online
    PROVE  online'
  <1>1. PICK g \in created : pending'[g] \notin {pending[g], None}
    OBVIOUS
  <1>2. PICK r \in {call} \cup strays :
            r.gw \in Gateway /\ Supplied(r) /\ Serve(r) /\ HostAfter
    <2>1. CASE Apply
      BY <2>1 DEF Apply, Inv, Types
    <2>2. CASE \E r \in strays : ApplyStray(r)
      BY <2>2 DEF ApplyStray, Inv, Types
    <2>3. pending' # pending
      BY <1>1
    <2> QED
      BY <2>1, <2>2, <2>3
         DEF Next, Provision, RotateToken, Delete, Begin, TakeSecret, Forget, GiveUp,
             Poll, PollNotFound, Deliver, Connect, Crash, Tick, vars, serverVars,
             hostVars
  <1>3. PICK h \in created : config = inUse[h] /\ rotated[h] # 0
    BY DEF Inv, HostInv
  <1>4. r.op = "rotate"
    <2>1. g \in Gateways /\ pending \in [Gateways -> Token]
      BY DEF Inv, Types
    <2>2. r.op = "provision" => FreshGateway # g
      BY <1>2, FreshIsFresh DEF UsedGateways
    <2> QED
      BY <1>1, <1>2, <2>1, <2>2
         DEF Serve, ServeProvision, ServeDelete, serverVars
  <1>5. created' = created /\ \A a \in created : Served(r, a)
    BY <1>2, <1>4, ServeLeaves DEF Inv
  <1>6. inUse'[h] = inUse[h] /\ rotated'[h] # 0
    BY <1>3, <1>5, GraceAssumption DEF Served
  <1> QED BY <1>2, <1>3, <1>5, <1>6 DEF HostAfter

\* gateways.go:212-216: no RotateToken, the repeated and the late ones included,
\* disconnects a host that is connected.
THEOREM RotationsAreSeamless == Spec => Seamless
  <1>1. Inv /\ [Next]_vars =>
            [(\E g \in created : pending'[g] \notin {pending[g], None})
                 => (online => online')]_vars
    BY MintingStep
  <1> QED BY <1>1, SpecInv, PTL DEF Spec, Seamless

-----------------------------------------------------------------------------
(* The Gateways nobody manages. *)

Orphans == created \ {gw, call.gw}

LateProvisions == {r \in strays : r.op = "provision"}

Counted == Cardinality(Orphans) + Cardinality(LateProvisions) <= lost

\* A step that adds to neither set leaves them counted.
LEMMA NoneAdded ==
    ASSUME Inv, Counted, Orphans' \subseteq Orphans,
           LateProvisions' \subseteq LateProvisions, lost' = lost
    PROVE  Counted'
  <1>1. IsFiniteSet(Orphans) /\ IsFiniteSet(LateProvisions)
    BY FS_Subset DEF Inv, Types, Orphans, LateProvisions
  <1>2. /\ Cardinality(Orphans') <= Cardinality(Orphans)
        /\ Cardinality(LateProvisions') <= Cardinality(LateProvisions)
        /\ IsFiniteSet(Orphans') /\ IsFiniteSet(LateProvisions')
    BY <1>1, FS_Subset
  <1>3. /\ Cardinality(Orphans) \in Nat /\ Cardinality(LateProvisions) \in Nat
        /\ Cardinality(Orphans)' \in Nat /\ Cardinality(LateProvisions)' \in Nat
    BY <1>1, <1>2, FS_CardinalityType
  <1> QED BY <1>2, <1>3 DEF Counted, Inv, Types

\* A finite set that one element joins grows by one at most.
LEMMA AtMostOneMore ==
    ASSUME NEW S, NEW T, NEW x, IsFiniteSet(S), T \subseteq S \cup {x}
    PROVE  /\ Cardinality(S) \in Nat /\ Cardinality(T) \in Nat
           /\ Cardinality(T) <= Cardinality(S) + 1
  <1>1. IsFiniteSet(S \cup {x}) /\ Cardinality(S) \in Nat
    BY FS_AddElement, FS_CardinalityType
  <1>2. \/ Cardinality(S \cup {x}) = Cardinality(S)
        \/ Cardinality(S \cup {x}) = Cardinality(S) + 1
    BY FS_AddElement, Zenon
  <1>3. IsFiniteSet(T) /\ Cardinality(T) <= Cardinality(S \cup {x})
    BY <1>1, FS_Subset
  <1>4. Cardinality(T) \in Nat
    BY <1>3, FS_CardinalityType
  <1> QED BY <1>1, <1>2, <1>3, <1>4

\* A lost call adds one Gateway or one request to them, and is counted.
LEMMA LostAdds ==
    ASSUME Inv, Counted, GiveUp
    PROVE  Counted'
  <1>1. IsFiniteSet(Orphans) /\ IsFiniteSet(LateProvisions)
    BY FS_Subset DEF Inv, Types, Orphans, LateProvisions
  <1>2. /\ call' = Idle /\ lost' = lost + 1 /\ lost \in Nat
        /\ UNCHANGED <<created, gw>> /\ None \notin created
        /\ strays' = IF call.phase = "sent"
                     THEN strays \cup {[id |-> lost', op |-> call.op,
                                        gw |-> call.gw]}
                     ELSE strays
    BY NoneAssumption DEF GiveUp, serverVars, Inv, Types
  <1>3. \/ Orphans' \subseteq Orphans \cup {call.gw} /\ LateProvisions' = LateProvisions
        \/ /\ Orphans' \subseteq Orphans
           /\ \E r : LateProvisions' \subseteq LateProvisions \cup {r}
    <2>1. CASE call.phase = "sent"
      <3>1. call.gw \in {None, gw}
        BY <2>1 DEF Inv, CallInv, Requests
      <3>2. Orphans' \subseteq Orphans
        BY <1>2, <3>1 DEF Orphans, Idle
      <3>3. LateProvisions' \subseteq
                LateProvisions \cup {[id |-> lost', op |-> call.op, gw |-> call.gw]}
        BY <1>2, <2>1 DEF LateProvisions
      <3> QED BY <3>2, <3>3
    <2>2. CASE call.phase # "sent"
      BY <1>2, <2>2 DEF Orphans, LateProvisions, Idle
    <2> QED BY <2>1, <2>2
  <1>4. \A S, T, x : IsFiniteSet(S) /\ T \subseteq S \cup {x} =>
            /\ Cardinality(S) \in Nat /\ Cardinality(T) \in Nat
            /\ Cardinality(T) <= Cardinality(S) + 1
    BY AtMostOneMore
  <1>5. \A S, T : IsFiniteSet(S) /\ T \subseteq S =>
            /\ Cardinality(S) \in Nat /\ Cardinality(T) \in Nat
            /\ Cardinality(T) <= Cardinality(S)
    BY FS_Subset, FS_CardinalityType
  <1>6. CASE /\ Orphans' \subseteq Orphans \cup {call.gw}
             /\ LateProvisions' = LateProvisions
    <2>1. /\ Cardinality(Orphans) \in Nat /\ Cardinality(Orphans') \in Nat
          /\ Cardinality(Orphans') <= Cardinality(Orphans) + 1
      BY <1>1, <1>4, <1>6
    <2>2. Cardinality(LateProvisions) \in Nat
      BY <1>1, FS_CardinalityType
    <2> QED BY <1>2, <1>6, <2>1, <2>2 DEF Counted
  <1>7. CASE /\ Orphans' \subseteq Orphans
             /\ \E r : LateProvisions' \subseteq LateProvisions \cup {r}
    <2>1. /\ Cardinality(Orphans) \in Nat /\ Cardinality(Orphans') \in Nat
          /\ Cardinality(Orphans') <= Cardinality(Orphans)
      BY <1>1, <1>5, <1>7
    <2>2. /\ Cardinality(LateProvisions) \in Nat
          /\ Cardinality(LateProvisions') \in Nat
          /\ Cardinality(LateProvisions') <= Cardinality(LateProvisions) + 1
      BY <1>1, <1>4, <1>7
    <2> QED BY <1>2, <2>1, <2>2 DEF Counted
  <1> QED BY <1>3, <1>6, <1>7

\* A Provision that arrives late leaves the requests for the Gateways.
LEMMA LateProvisionArrives ==
    ASSUME Inv, Counted, NEW r \in strays, ApplyStray(r), r.op = "provision"
    PROVE  Counted'
  <1>1. IsFiniteSet(Orphans) /\ IsFiniteSet(LateProvisions) /\ lost \in Nat
    BY FS_Subset DEF Inv, Types, Orphans, LateProvisions
  <1>2. /\ created' = created \cup {FreshGateway}
        /\ strays' = strays \ {r} /\ UNCHANGED <<gw, call, lost>>
    BY DEF ApplyStray, Serve, ServeProvision
  <1>3. r \in LateProvisions /\ LateProvisions' = LateProvisions \ {r}
    BY <1>2 DEF LateProvisions
  <1>4. Orphans' \subseteq Orphans \cup {FreshGateway}
    BY <1>2 DEF Orphans
  <1>5. /\ Cardinality(Orphans) \in Nat /\ Cardinality(Orphans') \in Nat
        /\ Cardinality(Orphans') <= Cardinality(Orphans) + 1
    BY <1>1, <1>4, AtMostOneMore
  <1>6. /\ Cardinality(LateProvisions) \in Nat
        /\ Cardinality(LateProvisions') = Cardinality(LateProvisions) - 1
    BY <1>1, <1>3, FS_RemoveElement, FS_CardinalityType
  <1> QED BY <1>1, <1>2, <1>5, <1>6 DEF Counted

LEMMA CountedStep ==
    ASSUME Inv, Counted, [Next]_vars
    PROVE  Counted'
  <1>1. None \notin created
    BY NoneAssumption DEF Inv, Types
  <1>2. CASE Apply
    <2>1. /\ UNCHANGED <<gw, strays, lost>> /\ Serve(call) /\ Supplied(call)
          /\ call.phase = "sent" /\ call.gw \in Gateway
          /\ call'.gw = Target(call)
      BY <1>2 DEF Apply, Target, Inv, Types
    <2>2. created' = IF call.op = "provision" THEN created \cup {FreshGateway}
                     ELSE IF call.op = "delete" THEN created \ {call.gw}
                     ELSE created
      BY <2>1, ServeLeaves DEF Inv
    <2>3. call.op = "provision" => call.gw = None
      BY <2>1 DEF Inv, CallInv
    <2>4. Orphans' \subseteq Orphans
      BY <1>1, <2>1, <2>2, <2>3 DEF Orphans, Target
    <2> QED BY <2>1, <2>4, NoneAdded DEF LateProvisions
  <1>3. CASE \E r \in strays : ApplyStray(r)
    <2>1. PICK r \in strays : ApplyStray(r)
      BY <1>3
    <2>2. CASE r.op = "provision"
      BY <2>1, <2>2, LateProvisionArrives
    <2>3. CASE r.op # "provision"
      <3>1. /\ UNCHANGED <<gw, call, lost>> /\ Serve(r) /\ Supplied(r)
            /\ strays' = strays \ {r} /\ r.gw \in Gateway
        BY <2>1 DEF ApplyStray, Inv, Types
      <3>2. created' \subseteq created
        BY <2>3, <3>1, ServeLeaves DEF Inv
      <3> QED BY <3>1, <3>2, NoneAdded DEF Orphans, LateProvisions
    <2> QED BY <2>2, <2>3
  <1>4. CASE Provision \/ RotateToken \/ Delete
    <2>1. /\ UNCHANGED <<created, gw, strays, lost>>
          /\ call = Idle /\ call'.gw \in {None, gw}
      BY <1>4 DEF Provision, RotateToken, Delete, Begin, serverVars, Inv, CallInv
    <2> QED BY <1>1, <2>1, NoneAdded DEF Orphans, LateProvisions, Idle
  <1>5. CASE TakeSecret
    <2>1. /\ UNCHANGED <<created, strays, lost>> /\ gw' = call.gw
          /\ gw \in {None, call.gw}
      BY <1>5 DEF TakeSecret, serverVars, Inv, CallInv
    <2> QED BY <1>1, <2>1, NoneAdded DEF Orphans, LateProvisions
  <1>6. CASE Forget \/ PollNotFound
    <2>1. /\ UNCHANGED <<created, strays, lost>> /\ gw \notin created
          /\ call.gw \notin created
      BY <1>1, <1>6
         DEF Forget, PollNotFound, serverVars, Inv, CallInv, Idle
    <2> QED BY <2>1, NoneAdded DEF Orphans, LateProvisions
  <1>7. CASE GiveUp
    BY <1>7, LostAdds
  <1>8. CASE Poll \/ Deliver \/ Connect \/ Crash \/ Tick \/ UNCHANGED vars
    <2>1. UNCHANGED <<created, gw, call, strays, lost>>
      BY <1>8 DEF Poll, Deliver, Connect, Crash, Tick, vars, serverVars, adminVars
    <2> QED BY <2>1, NoneAdded DEF Orphans, LateProvisions
  <1> QED
    BY <1>2, <1>3, <1>4, <1>5, <1>6, <1>7, <1>8 DEF Next

\* gateways.go:173-188 and retry.go:31-66: for any number of lost calls, the
\* Gateways that nobody manages and the Provisions that may still make one are
\* no more than the calls that ended in a transport error.
THEOREM OrphansAreCounted == Spec => []OrphansCounted
  <1>1. Init => Counted
    <2> SUFFICES ASSUME Init PROVE Counted
      OBVIOUS
    <2>1. Orphans = {} /\ LateProvisions = {} /\ lost = 0
      BY DEF Init, Orphans, LateProvisions
    <2> QED BY <2>1, FS_EmptySet DEF Counted
  <1>2. Counted => OrphansCounted
    BY DEF Counted, OrphansCounted, Orphans, LateProvisions
  <1> QED BY <1>1, <1>2, SpecInv, CountedStep, PTL DEF Spec
=============================================================================
