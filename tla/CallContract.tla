---------------------------- MODULE CallContract ----------------------------
(***************************************************************************)
(* What a caller of the SDK may rely on, whatever the network, the server, *)
(* the clock and the other callers do: a call takes effect at most once,   *)
(* with the body the caller gave, and the result it returns tells whether  *)
(* the effect happened, may happen or never will.                          *)
(***************************************************************************)
EXTENDS Sequences

CONSTANTS
    Calls,  \* the calls made through one client
    Body    \* the request body of each call

\* What a call returns, "none" while it runs.
Outcomes == {"none", "ok", "undecodable", "rateLimited", "rejected",
             "failed", "transport", "context"}

\* The server has applied the request (and said so).
Effective == {"ok", "undecodable"}

\* The server has not applied the request and never will.
Effectless == {"rateLimited", "rejected", "context"}

VARIABLES
    outcome,    \* what each call has returned
    effects     \* the bodies the server has applied for each call, in order

Init ==
    /\ outcome = [c \in Calls |-> "none"]
    /\ effects = [c \in Calls |-> <<>>]

\* Only a transport error leaves the fate of the request open: it may be
\* applied after the caller has given up.
Apply(c) ==
    /\ effects[c] = <<>>
    /\ outcome[c] \in {"none", "transport"}
    /\ effects' = [effects EXCEPT ![c] = <<Body[c]>>]
    /\ UNCHANGED outcome

Return(c, o) ==
    /\ outcome[c] = "none"
    /\ o \in Effective => effects[c] # <<>>
    /\ o \in Effectless => effects[c] = <<>>
    /\ outcome' = [outcome EXCEPT ![c] = o]
    /\ UNCHANGED effects

Next == \E c \in Calls :
            \/ Apply(c)
            \/ \E o \in Outcomes \ {"none"} : Return(c, o)

Spec == Init /\ [][Next]_<<outcome, effects>>

=============================================================================
