------------------------------- MODULE Stripe -------------------------------
(***************************************************************************)
(* Stripe as the backend uses it: a checkout session is created by an API  *)
(* call, the customer who has been given its URL pays it or lets it        *)
(* expire, and Stripe reports either event to the webhook, at least once   *)
(* and again whenever the answer is not 2xx.                               *)
(***************************************************************************)
EXTENDS Requests

VARIABLE session  \* session[t]: the checkout session that request t created

SessionState == {"none", "open", "paid", "expired"}

StripeInit == session = [t \in Tx |-> "none"]

\* createCheckoutSession: Stripe creates the session.
OpenSession(t) == session' = [session EXCEPT ![t] = "open"]

\* The customer was given the URL in the answer to request t, and pays.
Pay(t) ==
    /\ session[t] = "open"
    /\ pc[t] = "done"
    /\ session' = [session EXCEPT ![t] = "paid"]
    /\ UNCHANGED <<dbVars, requestVars>>

\* The customer never pays.
Expire(t) ==
    /\ session[t] = "open"
    /\ ~Running(t)
    /\ session' = [session EXCEPT ![t] = "expired"]
    /\ UNCHANGED <<dbVars, requestVars>>

\* There is something to report about the session of request s.
Reportable(s) == session[s] \in {"paid", "expired"}
=============================================================================
