------------------------------ MODULE RestClient ------------------------------
(***************************************************************************)
(* The request layer of the copied neutron client: ClientBase of           *)
(* v2_0/client.py (retries) over HTTPClient of client.py (tokens, and the  *)
(* one repetition after a 401). A caller has one request at a time.        *)
(*                                                                         *)
(* A connection can break before the server has carried a request out or   *)
(* after; the caller cannot tell which. What a request does, and what the  *)
(* server answers, is left to the module that uses this one: here a        *)
(* request is carried out or not, and an answer of any status is an        *)
(* answer.                                                                 *)
(***************************************************************************)
EXTENDS Naturals

CONSTANTS Callers,  \* users of a client each
          Setups    \* see Circumstances

(* retries: the option of the client. keystone: auth_strategy; "noauth"    *)
(* otherwise. faults: how often connections break or tokens expire.        *)
Circumstances(s) ==
    /\ s.retries \in Nat
    /\ s.keystone \in BOOLEAN
    /\ s.faults \in Nat

ASSUME ClientAssumption == \A s \in Setups : Circumstances(s)

Methods == {"GET", "PUT", "POST", "DELETE"}

(* idle: no request yet. login: a token is needed first. send: the request *)
(* is ready to go. answered: the server has answered. broken: the caller   *)
(* gets an exception instead.                                              *)
Phases == {"idle", "login", "send", "answered", "broken"}

VARIABLES setup,   \* what may happen in this deployment
          token,   \* auth_token of each caller
          call,    \* the request of each caller
          faults   \* faults still to come

clientVars == <<setup, token, call, faults>>

(* carried is the number of times the request has been carried out, which  *)
(* only the server knows.                                                  *)
Calls == [at : Phases, method : Methods, tries : Nat, again : BOOLEAN,
          carried : Nat]

Call(m, p) ==
    [at |-> p, method |-> m, tries |-> 0, again |-> FALSE, carried |-> 0]

Init ==
    /\ setup \in Setups
    /\ token = [u \in Callers |-> "none"]
    /\ call = [u \in Callers |-> Call("GET", "idle")]
    /\ faults = setup.faults

(* authenticate_and_fetch_endpoint_url: a token is fetched when there is   *)
(* none; noauth needs none.                                                *)
FirstPhase(u) == IF setup.keystone /\ token[u] = "none" THEN "login" ELSE "send"

Pending(u) == call[u].at \in {"login", "send"}

(* delete, get and put go through retry_request, post does not.            *)
RetriedMethods == {"GET", "PUT", "DELETE"}

MayRetry(c) == c.method \in RetriedMethods /\ c.tries < setup.retries

(* What becomes of request c of u when a connection has failed.            *)
ConnectionFailed(u, c) ==
    IF MayRetry(c)
    THEN [c EXCEPT !.at = FirstPhase(u), !.tries = @ + 1, !.again = FALSE]
    ELSE [c EXCEPT !.at = "broken"]

CarriedOut(c) == [c EXCEPT !.carried = @ + 1]

Update(u, c) == call' = [call EXCEPT ![u] = c]

Fault == faults > 0 /\ faults' = faults - 1

-------------------------------------------------------------------------------

(* A caller issues a request.                                              *)
Issue(u, m) ==
    /\ ~ Pending(u)
    /\ Update(u, Call(m, FirstPhase(u)))
    /\ UNCHANGED <<setup, token, faults>>

Authenticate(u) ==
    /\ call[u].at = "login"
    /\ token' = [token EXCEPT ![u] = "good"]
    /\ Update(u, [call[u] EXCEPT !.at = "send"])
    /\ UNCHANGED <<setup, faults>>

(* 401: a new token and the same request once more, or Unauthorized.       *)
Rejected(u) ==
    /\ call[u].at = "send"
    /\ token[u] = "stale"
    /\ Update(u, IF call[u].again THEN [call[u] EXCEPT !.at = "broken"]
                 ELSE [call[u] EXCEPT !.at = "login", !.again = TRUE])
    /\ UNCHANGED <<setup, token, faults>>

CanServe(u) == call[u].at = "send" /\ token[u] # "stale"

Answered(u) ==
    /\ CanServe(u)
    /\ Update(u, [CarriedOut(call[u]) EXCEPT !.at = "answered"])
    /\ UNCHANGED <<setup, token, faults>>

(* The request is carried out and its answer lost.                         *)
AnswerLost(u) ==
    /\ CanServe(u)
    /\ Fault
    /\ Update(u, ConnectionFailed(u, CarriedOut(call[u])))
    /\ UNCHANGED <<setup, token>>

(* The server, or Keystone, is not reached.                                *)
NotReached(u) ==
    /\ Pending(u)
    /\ Fault
    /\ Update(u, ConnectionFailed(u, call[u]))
    /\ UNCHANGED <<setup, token>>

(* Keystone refuses the credentials; a certificate is not valid. These are *)
(* not connection failures to retry_request.                               *)
Refused(u) ==
    /\ Pending(u)
    /\ Fault
    /\ Update(u, [call[u] EXCEPT !.at = "broken"])
    /\ UNCHANGED <<setup, token>>

Expire(u) ==
    /\ token[u] = "good"
    /\ Fault
    /\ token' = [token EXCEPT ![u] = "stale"]
    /\ UNCHANGED <<setup, call>>

Next == \E u \in Callers :
    \/ \E m \in Methods : Issue(u, m)
    \/ Authenticate(u)
    \/ Rejected(u)
    \/ Answered(u)
    \/ AnswerLost(u)
    \/ NotReached(u)
    \/ Refused(u)
    \/ Expire(u)

Spec == Init /\ [][Next]_clientVars

-------------------------------------------------------------------------------

ClientTypeOK ==
    /\ setup \in Setups
    /\ token \in [Callers -> {"none", "good", "stale"}]
    /\ call \in [Callers -> Calls]
    /\ faults \in Nat

(* "Do not retry POST requests to avoid the orphan objects problem"        *)
(* (v2_0/client.py:310): whatever is lost and whatever token expires, a    *)
(* POST is carried out at most once, the repetition after a 401 included;  *)
(* no request is carried out more often than it is tried; an answer means  *)
(* that it has been; and without a fault every request is answered.        *)
Delivered(u) ==
    /\ call[u].method = "POST" => call[u].carried <= 1
    /\ call[u].carried <= setup.retries + 1
    /\ call[u].at = "answered" => call[u].carried >= 1
    /\ faults = setup.faults => call[u].at # "broken"

Delivery == \A u \in Callers : Delivered(u)

===============================================================================
