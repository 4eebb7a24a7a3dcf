------------------------------ MODULE Identity ------------------------------
(***************************************************************************)
(* Who a request is served as: verify_token and the gates of auth.py, and   *)
(* current_principal and require_account of tenancy.py, around key_for of   *)
(* module Jwks.                                                             *)
(*                                                                         *)
(* What a token says does not bear on key_for, only its kid does; so the    *)
(* kid is chosen when the request comes in (Call) and the rest of the token *)
(* when its claims are decoded.  jwt.decode is the library's: here it tells *)
(* a genuine signature, a current token, and one made for this project.     *)
(***************************************************************************)
EXTENDS Jwks

CONSTANTS
    Tokens,     \* tokens, without their kid: [genuine, current, ours, sub, tenants, roles]
    NoToken,    \* no Authorization header
    Absent,     \* a claim that is missing or empty
    Public      \* DEFAULT_TENANT

ASSUME IdentityAssumption ==
    /\ NoToken \notin Tokens
    /\ \A token \in Tokens :
        /\ {token.genuine, token.current, token.ours} \subseteq BOOLEAN
        /\ DOMAIN token.tenants = 1..4 /\ DOMAIN token.roles = 1..3

VARIABLES
    configured, \* SUPABASE_URL is set
    open,       \* threads inside verify_token
    reply       \* what the last step answered, NoReply when it answered nobody

idVars == <<vars, configured, open, reply>>

Routes == {"search", "account", "me", "pro"}

\* `a or b or ... or default'
FirstOf(claims, default) ==
    LET given == {i \in DOMAIN claims : claims[i] # Absent} IN
    IF given = {} THEN default
    ELSE claims[CHOOSE i \in given : \A j \in given : i <= j]

\* _tenant_from_claims(claims) or DEFAULT_TENANT; _role_from_claims
Tenant(token) == FirstOf(token.tenants, Public)
Role(token) == FirstOf(token.roles, "free")

Principal(token) == [tenant |-> Tenant(token), user |-> token.sub, role |-> Role(token)]
Anonymous == [tenant |-> Public, user |-> Absent, role |-> "anonymous"]

\* decode_claims: signature with the key of the kid, expiry, issuer and audience
Decoded(token) == token.genuine /\ token.current /\ token.ours

\* verify_token, given how key_for ended: 200, 401 or 503
Verified(token, outcome) ==
    CASE outcome = "unavailable" -> 503
      [] outcome = "unknown" -> 401
      [] OTHER -> IF Decoded(token) THEN 200 ELSE 401

\* What the route's dependency does with the principal: none on /search; a user for
\* require_account and require_user; the role too for require_role("pro").
Admission(route, who) ==
    CASE route = "search" -> 200
      [] who.user = Absent -> 401
      [] route = "pro" /\ who.role # "pro" -> 403
      [] OTHER -> 200

\* An answer: its status and, when the request is served, the token and the route it
\* is for, the principal, and whether the cache has held the token's key during the
\* request (history).
Refused(status) ==
    [status |-> status, token |-> NoToken, route |-> "search", who |-> Anonymous, held |-> FALSE]
Answer(status, token, route, who, held) ==
    IF status # 200 THEN Refused(status)
    ELSE [status |-> status, token |-> token, route |-> route, who |-> who, held |-> held]
NoReply == Refused(0)

-----------------------------------------------------------------------------
IdInit ==
    /\ Init
    /\ configured \in BOOLEAN
    /\ open = {} /\ reply = NoReply

\* verify_token up to key_for; _cache_for gives every thread the same cache
Verify(t) ==
    /\ configured /\ t \notin open
    /\ Call(t)
    /\ open' = open \cup {t}
    /\ reply' = NoReply
    /\ UNCHANGED configured

\* key_for, time and rotations
Work ==
    /\ \/ Tick \/ Rotate
       \/ \E t \in Threads : Step(t) \/ FetchAnswers(t) \/ FetchFails(t)
    /\ reply' = NoReply
    /\ UNCHANGED <<configured, open>>

\* decode_claims, the principal and the gate of the route
Serve(t) ==
    /\ t \in open /\ pc[t] \in Outcomes
    /\ open' = open \ {t}
    /\ \E token \in Tokens, route \in Routes :
        LET who == Principal(token)
            status == Verified(token, pc[t])
        IN reply' = Answer(IF status = 200 THEN Admission(route, who) ELSE status,
                           token, route, who, seen[t])
    /\ UNCHANGED <<vars, configured>>

\* HTTPBearer(auto_error=True) refuses on /me; elsewhere the request is anonymous
WithoutToken(route) == IF route = "me" \/ route = "pro" THEN 401 ELSE Admission(route, Anonymous)

\* A request that does not reach key_for: without a token, to a service without
\* SUPABASE_URL (_supabase_url), or with a token whose header does not parse.
ServeAtOnce ==
    /\ open # Threads
    /\ \/ \E route \in Routes :
            reply' = Answer(WithoutToken(route), NoToken, route, Anonymous, FALSE)
       \/ reply' = Refused(IF configured THEN 401 ELSE 503)
    /\ UNCHANGED <<vars, configured, open>>

IdNext == Work \/ ServeAtOnce \/ \E t \in Threads : Verify(t) \/ Serve(t)

\* The fairness of key_for; a request that has its key is not obliged to go on.
IdSpec == IdInit /\ [][IdNext]_idVars /\ Fairness

-----------------------------------------------------------------------------
(* Properties                                                              *)

\* "Identity comes only from a token the JWKS verified": a request that is served
\* without a token is anonymous, in the public tenant and on an open route; one with
\* a token was decoded with a key the cache held during the request, in whatever
\* outage or rotation, is served as that token's subject in a tenant it claims, and
\* passes a gate only with the subject and the role the gate asks for.
AdmittedIsVerified ==
    reply.status = 200 =>
        LET token == reply.token
            who == reply.who
        IN
        IF token = NoToken THEN who = Anonymous /\ reply.route = "search"
        ELSE /\ reply.held
             /\ token.genuine /\ token.current /\ token.ours
             /\ who.user = token.sub
             /\ who.tenant = Public \/ \E i \in DOMAIN token.tenants : who.tenant = token.tenants[i]
             /\ reply.route # "search" => token.sub # Absent
             /\ reply.route = "pro" => who.role = "pro"

=============================================================================
