------------------------------- MODULE MCJwks -------------------------------
(***************************************************************************)
(* Two threads verify tokens of every kind.  Claims are given in the order  *)
(* in which _tenant_from_claims and _role_from_claims look at them.         *)
(***************************************************************************)
EXTENDS Identity, TLC

ThreadSymmetry == Permutations(Threads)

MCToken == [genuine |-> TRUE, current |-> TRUE, ours |-> TRUE, sub |-> "ann",
            tenants |-> <<Absent, "acme", Absent, "org">>, roles |-> <<Absent, "pro", Absent>>]

\* A pro user of a tenant, one without a subject, one without any claim, and
\* tokens that are forged, expired, or from elsewhere.
MCTokens == {
    MCToken,
    [MCToken EXCEPT !.sub = Absent],
    [MCToken EXCEPT !.tenants = <<Absent, Absent, Absent, Absent>>, !.roles = <<Absent, Absent, Absent>>],
    [MCToken EXCEPT !.genuine = FALSE],
    [MCToken EXCEPT !.current = FALSE],
    [MCToken EXCEPT !.ours = FALSE]}

=============================================================================
