--------------------------- MODULE MCCapabilityGate ---------------------------
(* CapabilityGate with the tokens and the requests that TLC explores.       *)
EXTENDS CapabilityGate, TLC

CONSTANTS alice, echo, use, gone, v

Token(a, k, n, b, exp) ==
  [agent |-> a, capability |-> k, version |-> n, bound |-> b, exp |-> exp]

Ask(a, k, n, p, ok) ==
  [agent |-> a, capability |-> k, version |-> n, payload |-> p, fits |-> ok]

MCTokens == {Token(alice, echo, 1, Unbound, 0), Token(alice, echo, 1, v, 1)}

MCRequests == {Ask(alice, echo, 1, v, TRUE), Ask(alice, use, 1, v, TRUE),
               Ask(alice, gone, 1, v, TRUE), Ask(alice, echo, 2, v, TRUE)}

MCSupported == (echo :> {1}) @@ (use :> {1})
MCLeasing == {use}

Symmetry == Permutations(Callers)
=============================================================================
