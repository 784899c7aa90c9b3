------------------------------ MODULE MCAccounts ------------------------------
(* An administrator, and the same address in another spelling.               *)
EXTENDS Accounts, TLC

CONSTANTS a, A

LowerOf == a :> a @@ A :> a
Together == {{"role", "state"}, {"invite", "role"}, {"refresh", "reset"},
             {"reset", "password"}, {"refresh", "sso"}}
Symmetry == Permutations(Handlers)
=============================================================================
