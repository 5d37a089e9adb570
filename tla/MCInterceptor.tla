--------------------------- MODULE MCInterceptor ---------------------------
(* Model-checking instance of Interceptor: three request lineages (two     *)
(* controller requests and a sign-out, or the bootstrap), layout versions *)
(* up to 3 so that two re-fetches can be served different versions.       *)
EXTENDS Interceptor, TLC

CONSTANTS r1, r2, r3

MCReq == {r1, r2, r3}

MCSymmetry == Permutations(MCReq)

MCReqLive == {r1, r2}

=============================================================================
