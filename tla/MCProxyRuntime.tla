--------------------------- MODULE MCProxyRuntime ---------------------------
(* Instances of ProxyRuntime for TLC.                                      *)
EXTENDS ProxyRuntime, TLC

AllRequests == Modes \X BOOLEAN
SomeRequests == {<<"auto", FALSE>>, <<"singbox", FALSE>>}
Symmetry == Permutations(Inbounds) \cup Permutations(Callers)
=============================================================================
