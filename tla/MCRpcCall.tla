----------------------------- MODULE MCRpcCall ------------------------------
EXTENDS RpcCall, TLC

\* Threads and nodes are interchangeable: no property orders them.
Symmetry == Permutations(Callers) \cup Permutations(Servers)
=============================================================================
