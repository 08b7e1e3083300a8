-------------------------- MODULE MCTenantContext --------------------------
(* TenantContext with pools of one or two connections.                     *)
EXTENDS TenantContext

\* A pool that is exhausted by one request, one that overflows, and one that
\* keeps two connections.
SmallPools == {[size |-> 1, overflow |-> 0], [size |-> 1, overflow |-> 1],
               [size |-> 2, overflow |-> 0]}

OneConnection == {[size |-> 1, overflow |-> 0]}

=============================================================================
