----------------------------- MODULE MCRecords -----------------------------
(* Records with interchangeable ids, keys and requests.                    *)
EXTENDS Records, TLC

Symmetric == Permutations(Id) \union Permutations(Key) \union Permutations(Req)

=============================================================================
