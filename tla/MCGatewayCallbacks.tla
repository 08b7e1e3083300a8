------------------------- MODULE MCGatewayCallbacks -------------------------
(* Small instances of GatewayCallbacks for TLC.                            *)
EXTENDS GatewayCallbacks, TLC

\* Slots, call ids and provider calls are interchangeable.
Symmetric == Permutations(Slot) \union Permutations(CallId) \union Permutations(PCall)

\* Every call starts and ends once and the API, the network and the gateway
\* fail; or one call is announced twice, by two kinds of start event; or one
\* call gets the other kinds of event and the gateway and Redis fail.
RacesOrRedis ==
  {[events |-> PCall \X {"answered", "terminal"}, faults |-> {"api", "lost", "crash"}]}
    \union {[events |-> {p} \X StartEvents, faults |-> {"lost", "crash"}] : p \in PCall}
    \union {[events |-> {p} \X (Event \ {"connected"}), faults |-> {"crash", "redis"}] : p \in PCall}

\* One start and one end event each; the API may fail.
ApiFails == {[events |-> PCall \X Event, faults |-> {"api"}]}

=============================================================================
