---------------------------- MODULE MCVoiceCalls ----------------------------
(* Small instances of VoiceCalls for TLC.                                  *)
EXTENDS VoiceCalls, TLC

\* Connections and calls are interchangeable.
Symmetric == Permutations(Conn) \union Permutations(CallId)

=============================================================================
