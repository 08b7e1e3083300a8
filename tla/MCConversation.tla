--------------------------- MODULE MCConversation ---------------------------
(* Conversation with small limits.                                         *)
EXTENDS Conversation

=============================================================================
