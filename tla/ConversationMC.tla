---------------------------- MODULE ConversationMC ----------------------------
(* Instances of Conversation for TLC. *)
EXTENDS Conversation
=============================================================================
