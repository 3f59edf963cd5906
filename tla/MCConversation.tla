--------------------------- MODULE MCConversation ---------------------------
(* Small instances of a conversation with the bot for TLC.                 *)
EXTENDS Conversation

CONSTANTS lobby, trading
=============================================================================
