---------------------------- MODULE MCChatWindow ----------------------------
(* Small instances of one chat window for TLC.                             *)
EXTENDS ChatWindow

CONSTANTS lobby, trading
=============================================================================
