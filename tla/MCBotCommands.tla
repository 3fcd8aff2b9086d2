---------------------------- MODULE MCBotCommands ---------------------------
(* Small instances of BotCommands for TLC: two requests at a time.         *)
EXTENDS BotCommands

CONSTANTS s1, s2
=============================================================================
