---------------------------- MODULE MCUserSession ----------------------------
(***************************************************************************)
(* UserSession for TLC: one message of every way through the handlers.       *)
(***************************************************************************)
EXTENDS UserSession

CONSTANTS h1, h2

MCMessages ==
  {"Learning", "Shiritori", "Chatting", "SystemPrompt", "UseTTT", "UseSTTAndTTS",
   "tasks_add", "word_del", "/stop", "text"}
===============================================================================
