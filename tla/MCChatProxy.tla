----------------------------- MODULE MCChatProxy ----------------------------
(***************************************************************************)
(* The chat proxy for TLC: requests are model values; the Model Connector  *)
(* uses a type that falls back as 429, one that falls back as auth_error   *)
(* and one that does not fall back (the synthetic types come on top).      *)
(***************************************************************************)
EXTENDS ChatProxyProperties

MCErrorTypes == {"rate_limited", "circuit_open", "prompt_too_long"}
=============================================================================
