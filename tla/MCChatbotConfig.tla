---------------------------- MODULE MCChatbotConfig ----------------------------
(* Instances of ChatbotConfig for TLC. *)
EXTENDS ChatbotConfig

CONSTANTS u1, u2

TwoUsers == {u1, u2}

\* The first edit of u1 is one the store's validation does not accept.
OneRefused == {<<u1, 1>>}
================================================================================
