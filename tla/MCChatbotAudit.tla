---------------------------- MODULE MCChatbotAudit ----------------------------
(* Instances of ChatbotAudit for TLC. *)
EXTENDS ChatbotAudit

CONSTANTS a1, a2, a3

\* One audit the cloud always refuses.
AllAudits == {a1, a2, a3}
OneRefused == {a1}
===============================================================================
