---------------------------- MODULE MCChatbotReply ----------------------------
(* Instances of ChatbotReply for TLC.  Messages come in any order, so they are *)
(* interchangeable; the symmetry is used where no liveness is checked.         *)
EXTENDS ChatbotReply, TLC

Symmetry == Permutations(Msgs)
===============================================================================
