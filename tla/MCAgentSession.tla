--------------------------- MODULE MCAgentSession ---------------------------
(***************************************************************************)
(* A TLC instance of AgentSession: the resume of Alice's session and a     *)
(* request of any kind, of hers or of Bob.                                 *)
(***************************************************************************)
EXTENDS AgentSession

CONSTANTS resume, first, second, alice, bob

\* Bob signs in on Alice's PC.
TwoUsers == [o \in {resume, first, second} |-> IF o = second THEN bob ELSE alice]

\* Bound: one request besides the resume.
OneRequest == pc[first] = "idle" \/ pc[second] = "idle"
=============================================================================
