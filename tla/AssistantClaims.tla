--------------------------- MODULE AssistantClaims ---------------------------
(* A statement of the repository about approvals that the code does not keep. *)
EXTENDS MCAssistant

\* "Mutating tools ... always pause for the user's explicit approval before they
\* actually run" (the system prompt, assistant.service.ts): a mutation that ran was
\* approved, on the card that showed it.
RanMeansApproved ==
  \A c \in Mutation : executed[c] > 0 => c \in approved
===============================================================================
