------------------------------ MODULE MCAssistant ------------------------------
(* A finite instance of Assistant: executions are few because calls are. *)
EXTENDS Assistant

===============================================================================
