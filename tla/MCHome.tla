-------------------------------- MODULE MCHome --------------------------------
(* The model-checking instance of HomeAssistant alone. *)
EXTENDS HomeAssistant

Spec == HomeSpec /\ HomeFairness
===============================================================================
