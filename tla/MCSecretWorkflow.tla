--------------------------- MODULE MCSecretWorkflow ---------------------------
(* Two targets that share a consumer, and two updates of either.            *)
EXTENDS SecretWorkflow, TLC

CONSTANTS key, token, ssc, sast

MCTarget == {key, token}
MCConsumers == (key :> <<ssc>>) @@ (token :> <<ssc, sast>>)
==============================================================================
