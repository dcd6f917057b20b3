----------------------------- MODULE MCMqttEntity -----------------------------
(* Finite instances of MqttEntity. *)
EXTENDS MqttEntity, TLC

=============================================================================
