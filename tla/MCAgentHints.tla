---------------------------- MODULE MCAgentHints ----------------------------
(* AgentHintsManager with three concurrent calls over profiles of two keys. *)
EXTENDS AgentHintsManager

CONSTANTS x, y, z

MCProfiles == [{"priority", "model_id"} -> {x, y, z}]

MCDefault == [k \in {"priority", "model_id"} |-> x]

MCOps ==
    {[kind |-> "get"],
     [kind |-> "set_profile", profile |-> [priority |-> y, model_id |-> y]],
     [kind |-> "set_hint", key |-> "priority", value |-> z],
     [kind |-> "set_hint", key |-> "model_id", value |-> z],
     [kind |-> "set_hint", key |-> "priority", value |-> NotInt],
     [kind |-> "set_hint", key |-> "unknown", value |-> NotInt]}
==============================================================================
