----------------------------- MODULE MCStartup ------------------------------
(* Our key, a partner's key below the minimum and its successor. *)
EXTENDS Startup

CONSTANTS app, worker, own, legacy, renewed

KeyBits == [k \in {own, legacy, renewed} |-> IF k = legacy THEN 1024 ELSE 2048]

(* with the legacy key and its override; with neither; with the legacy key *)
(* and no override, a configuration that cannot be run                     *)
Before == [keys |-> {own, legacy}, override |-> [k \in {legacy} |-> 1024]]
After == [keys |-> {own, renewed}, override |-> [k \in {} |-> 0]]
Unexcused == [keys |-> {own, legacy}, override |-> [k \in {} |-> 0]]
PartnerFiles == {Before, After, Unexcused}
=============================================================================
