------------------------------- MODULE MCMain -------------------------------
(* Small instances of Main. *)
EXTENDS Main

(* A valid command line, and those that differ from it in one number, or in  *)
(* the other options.                                                        *)
MCArgs ==
    [num : {[[f \in Options |-> 1] EXCEPT ![g] = n] : g \in Options, n \in {-1, 0, 1, 65536}},
     hosts : {TRUE}, upstream_transport : {"udp", "relay"}, refresh_enabled : BOOLEAN,
     refresh_warmup_enabled : BOOLEAN, refresh_warmup_file : {TRUE},
     relay_base_url : {"none", "good"}, relay_startup_check : {"require"}]
    \cup
    [num : {[f \in Options |-> 1]}, hosts : BOOLEAN,
     upstream_transport : {"udp", "relay"}, refresh_enabled : BOOLEAN,
     refresh_warmup_enabled : BOOLEAN, refresh_warmup_file : BOOLEAN,
     relay_base_url : {"none", "good", "bad"}, relay_startup_check : {"require", "off"}]
=============================================================================
