---------------------------- MODULE MCTwoClients ----------------------------
(* Two requests at a time, each client free to send either kind. *)
EXTENDS TwoClients

Edits == [c \in Clients |-> {"set_host_interval", "set_settings"}]
Watching ==
  LET plain == [paused |-> FALSE, rate |-> None, os |-> CHOOSE os \in OSes : TRUE,
                group |-> None]
  IN {[BlankFile EXCEPT !.hosts = [h \in Hosts |-> plain]]}
=============================================================================
