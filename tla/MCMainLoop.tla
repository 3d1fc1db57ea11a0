----------------------------- MODULE MCMainLoop -----------------------------
(***************************************************************************)
(* A small instance of the daemon: the shipped whitelist restricted to two *)
(* of its actions, four components, and the kinds of reply that take each  *)
(* path through the parser and the gates.                                  *)
(***************************************************************************)
EXTENDS MainLoop

\* "web app" yields a unit name its pattern refuses; "sda" is a disk.
MCComponent == {"nginx", "nginx.service", "web app", "sda"}

MCServiceUnit ==
    [c \in MCComponent |->
        CASE c = "nginx"         -> "nginx.service"
          [] c = "nginx.service" -> "nginx.service"
          [] c = "web app"       -> "web app.service"
          [] c = "sda"           -> "sda.service"]

MCWhitelist ==
    [ restart_service |->
        [ fault_categories |-> {"application", "os"},
          parameters |-> {[name |-> "unit_name",
                           pattern |-> {"nginx.service", "sda.service"}]} ],
      reap_zombies |->
        [ fault_categories |-> {"os"}, parameters |-> {} ] ]

\* The daemon acts on this one ...
Restart ==
    [ root_cause_component |-> "nginx",  confidence |-> 75,
      fault_category |-> "application",  hardware_involved |-> FALSE,
      causal_chain |-> {"nginx"},        auto_remediable |-> TRUE,
      suggested_action |-> "restart_service" ]

Reap == [Restart EXCEPT !.fault_category = "os", !.suggested_action = "reap_zombies"]

\* ... and each of these fails one check.
Unsure     == [Restart EXCEPT !.confidence = 74]
Hardware   == [Restart EXCEPT !.hardware_involved = TRUE]
Manual     == [Restart EXCEPT !.auto_remediable = FALSE]
WrongFault == [Restart EXCEPT !.fault_category = "database"]
BadUnit    == [Restart EXCEPT !.root_cause_component = "web app"]
BadSchema  == [Restart EXCEPT !.fault_category = "storage"]

Bare(body)   == [prefix |-> "none",  body |-> body, suffix |-> "none"]
Fenced(body) == [prefix |-> "fence", body |-> body, suffix |-> "fence"]
Spoken(body) == [prefix |-> "words", body |-> body, suffix |-> "none"]

MCReply ==
    {Bare(Restart), Fenced(Reap), Bare(Unsure), Bare(Hardware), Bare(Manual),
     Bare(WrongFault), Bare(BadUnit), Bare(BadSchema), Spoken(Restart)}

MCAnomalyReport == {<<"proc">>, <<"proc", "smart">>}

=============================================================================
