----------------------------- MODULE AsrConfig -----------------------------
(***************************************************************************)
(* Which recognition models a request or a session asks: the switches of    *)
(* config.py, from the configuration file through the overrides of an       *)
(* endpoint and of its client.                                              *)
(***************************************************************************)

\* enable_primary_asr, enable_secondary_asr, enable_dual_asr_fusion.
Switches == {"primary", "secondary", "fusion"}
Configs  == [Switches -> BOOLEAN]

\* What a mapping of overrides may say of them.  All three are among the
\* CLIENT_OVERRIDABLE_FIELDS.
Overrides == UNION {[S -> BOOLEAN] : S \in SUBSET Switches}

\* Config.__post_init__(): fusion needs the secondary, and is turned off without.
Settled(c) == [c EXCEPT !["fusion"] = c["fusion"] /\ c["secondary"]]

\* What is turned off when a configuration settles stays off in the next one.
Override(c, o) == Settled([s \in Switches |-> IF s \in DOMAIN o THEN o[s] ELSE c[s]])

\* A session opens with what its endpoint forces; a client that sends a
\* configuration has it applied, and what the endpoint forces again after it.
SessionConfig(file, forced, client) ==
    LET opened == Override(Settled(file), forced)
    IN  IF DOMAIN client = {} THEN opened ELSE Override(Override(opened, client), forced)

\* What the endpoint of a session forces: /tuling/ast/v3, the secondary off.
Endpoints == {"astv3", "native"}

Forced(endpoint) ==
    [s \in IF endpoint = "astv3" THEN {"secondary"} ELSE {} |-> FALSE]

SessionConfigs(endpoint) ==
    {SessionConfig(file, Forced(endpoint), client) : file \in Configs, client \in Overrides}

\* rest.routes.transcribe may have a fusion switch of its own.
RouteConfigs ==
    {Override(Settled(file), route) : file \in Configs,
                                      route \in UNION {[S -> BOOLEAN] : S \in SUBSET {"fusion"}}}

\* With fusion the secondary is asked; the primary is asked where it is enabled.
Asked(c) == {m \in {"primary", "secondary"} : c[IF m = "primary" THEN "primary" ELSE "fusion"]}
=============================================================================
