---------------------------- MODULE ServerConfig ----------------------------
(***************************************************************************)
(* What an MCP server makes of its two files when it starts: the token map *)
(* (config.py, tokenstore.py) and the classification overrides             *)
(* (classification.py).  Anything wrong in either and it does not start.   *)
(***************************************************************************)
EXTENDS Integers, FiniteSets

----------------------------------------------------------------------------
(* The token map is [single, present, private, parses, entries]: single    *)
(* says that no MCP_TOKENS_FILE is set, and present that the file is       *)
(* there.  An entry is [form, token, sound, principal, tools, expires,     *)
(* local]: its key is the token's digest or, in a file not yet migrated,   *)
(* the token; sound says that it names a principal and that not_after and  *)
(* local_only, where given, are a date and a boolean.  No allow-list is    *)
(* the list of all tools.  A digest stands for the one token that has it.  *)

Forms == {"sha256", "plain"}

TokensOf(entries) == {e.token : e \in entries}

(* A bug: the map is by principal, so that one of two entries that name   *)
(* the same caller is lost.                                                *)
NormalizeTokenKeysByPrincipal(entries) ==
    LET kept == {CHOOSE e \in entries : e.principal = p : p \in {e.principal : e \in entries}}
    IN  [t \in TokensOf(kept) |-> CHOOSE e \in kept : e.token = t]

(* normalize_token_keys: digest |-> entry, from keys of either form.       *)
NormalizeTokenKeys(entries) ==
    [t \in TokensOf(entries) |-> CHOOSE e \in entries : e.token = t]

Shadowed(entries) == \E e, f \in entries : e # f /\ e.token = f.token

TokensLoad(file) ==
    /\ file.single \/ (file.present /\ file.private /\ file.parses)
    /\ file.entries # {}
    /\ \A e \in file.entries : e.sound
    /\ ~Shadowed(file.entries)

(* A bug: the attestation is not asked for.                               *)
VerifierTokensOfAll(tier, file) ==
    LET keyed == NormalizeTokenKeys(file.entries) IN {keyed[t] : t \in DOMAIN keyed}

(* The entries a server of the tier can authenticate a caller to.          *)
VerifierTokens(tier, file) ==
    LET keyed == NormalizeTokenKeys(file.entries)
    IN  {keyed[t] : t \in {t \in DOMAIN keyed : tier = "sovereign" => keyed[t].local}}

(* DigestTokenVerifier: the entry a presented token authenticates to.      *)
Authenticated(tokens, presented) == {e \in tokens : e.token = presented}

----------------------------------------------------------------------------
(* The classification overrides are [parses, labels], labels a function    *)
(* from the classes the file names.                                        *)

Configurable == {"topology", "identity", "metrics"}
Labels == {"sovereign", "shareable"}

ClassificationLoads(overrides) ==
    /\ overrides.parses
    /\ \A c \in DOMAIN overrides.labels : c \in Configurable /\ overrides.labels[c] \in Labels

Label(overrides, class) ==
    IF class \in DOMAIN overrides.labels THEN overrides.labels[class] ELSE "sovereign"

(* TOOL_DATA_CLASSES.                                                      *)
LogTools == {"query_flows", "describe_schema", "top_talkers", "run_sql", "observed_by",
             "ingest_status", "fabric_status", "recent_alerts"}
TopologyTools == {"locate", "neighbors", "find_path", "topology_snapshot", "lab_topology_snapshot"}
IdentityTools == {"get_entity", "reidentify"}
MetricTools == {"metric_timeseries", "top_series", "entity_metric_timeseries"}
PolicyTools == {"configured_policies", "rule_history"}
EvidenceTools == {"rule_usage", "unused_rules", "explain_rule"}

ClassesOf(tool) ==
    CASE tool \in LogTools -> {"security_log"}
      [] tool \in TopologyTools -> {"topology"}
      [] tool \in IdentityTools -> {"identity"}
      [] tool \in MetricTools -> {"metrics"}
      [] tool \in PolicyTools -> {"firewall_config"}
      [] tool \in EvidenceTools -> {"security_log", "firewall_config"}
      [] tool = "enforcement_points" -> {"topology", "firewall_config"}
      [] tool = "explain_access" -> {"security_log", "topology", "identity", "firewall_config"}
      [] OTHER -> {}

IsToolShareable(overrides, tool) ==
    /\ tool # "run_sql"
    /\ ClassesOf(tool) # {}
    /\ \A c \in ClassesOf(tool) : Label(overrides, c) = "shareable"

----------------------------------------------------------------------------
(* raw_tools of build_app: those that need no entity store are candidates  *)
(* on either tier.                                                         *)
EitherTier ==
    {"query_flows", "describe_schema", "top_talkers", "run_sql", "get_entity", "locate",
     "neighbors", "find_path", "enforcement_points", "topology_snapshot", "metric_timeseries",
     "top_series", "entity_metric_timeseries"}
SovereignOnly ==
    {"explain_access", "configured_policies", "observed_by", "reidentify", "recent_alerts",
     "lab_topology_snapshot", "ingest_status", "fabric_status"} \cup EvidenceTools \cup {"rule_history"}
Tools == EitherTier \cup SovereignOnly

(* The map of a server with one token, of the environment or a file of its *)
(* own: "agent" may call every tool, and does not expire before never.     *)
SingleToken(token, local, never) ==
    [form |-> "plain", token |-> token, sound |-> TRUE, principal |-> "agent",
     tools |-> Tools, expires |-> never, local |-> local]

(* A bug: the entity store is there on both tiers.                        *)
RawToolsOfAll(tier) == Tools

RawTools(tier) == IF tier = "public" THEN EitherTier ELSE Tools

(* The tools a server of the tier registers.                               *)
Registered(tier, overrides) ==
    IF tier = "public" THEN {t \in RawTools(tier) : IsToolShareable(overrides, t)}
    ELSE RawTools(tier)
=============================================================================
