-------------------------- MODULE MCServerAssembly --------------------------
(* Instances of ServerAssembly for TLC.  The token maps are the ones an    *)
(* operator may have: a migrated one, one with a plaintext key, an entry   *)
(* without the attestation and an entry without a principal, one in which  *)
(* a key of each form is the same token, one that others may read, one     *)
(* that is not JSON, one that is not there, and a single token in place of *)
(* a map, attested or not.                                                 *)
EXTENDS ServerAssembly

Entry(form, token, principal, sound, tools, expires, local) ==
    [form |-> form, token |-> token, sound |-> sound, principal |-> principal,
     tools |-> tools, expires |-> expires, local |-> local]

Migrated == Entry("sha256", "t1", "triage", TRUE, Tools, 2, TRUE)
Legacy == Entry("plain", "t2", "eval", TRUE, {"locate", "reidentify"}, 3, TRUE)
Unattested == Entry("sha256", "t2", "hosted", TRUE, Tools, 3, FALSE)
Unnamed == Entry("sha256", "t2", "", FALSE, Tools, 3, TRUE)
Twin == Entry("plain", "t1", "eval", TRUE, {"locate"}, 3, TRUE)

TokenMap(present, private, parses, entries) ==
    [single |-> FALSE, present |-> present, private |-> private, parses |-> parses,
     entries |-> entries]
Private(entries) == TokenMap(TRUE, TRUE, TRUE, entries)
Single(local) ==
    [single |-> TRUE, present |-> FALSE, private |-> FALSE, parses |-> FALSE,
     entries |-> {SingleToken("t2", local, MaxNow + 1)}]

SomeFiles ==
    {Private({Migrated, Legacy}), Private({Migrated, Unattested}), Private({Migrated, Unnamed}),
     Private({Migrated, Twin}), Private({}),
     TokenMap(TRUE, FALSE, TRUE, {Migrated}), TokenMap(TRUE, TRUE, FALSE, {Legacy}),
     TokenMap(FALSE, TRUE, TRUE, {}), Single(TRUE), Single(FALSE)}

Shared(classes, label) == [parses |-> TRUE, labels |-> [c \in classes |-> label]]
SomeOverrides ==
    {Shared({}, "shareable"), Shared(Configurable, "shareable"), Shared({"metrics"}, "shareable"),
     Shared({"topology", "security_log"}, "shareable"), Shared({"topology"}, "public"),
     [parses |-> FALSE, labels |-> [c \in {} |-> ""]]}

SomeTools == {"locate", "enforcement_points"}
=============================================================================
