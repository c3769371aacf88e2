--------------------------- MODULE ServerAssembly ---------------------------
(***************************************************************************)
(* The life of one MCP server (server.py), of either tier: the files it    *)
(* reads when it starts, the callers it authenticates while it runs, an    *)
(* operator who edits the files meanwhile, and the rotation of a token by  *)
(* the steps infra/tokens.README.md and mint_token.py give.  systemd       *)
(* starts it again when it has ended, so it may read the files at any      *)
(* point of a rotation.                                                    *)
(*                                                                         *)
(* Limits and the audit row of a call are in module ToolCall.  After a     *)
(* rotation the files are left alone: a behaviour has one rotation.        *)
(***************************************************************************)
EXTENDS ServerConfig

CONSTANTS
    Clients,
    Tokens,         \* the secrets that may ever be minted
    Files,          \* token maps an operator may install
    Overrides,      \* classification files an operator may install
    Lifetime,       \* mint_token --days
    Asked,          \* the tools clients call
    MaxNow        \* bound: time

Tiers == {"sovereign", "public"}

Entries == [form : Forms, token : Tokens, sound : BOOLEAN, principal : STRING,
            tools : SUBSET Tools, expires : Nat, local : BOOLEAN]
TokenMaps == [single : BOOLEAN, present : BOOLEAN, private : BOOLEAN, parses : BOOLEAN,
              entries : SUBSET Entries]

ASSUME ServerAssumption ==
    /\ Files \subseteq TokenMaps
    /\ \A f \in Files : f.single =>
          \E t \in Tokens, l \in BOOLEAN : f.entries \subseteq {SingleToken(t, l, MaxNow + 1)}
    /\ Lifetime \in Nat /\ MaxNow \in Nat

VARIABLES
    tier,           \* MCP_TIER
    file,           \* the token map as it is on disk
    overrides,      \* the classification file as it is on disk
    now,
    server,         \* the process: [up, tokens, tools]
    read,           \* history: the files the process read when it started
    holds,          \* client |-> the token it presents
    used,           \* history: tokens that were in the file or were minted
    rotation,       \* the rotation under way: [stage, old, new]
    call            \* the last call: [outcome, entry, tool, at]

files == <<file, overrides>>
serverVars == <<tier, files, now, server, read, holds, used, rotation, call>>

Down == [up |-> FALSE, tokens |-> {}, tools |-> {}]
NoRotation == [stage |-> "none", old |-> {}, new |-> {}]
NoCall == [outcome |-> "none", entry |-> {}, tool |-> "", at |-> 0]

ServerInit ==
    /\ tier \in Tiers
    /\ file \in Files /\ overrides \in Overrides
    /\ now = 0
    /\ server = Down
    /\ read = [file |-> file, overrides |-> overrides]
    /\ holds \in [Clients -> Tokens]
    /\ used = Tokens \cap (TokensOf(file.entries) \cup {holds[c] : c \in Clients})
    /\ rotation = NoRotation
    /\ call = NoCall

Elapse ==
    /\ now < MaxNow /\ now' = now + 1
    /\ UNCHANGED <<tier, files, server, read, holds, used, rotation, call>>

----------------------------------------------------------------------------
(* The process.  With a file it refuses it does not come up.               *)

Start ==
    /\ ~server.up
    /\ TokensLoad(file) /\ ClassificationLoads(overrides)
    /\ server' = [up |-> TRUE, tokens |-> VerifierTokens(tier, file),
                  tools |-> Registered(tier, overrides)]
    /\ read' = [file |-> file, overrides |-> overrides]
    /\ call' = NoCall
    /\ UNCHANGED <<tier, files, now, holds, used, rotation>>

(* It is stopped, or it crashes.                                           *)
Stop ==
    /\ server.up
    /\ server' = Down /\ call' = NoCall
    /\ UNCHANGED <<tier, files, now, read, holds, used, rotation>>

(* A tool call: authenticated against the tokens the process holds, sent   *)
(* to one of its tools, and checked for expiry and the allow-list of its   *)
(* entry.  Between them nothing is read that another step writes.          *)
Call(c, tool) ==
    /\ server.up
    /\ LET entry == Authenticated(server.tokens, holds[c])
           Permitted(e) == now < e.expires /\ tool \in e.tools
       IN  call' = [outcome |-> CASE entry = {} -> "unauthenticated"
                                  [] entry # {} /\ tool \notin server.tools -> "unknown tool"
                                  [] tool \in server.tools /\ (\E e \in entry : Permitted(e)) -> "served"
                                  [] OTHER -> "denied",
                    entry |-> entry, tool |-> tool, at |-> now]
    /\ UNCHANGED <<tier, files, now, server, read, holds, used, rotation>>

----------------------------------------------------------------------------
(* The operator.                                                           *)

(* Outside a rotation, any file may be put in place.                       *)
Edit ==
    /\ rotation.stage = "none"
    /\ \/ file' \in Files /\ UNCHANGED overrides
       \/ overrides' \in Overrides /\ UNCHANGED file
    /\ used' = used \cup TokensOf(file'.entries)
    /\ UNCHANGED <<tier, now, server, read, holds, rotation, call>>

(* A token in use is minted anew with the grants of the old, and its entry *)
(* put beside the old one: a file the server reads, or the procedure would *)
(* not have begun.                                                         *)
AddEntry ==
    /\ rotation.stage = "none" /\ server.up /\ ~file.single
    /\ TokensLoad(file) /\ ClassificationLoads(overrides)
    /\ \E e \in file.entries \cap server.tokens, t \in Tokens \ used :
          LET fresh == [e EXCEPT !.form = "sha256", !.token = t, !.expires = now + Lifetime]
          IN  /\ file' = [file EXCEPT !.entries = @ \cup {fresh}]
              /\ rotation' = [stage |-> "added", old |-> {e}, new |-> {fresh}]
              /\ used' = used \cup {t}
    /\ UNCHANGED <<tier, overrides, now, server, read, holds, call>>

(* "restart": the server is up and has read the file with the new entry.   *)
Restarted ==
    /\ rotation.stage = "added" /\ server.up /\ read.file = file
    /\ rotation' = [rotation EXCEPT !.stage = "moving"]
    /\ UNCHANGED <<tier, files, now, server, read, holds, used, call>>

Move(c) ==
    /\ rotation.stage = "moving" /\ holds[c] \in TokensOf(rotation.old)
    /\ \E e \in rotation.new : holds' = [holds EXCEPT ![c] = e.token]
    /\ UNCHANGED <<tier, files, now, server, read, used, rotation, call>>

DeleteEntry ==
    /\ rotation.stage = "moving"
    /\ \A c \in Clients : holds[c] \notin TokensOf(rotation.old)
    /\ file' = [file EXCEPT !.entries = @ \ rotation.old]
    /\ rotation' = [rotation EXCEPT !.stage = "deleted"]
    /\ UNCHANGED <<tier, overrides, now, server, read, holds, used, call>>

RestartedAgain ==
    /\ rotation.stage = "deleted" /\ server.up /\ read.file = file
    /\ rotation' = [rotation EXCEPT !.stage = "done"]
    /\ UNCHANGED <<tier, files, now, server, read, holds, used, call>>

ServerNext ==
    \/ Elapse \/ Start \/ Stop \/ Edit
    \/ AddEntry \/ Restarted \/ DeleteEntry \/ RestartedAgain
    \/ \E c \in Clients : Move(c) \/ \E tool \in Asked : Call(c, tool)

ServerSpec == ServerInit /\ [][ServerNext]_serverVars

----------------------------------------------------------------------------
Stages == {"none", "added", "moving", "deleted", "done"}

TypeOK ==
    /\ tier \in Tiers
    /\ file \in TokenMaps /\ read.file \in TokenMaps
    /\ now \in Nat
    /\ server \in [up : BOOLEAN, tokens : SUBSET read.file.entries, tools : SUBSET Tools]
    /\ holds \in [Clients -> Tokens]
    /\ used \subseteq Tokens /\ TokensOf(file.entries) \subseteq used
    /\ rotation \in [stage : Stages, old : SUBSET Entries, new : SUBSET Entries]

(* A call that was served was made with the token of an entry that stood   *)
(* in the file when the process started, and is sound, unshadowed, not     *)
(* expired and attested where the tier asks for it; its tool is one the    *)
(* entry grants and the server has.  A token deleted before the start, or  *)
(* whose file would not load, serves nothing.                              *)
ServedAreGranted ==
    call.outcome = "served" =>
        \E e \in call.entry :
            /\ e \in read.file.entries /\ e.sound
            /\ \A f \in read.file.entries : f.token = e.token => f = e
            /\ tier = "sovereign" => e.local
            /\ call.at < e.expires /\ call.tool \in e.tools
            /\ call.tool \in server.tools
            /\ read.file.private \/ read.file.single

(* infra/tokens.README.md, Rotate: at no point of a rotation is a client   *)
(* of the rotated token one that a running server does not know, whenever  *)
(* and however often it is started, nor is the file one with which it      *)
(* would not start again; and when the rotation is done the old token is   *)
(* known no more.                                                          *)
RotationKeepsClients ==
    LET Known(t) == \E e \in server.tokens : e.token = t
        rotated == TokensOf(rotation.old) \cup TokensOf(rotation.new)
    IN  /\ rotation.stage # "none" =>
              /\ TokensLoad(file) /\ ClassificationLoads(overrides)
              /\ server.up => \A c \in Clients : holds[c] \in rotated => Known(holds[c])
        /\ rotation.stage = "done" /\ server.up =>
              \A t \in TokensOf(rotation.old) : ~Known(t)

(* server.py: a tool on the public tier returns nothing but classes the    *)
(* classification it started with calls shareable, and none of the classes *)
(* that cannot be shared; SQL, re-identification and every other tool that *)
(* reads sovereign tables are not among them.                              *)
PublicIsShareable ==
    server.up /\ tier = "public" =>
        \A tool \in server.tools :
            /\ tool \notin SovereignOnly \cup {"run_sql"}
            /\ ClassesOf(tool) # {} /\ ClassesOf(tool) \subseteq Configurable
            /\ \A c \in ClassesOf(tool) : Label(read.overrides, c) = "shareable"
=============================================================================
