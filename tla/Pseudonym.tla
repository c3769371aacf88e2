----------------------------- MODULE Pseudonym -----------------------------
(***************************************************************************)
(* pseudonym.py: the surrogate that stands for an address in the public    *)
(* tables is a prefix of a keyed digest of it, ten hexadecimal digits long *)
(* unless another address already has that prefix.  Digest gives the       *)
(* digests under each key, as sequences of the two-digit steps by which    *)
(* mint_surrogate lengthens a prefix; BaseLength is counted in such steps. *)
(***************************************************************************)
EXTENDS Naturals, Sequences, FiniteSets, FiniteSetsExt, Functions

CONSTANTS
    IPs,            \* source addresses
    Versions,       \* key versions
    Digest,         \* Digest[v][ip]: the digest of ip under key v
    BaseLength      \* _BASE_LENGTH

(* Two whole digests (SHA-256) are of one length and differ, under one key *)
(* or two; prefixes need not, which is what the lengthening is for.        *)
ASSUME DigestAssumption ==
    /\ BaseLength \in Nat \ {0} /\ Versions \subseteq Nat /\ Versions # {}
    /\ \A v \in Versions, ip \in IPs :
         Digest[v][ip] \in Seq(Nat) /\ BaseLength <= Len(Digest[v][ip])
    /\ \A v, w \in Versions, ip, other \in IPs :
         /\ Len(Digest[v][ip]) = Len(Digest[w][other])
         /\ Digest[v][ip] = Digest[w][other] => v = w /\ ip = other

Surrogate(v, ip, length) == SubSeq(Digest[v][ip], 1, length)

(* A bug: the map is not asked who holds the prefix.                      *)
MintAtBase(existing, v, ip) ==
    IF ip \in DOMAIN existing THEN existing[ip] ELSE Surrogate(v, ip, BaseLength)

(* A bug: an address that is in the map is minted again, past its own     *)
(* prefix.                                                                 *)
MintAgain(existing, v, ip) ==
    LET Free(length) == Surrogate(v, ip, length) \notin Range(existing)
    IN  Surrogate(v, ip, Min({length \in BaseLength..Len(Digest[v][ip]) : Free(length)}
                             \cup {Len(Digest[v][ip])}))

(* mint_surrogate: what the map holds for the address, and else its        *)
(* shortest prefix that no other address in the map holds.                 *)
MintSurrogate(existing, v, ip) ==
    LET Free(length) == Surrogate(v, ip, length) \notin Range(existing)
    IN  IF ip \in DOMAIN existing
          THEN existing[ip]
          ELSE Surrogate(v, ip, Min({length \in BaseLength..Len(Digest[v][ip]) : Free(length)}))
=============================================================================
