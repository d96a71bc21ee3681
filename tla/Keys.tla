-------------------------------- MODULE Keys ---------------------------------
(* Verification keys and the lookup every signature check goes through     *)
(* (keys.rs).                                                              *)
(*                                                                         *)
(* A directory is a function from key ids to keys, the code's `index`.     *)
(* Instants are integers (milliseconds); BadInstant stands for every text  *)
(* that is not RFC 3339 and NoBound for an absent notAfter or revokedAt.   *)
(* Key material is a public key, or one of the ways its text can fail to   *)
(* be one: not base64url, not 32 bytes, not a curve point.                 *)
EXTENDS Integers, Sequences

CONSTANTS KeyId, PublicKey, Instant, BadInstant, NoBound

BadMaterial == {"undecodable", "bad length", "no point"}
Material == PublicKey \cup BadMaterial

Key == [id : KeyId, algorithm : {"ed25519", "other"}, material : Material,
        notBefore : Instant \cup {BadInstant},
        notAfter : Instant \cup {BadInstant, NoBound},
        revokedAt : Instant \cup {BadInstant, NoBound}]

ASSUME KeyAssumption ==
  /\ Instant \subseteq Int
  /\ BadInstant \notin Int /\ NoBound \notin Int
  /\ PublicKey \cap BadMaterial = {}

\* A bound that is absent or does not parse constrains nothing.
Past(t, bound) == bound \in Instant /\ t > bound

OutsideWindow(key, t) ==
  \/ t = BadInstant
  \/ key.notBefore \in Instant /\ t < key.notBefore
  \/ Past(t, key.notAfter)

\* Mutation: the revocation of a key is not looked at.
Lookup_IgnoringRevocation(directory, id, t) ==
  IF id \notin DOMAIN directory THEN "UNKNOWN_KEY_ID"
  ELSE IF OutsideWindow(directory[id], t) THEN "KEY_OUTSIDE_VALIDITY_WINDOW"
  ELSE "hit"

\* KeyDirectory::lookup; a miss is named by the reason code it is reported as.
Lookup(directory, id, t) ==
  IF id \notin DOMAIN directory THEN "UNKNOWN_KEY_ID"
  ELSE IF OutsideWindow(directory[id], t) THEN "KEY_OUTSIDE_VALIDITY_WINDOW"
  ELSE IF Past(t, directory[id].revokedAt) THEN "KEY_REVOKED_BEFORE_ISSUANCE"
  ELSE "hit"
==============================================================================
