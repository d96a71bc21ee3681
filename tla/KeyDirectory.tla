---------------------------- MODULE KeyDirectory -----------------------------
(* Building a key directory from the keys an auditor has pinned, or from a  *)
(* /v1/runtime-keys envelope, and asking it for the key of a record        *)
(* (keys.rs; Auditor::new and Auditor::from_runtime_keys_json).            *)
EXTENDS Keys

CONSTANTS KeyLists,   \* the key lists handed to a constructor
          NoAnswer

ASSUME KeyListAssumption == KeyLists \subseteq Seq(Key)

Entries == {"Auditor::new", "from_local", "from_runtime_keys_json"}

VARIABLES entry, reply, supplied,      \* the call and its argument
          stage, position, index,        \* from_snapshot's loop
          answer                       \* the last lookup

directoryVars == <<entry, reply, supplied, stage, position, index, answer>>

\* A list of keys comes bare; the JSON text may not be an envelope at all, or
\* be one the platform marked ok = false.
DirectoryInit ==
  /\ entry \in Entries
  /\ reply \in IF entry = "from_runtime_keys_json"
                  THEN {"accepted", "ok=false", "malformed"} ELSE {"accepted"}
  /\ supplied \in KeyLists
  /\ stage = "parse" /\ position = 1 /\ index = << >>
  /\ answer = NoAnswer

\* How a constructor gives up: Auditor::new unwraps the Result with expect.
Refuse == stage' = IF entry = "Auditor::new" THEN "panicked" ELSE "KEYS_MALFORMED"

(* The JSON envelope is parsed and its ok flag checked before any key.     *)
RefuseEnvelope ==
  /\ stage = "parse" /\ reply # "accepted"
  /\ Refuse
  /\ UNCHANGED <<entry, reply, supplied, position, index, answer>>

OpenEnvelope ==
  /\ stage = "parse" /\ reply = "accepted"
  /\ stage' = "insert"
  /\ UNCHANGED <<entry, reply, supplied, position, index, answer>>

\* Mutation: a key listed twice with equal material is not a duplicate.
Duplicate_OfOtherMaterial(key) ==
  key.id \in DOMAIN index /\ index[key.id].material # key.material

\* Mutation: every key after the first is refused.
Duplicate_AnyLater(key) == DOMAIN index # {}

Duplicate(key) == key.id \in DOMAIN index
Supported(key) == key.algorithm = "ed25519"

RefuseKey ==
  /\ stage = "insert" /\ position <= Len(supplied)
  /\ Duplicate(supplied[position]) \/ ~Supported(supplied[position])
  /\ Refuse
  /\ UNCHANGED <<entry, reply, supplied, position, index, answer>>

InsertKey ==
  /\ stage = "insert" /\ position <= Len(supplied)
  /\ ~Duplicate(supplied[position]) /\ Supported(supplied[position])
  /\ index' = [id \in DOMAIN index \cup {supplied[position].id} |->
                 IF id = supplied[position].id THEN supplied[position] ELSE index[id]]
  /\ position' = position + 1
  /\ UNCHANGED <<entry, reply, supplied, stage, answer>>

Build ==
  /\ stage = "insert" /\ position > Len(supplied)
  /\ stage' = "ready"
  /\ UNCHANGED <<entry, reply, supplied, position, index, answer>>

(* A verifier asks for the key of a record issued at t.                    *)
Ask(id, t) ==
  /\ stage = "ready"
  /\ answer' = [id |-> id, at |-> t, found |-> Lookup(index, id, t)]
  /\ UNCHANGED <<entry, reply, supplied, stage, position, index>>

\* A refused construction leaves nothing to ask.
Refused == stage \in {"KEYS_MALFORMED", "panicked"} /\ UNCHANGED directoryVars

DirectoryNext ==
  \/ RefuseEnvelope \/ OpenEnvelope \/ RefuseKey \/ InsertKey \/ Build \/ Refused
  \/ \E id \in KeyId, t \in Instant \cup {BadInstant} : Ask(id, t)

DirectorySpec == DirectoryInit /\ [][DirectoryNext]_directoryVars

------------------------------------------------------------------------------
Pinned == {supplied[k] : k \in 1..Len(supplied)}

(* Every variable stays in its domain.                                     *)
DirectoryTypeOK ==
  /\ entry \in Entries /\ supplied \in Seq(Key)
  /\ stage \in {"parse", "insert", "ready", "KEYS_MALFORMED", "panicked"}
  /\ position \in 1..(Len(supplied) + 1)
  /\ DOMAIN index \subseteq KeyId
  /\ \A id \in DOMAIN index : index[id] \in Key /\ index[id].id = id
  /\ answer = NoAnswer \/ answer.found \in
       {"hit", "UNKNOWN_KEY_ID", "KEY_OUTSIDE_VALIDITY_WINDOW", "KEY_REVOKED_BEFORE_ISSUANCE"}

(* A directory that was built holds exactly the pinned keys, one per id:    *)
(* no id is ambiguous, no key shadows another, none is lost.               *)
DirectoryFaithful ==
  stage = "ready" =>
    /\ \A j, k \in 1..Len(supplied) : supplied[j].id = supplied[k].id => j = k
    /\ DOMAIN index = {key.id : key \in Pinned}
    /\ \A key \in Pinned : index[key.id] = key /\ Supported(key)

(* A constructor gives up only over what it was handed: an envelope that is *)
(* not one, a repeated id, or an algorithm the crate does not verify.       *)
RefusalJustified ==
  stage \in {"KEYS_MALFORMED", "panicked"} =>
    \/ reply # "accepted"
    \/ \E j, k \in 1..Len(supplied) : j # k /\ supplied[j].id = supplied[k].id
    \/ \E key \in Pinned : ~Supported(key)

(* README.md, Error model: operational errors, "the SDK can't run", are     *)
(* "Returned as `AuditorError`".                                           *)
RefusalReturned == stage # "panicked"

\* Of its window, every bound that parses admits the instant, its own included.
InWindow(key, t) ==
  /\ t \in Instant
  /\ key.notBefore \in Instant => key.notBefore <= t
  /\ key.notAfter \in Instant => t <= key.notAfter

Revoked(key, t) == key.revokedAt \in Instant /\ key.revokedAt < t

(* A key is handed out if and only if it was pinned under that id and is in *)
(* force; it is called revoked, and not expired, if and only if its window  *)
(* admits the instant and its revocation does not.                         *)
HitIsPinnedAndInForce ==
  answer # NoAnswer =>
    LET Some(Is(_)) == \E key \in Pinned :
          key.id = answer.id /\ InWindow(key, answer.at) /\ Is(key) IN
    /\ answer.found = "hit" <=> Some(LAMBDA key : ~Revoked(key, answer.at))
    /\ answer.found = "KEY_REVOKED_BEFORE_ISSUANCE"
         <=> Some(LAMBDA key : Revoked(key, answer.at))

------------------------------------------------------------------------------
(* The inductive strengthening of the three: the index is the part of the   *)
(* list behind the loop, and it does not change once it answers.           *)

Inserted == 1..(position - 1)

IndexSoFar ==
  /\ \A j, k \in Inserted : supplied[j].id = supplied[k].id => j = k
  /\ DOMAIN index = {supplied[k].id : k \in Inserted}
  /\ \A k \in Inserted : index[supplied[k].id] = supplied[k] /\ Supported(supplied[k])

Settled ==
  /\ stage = "parse" => position = 1
  /\ stage = "ready" => position = Len(supplied) + 1
  /\ answer # NoAnswer =>
       /\ stage = "ready" /\ answer.at \in Instant \cup {BadInstant}
       /\ answer.found = Lookup(index, answer.id, answer.at)

DirectoryInv == DirectoryTypeOK /\ IndexSoFar /\ Settled /\ RefusalJustified
==============================================================================
