----------------------------- MODULE PackSeries ------------------------------
(* A series of packs, each handed to verify_proof_chain with the afterHash  *)
(* of the last record before it for an anchor, as AuditBundle's             *)
(* prior_after_hash asks its caller to do (types.rs, AuditBundle).          *)
EXTENDS ProofChain

CONSTANTS SeriesPacks,   \* the packs a series may be made of
          MaxPacks       \* how many packs a series has at most

ASSUME SeriesAssumption ==
  /\ SeriesPacks \subseteq Packs \ {<< >>}
  /\ MaxPacks \in Nat \ {0}

VARIABLES earlier,    \* the records of the packs before the one in hand
          verdicts    \* the verdicts of those packs

seriesVars == <<vars, earlier, verdicts>>

SeriesInit == Init /\ earlier = << >> /\ verdicts = << >>

Verify == Walk /\ UNCHANGED <<earlier, verdicts>>

\* Mutation: every pack is verified as if it stood alone.
NextAnchor_None == NoHash

\* The anchor of the next pack.
NextAnchor == records[Len(records)].after

(* The report is kept and the next pack taken up, whatever the verdict; a   *)
(* call has no memory of the one before it but the anchor it is given.      *)
NextPack ==
  /\ pc = "done" /\ records \in SeriesPacks /\ Len(verdicts) + 1 < MaxPacks
  /\ earlier' = earlier \o records
  /\ verdicts' = Append(verdicts, status)
  /\ records' \in SeriesPacks
  /\ prior' = NextAnchor
  /\ pc' = "genesis" /\ i' = 1
  /\ prevMs' = BadInstant
  /\ seen' = << >> /\ reuse' = 0
  /\ steps' = {} /\ status' = "pending"

SeriesReturned == Returned /\ UNCHANGED <<earlier, verdicts>>

SeriesNext == Verify \/ NextPack \/ SeriesReturned

SeriesSpec == SeriesInit /\ [][SeriesNext]_seriesVars

------------------------------------------------------------------------------
Series == earlier \o records

AllValid == status = "VALID" /\ \A n \in DOMAIN verdicts : verdicts[n] = "VALID"

(* Packs that are VALID one by one, each anchored at the one before it, are *)
(* one chain from the first record to the last: packs cannot be dropped,    *)
(* swapped or taken from another series between two audits.                *)
SeriesIsOneChain ==
  AllValid =>
    \A k \in 2..Len(Series) : Series[k].before = Series[k - 1].after

\* Two records with the same afterHash, linked to different records.
Relinked(s) ==
  \E j, k \in DOMAIN s : s[j].after = s[k].after /\ s[j].before # s[k].before

FromGenesis == Len(Series) > 0 /\ Series[1].before = NoHash

(* No state of a walk outlives it, its nonces neither.  What then keeps a   *)
(* receipt from being replayed in a later pack is the chain: in a series    *)
(* that starts at the genesis none recurs as it is, unless some record      *)
(* before it was linked a second time, to another record.                  *)
ReplayNeedsRelinking ==
  AllValid /\ FromGenesis /\ ~Relinked(Series) =>
    \A j, k \in DOMAIN Series :
      Series[j].before = Series[k].before /\ Series[j].after = Series[k].after => j = k

\* The walk is flawless evidence's walk: it accepts all that is sound.
Promise == INSTANCE VerdictPromise WITH
  flawless <- Sound, sound <- Sound, called <- TRUE, verdict <- status

(* Every call of a series keeps the verifier's promise.                    *)
KeepsPromise == Promise!Spec
==============================================================================
