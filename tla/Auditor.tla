------------------------------- MODULE Auditor --------------------------------
(* Auditor::verify_all: the four audits of a bundle, one after the other,   *)
(* each the component's own walk, and the verdict over their reports        *)
(* (auditor.rs).                                                           *)
(*                                                                         *)
(* The platform makes a bundle (external); until verify_all is called at    *)
(* most MaxAlterations changes are made to it.  The audits run in one       *)
(* thread: they share the frame pc, i, steps and status, which every call   *)
(* begins anew, and none writes the evidence.                              *)
EXTENDS Audit, Keys

CONSTANTS ReceiptId, Org, Account, Nonce,
          Body,          \* what a payload holds besides its issuedAt:
                         \* [id, dwell, nonce]
          WideBodies, Signer, Directories, Foreign,   \* see ReceiptAudit
          Scale, Finer, BadDecimal,                   \* see CentMath
          NoHash, NoTotals, NoSummary,
          Plans,         \* what the platform makes bundles of
          Carriages,     \* where the two summaries travel: in the "bundle",
                         \* in the "pack", in "both" or in neither
          MaxAlterations

VARIABLES directory,     \* the auditor's keys
          sealed,        \* the pack and the summaries as the platform made them
          bundle,        \* the AuditBundle
          altered,
          phase,         \* which of the audits is running
          pc, i, steps, status,       \* its frame
          prevMs, seen, reuse,        \* locals of the chain walk
          computed, pending,          \* locals of the summaries' audits
          reports        \* the status of every report so far

evidence == <<directory, sealed, bundle, altered>>
frame == <<pc, i, steps, status>>
chainLocals == <<prevMs, seen, reuse>>
summaryLocals == <<computed, pending>>
vars == <<evidence, phase, frame, chainLocals, summaryLocals, reports>>

------------------------------------------------------------------------------
(* What each audit is handed.                                              *)

\* A receipt without its beforeHash, which no signature covers.
Receipt(r) == [f \in {"payload", "keyId", "canonical", "afterHash", "signature"} |-> r[f]]
Link(r) == [before |-> r.before, after |-> r.afterHash, issued |-> r.payload.issued,
            nonce |-> r.payload.body.nonce]
Proof(r) == [id |-> r.payload.body.id, dwell |-> r.payload.body.dwell]

Each(Op(_), records) == [k \in DOMAIN records |-> Op(records[k])]

\* Mutation: a summary that travels in the pack is not looked for.
Preferred_OwnOnly(own, packs) == own

\* The bundle's own summary, or else the pack's.
Preferred(own, packs) == IF own # NoSummary THEN own ELSE packs

metering == Preferred(bundle.metering, bundle.pack.metering)
settlement == Preferred(bundle.settlement, bundle.pack.settlement)

R == INSTANCE ReceiptAudit WITH
  SealedPacks <- {[k \in DOMAIN plan.receipts |->
                     <<plan.receipts[k].payload, plan.receipts[k].keyId>>] : plan \in Plans},
  envelope <- bundle.pack.envelope,
  sealed <- Each(Receipt, sealed.records), records <- Each(Receipt, bundle.pack.records)

C == INSTANCE ProofChain WITH
  Hash <- R!Hashes, Packs <- {},
  records <- Each(Link, bundle.pack.records), prior <- bundle.prior

M == INSTANCE MeteringAudit WITH
  Packs <- {}, Plans <- {plan.bills : plan \in Plans},
  NoOrg <- NoSummary,   \* verify_all gives the pack's org
  proofs <- Each(Proof, bundle.pack.records), packOrg <- bundle.pack.org,
  sealed <- sealed.metering

\* Meters are known by the idem keys their records show.
S == INSTANCE SettlementAudit WITH
  Meter <- [receipt : ReceiptId, unit : M!UnitType],
  Agreements <- {plan.agreement : plan \in Plans},
  metering <- [org |-> metering.org,
               meters |-> {metering.records[k].idem : k \in DOMAIN metering.records}],
  sealed <- sealed.settlement

------------------------------------------------------------------------------
(* The platform: receipts chained and sealed, metered and settled.         *)

\* Receipts are issued one after the other, each under an id and a nonce of
\* its own.
InTurn(receipts) ==
  \A j, k \in DOMAIN receipts :
    LET p == receipts[j].payload  q == receipts[k].payload IN
    /\ p.body.id = q.body.id \/ p.body.nonce = q.body.nonce => j = k
    /\ j < k /\ {p.issued, q.issued} \subseteq Instant => p.issued <= q.issued

\* Bills are for receipts of the pack, and what is settled was metered.
Accountable(plan) ==
  /\ \A b \in DOMAIN plan.bills :
       \E k \in DOMAIN plan.receipts : plan.receipts[k].payload.body.id = plan.bills[b].receipt
  /\ \A m \in DOMAIN plan.agreement.gross :
       \E b \in DOMAIN plan.bills : m = M!IdemKey(plan.bills[b])

ASSUME AuditorAssumption ==
  /\ R!ReceiptAssumption /\ C!ChainAssumption
  /\ M!ScaleAssumption /\ M!MeteringAssumption /\ S!AgreementAssumption
  /\ NoSummary \notin Org
  /\ Body \subseteq [id : ReceiptId, dwell : Int, nonce : Nonce]
  /\ \A plan \in Plans :
       /\ DOMAIN plan.receipts # {} /\ InTurn(plan.receipts) /\ Accountable(plan)
       /\ plan.prior \in R!Hashes \cup {NoHash} /\ plan.org \in Org
       /\ plan.schema \in {"settlement.v1", "settlement.v2"}

Chained(receipts, prior) ==
  [k \in DOMAIN receipts |->
     LET r == R!Seal(receipts[k].payload, receipts[k].keyId) IN
     [f \in DOMAIN r \cup {"before"} |->
        IF f # "before" THEN r[f]
        ELSE IF k = 1 THEN prior ELSE R!Sha256(R!Canon(receipts[k - 1].payload))]]

MeteringOf(plan, records) ==
  LET billed == [k \in DOMAIN plan.bills |-> M!Metered(Each(Proof, records), plan.bills[k])] IN
  [org |-> plan.org, records |-> billed, totals |-> M!Claims(billed)]

Made(plan) ==
  LET records == Chained(plan.receipts, plan.prior) IN
  [records |-> records, prior |-> plan.prior, org |-> plan.org,
   metering |-> MeteringOf(plan, records),
   settlement |-> S!Settle(plan.org, plan.schema, plan.agreement, plan.agreement.parts)]

Carried(summary, place, by) == IF place \in {by, "both"} THEN summary ELSE NoSummary

Init ==
  /\ directory \in Directories
  /\ \E plan \in Plans : sealed = Made(plan)
  /\ \E c \in Carriages :
       bundle = [pack |-> [envelope |-> "envelope.v1", org |-> sealed.org,
                           records |-> sealed.records,
                           metering |-> Carried(sealed.metering, c[1], "pack"),
                           settlement |-> Carried(sealed.settlement, c[2], "pack")],
                 metering |-> Carried(sealed.metering, c[1], "bundle"),
                 settlement |-> Carried(sealed.settlement, c[2], "bundle"),
                 prior |-> sealed.prior]
  /\ altered = 0
  /\ phase = "transit"
  /\ pc = "transit" /\ i = 1 /\ steps = {} /\ status = "pending"
  /\ prevMs = BadInstant /\ seen = << >> /\ reuse = 0
  /\ computed = << >> /\ pending = {}
  /\ reports = << >>

------------------------------------------------------------------------------
(* Transit: one change to one part of the bundle.                          *)

\* The packs one change away: a field of a receipt, a link, the last receipt
\* lost, or another envelope.
PackVariants(p) ==
  (UNION {{[p EXCEPT !.records[k][f] = v] : v \in R!Replacements(k, f)} :
          k \in DOMAIN p.records, f \in R!Fields})
    \cup {[p EXCEPT !.records[k].before = h] :
            k \in DOMAIN p.records, h \in {NoHash} \cup {p.records[j].afterHash : j \in DOMAIN p.records}}
    \cup {[p EXCEPT !.records = SubSeq(@, 1, Len(@) - 1)], [p EXCEPT !.envelope = "other"]}
    \cup {[p EXCEPT !.org = org] : org \in Org}

MeteringVariants(m) == IF m = NoSummary THEN {} ELSE {NoSummary} \cup M!Variants(m)
SettlementVariants(s) == IF s = NoSummary THEN {} ELSE {NoSummary} \cup S!Variants(s)

BundleVariants(b) ==
  {[b EXCEPT !.pack = p] : p \in PackVariants(b.pack)}
    \cup {[b EXCEPT !.metering = m] : m \in MeteringVariants(b.metering)}
    \cup {[b EXCEPT !.pack.metering = m] : m \in MeteringVariants(b.pack.metering)}
    \cup {[b EXCEPT !.settlement = s] : s \in SettlementVariants(b.settlement)}
    \cup {[b EXCEPT !.pack.settlement = s] : s \in SettlementVariants(b.pack.settlement)}
    \cup {[b EXCEPT !.prior = h] : h \in {NoHash, sealed.records[1].afterHash}}

Alter ==
  /\ phase = "transit" /\ altered < MaxAlterations
  /\ bundle' \in BundleVariants(bundle) \ {bundle}
  /\ altered' = altered + 1
  /\ UNCHANGED <<directory, sealed, phase, frame, chainLocals, summaryLocals, reports>>

------------------------------------------------------------------------------
\* Mutation: the steps of one report run on into the next.
Begin_KeepingSteps(call) ==
  /\ phase' = call
  /\ pc' = IF call = "chain" THEN "genesis" ELSE "transit"
  /\ i' = 1 /\ steps' = steps /\ status' = "pending"

\* A call begins at the first control point of its function, with nothing
\* judged.
Begin(call) ==
  /\ phase' = call
  /\ pc' = IF call = "chain" THEN "genesis" ELSE "transit"
  /\ i' = 1 /\ steps' = {} /\ status' = "pending"

Report(name, verdict) ==
  reports' = [n \in DOMAIN reports \cup {name} |-> IF n = name THEN verdict ELSE reports[n]]

(* verify_all is called: the bundle is what it is from now on.             *)
Submit ==
  /\ phase = "transit"
  /\ Begin("pack")
  /\ UNCHANGED <<evidence, chainLocals, summaryLocals, reports>>

VerifyPack ==
  /\ phase = "pack" /\ pc \notin {"done", "panicked"}
  /\ UNCHANGED <<evidence, phase, chainLocals, summaryLocals, reports>>
  /\ R!Walk

PackReturns ==
  /\ phase = "pack" /\ pc = "done"
  /\ Report("pack", status) /\ Begin("chain")
  /\ UNCHANGED <<evidence, chainLocals, summaryLocals>>

VerifyChain ==
  /\ phase = "chain" /\ pc # "done"
  /\ UNCHANGED <<evidence, phase, summaryLocals, reports>>
  /\ C!Walk

ChainReturns ==
  /\ phase = "chain" /\ pc = "done"
  /\ Report("chain", status) /\ Begin("metering")
  /\ UNCHANGED <<evidence, chainLocals, summaryLocals>>

VerifyMetering ==
  /\ phase = "metering" /\ metering # NoSummary /\ pc # "done"
  /\ UNCHANGED <<evidence, phase, chainLocals, reports>>
  /\ M!Walk

BeginSettlement ==
  /\ Begin("settlement")
  /\ computed' = [gross |-> 0, net |-> 0, fee |-> 0] /\ pending' = {}
  /\ UNCHANGED <<evidence, chainLocals>>

MeteringReturns ==
  /\ phase = "metering" /\ metering # NoSummary /\ pc = "done"
  /\ Report("metering", status) /\ BeginSettlement

MeteringSkipped ==
  /\ phase = "metering" /\ metering = NoSummary
  /\ Report("metering", "SKIPPED") /\ BeginSettlement

\* Both summaries are there to be reconciled.
Reconcilable == metering # NoSummary /\ settlement # NoSummary

VerifySettlement ==
  /\ phase = "settlement" /\ Reconcilable /\ pc # "done"
  /\ UNCHANGED <<evidence, phase, chainLocals, reports>>
  /\ S!Walk

SettlementReturns ==
  /\ phase = "settlement" /\ Reconcilable /\ pc = "done"
  /\ Report("settlement", status) /\ Begin("rollup")
  /\ UNCHANGED <<evidence, chainLocals, summaryLocals>>

SettlementSkipped ==
  /\ phase = "settlement" /\ ~Reconcilable
  /\ Report("settlement", "SKIPPED") /\ Begin("rollup")
  /\ UNCHANGED <<evidence, chainLocals, summaryLocals>>

\* Mutation: the last report decides.
Overall_Last(statuses) == statuses["settlement"]

\* Mutation: the settlement's report is left out of the verdict.
Overall_ThreeReports(statuses) == Rollup({statuses[n] : n \in {"pack", "chain", "metering"}})

\* rollup_overall; what it says of a mix of VALID and SKIPPED is VALID.
Overall(statuses) == Rollup({statuses[n] : n \in DOMAIN statuses})

RollUpOverall ==
  /\ phase = "rollup"
  /\ Report("overall", Overall(reports)) /\ Begin("done")
  /\ UNCHANGED <<evidence, chainLocals, summaryLocals>>

\* The steps of a call of verify_all.
VerifyAll ==
  \/ VerifyPack \/ PackReturns \/ VerifyChain \/ ChainReturns
  \/ VerifyMetering \/ MeteringReturns \/ MeteringSkipped
  \/ VerifySettlement \/ SettlementReturns \/ SettlementSkipped \/ RollUpOverall

Panicked == phase = "pack" /\ pc = "panicked"

Returned == phase = "done" \/ Panicked

Next == Alter \/ Submit \/ VerifyAll \/ (Returned /\ UNCHANGED vars)

\* A running call is given the processor until it returns; nobody has to call.
Spec == Init /\ [][Next]_vars /\ WF_vars(VerifyAll)

------------------------------------------------------------------------------
Finished == phase = "done"

\* The evidence is what a report VALID has to mean.
PackSound ==
  /\ bundle.pack.envelope = "envelope.v1"
  /\ \A k \in DOMAIN bundle.pack.records : R!Genuine(Receipt(bundle.pack.records[k]))

BundleSound ==
  /\ PackSound /\ C!Sound
  /\ metering # NoSummary => M!BorneOut
  /\ Reconcilable => S!Accounted

\* What the platform made, under keys the auditor can verify it with, and no
\* refund of which the audit and the platform round a slice differently.
BundleFlawless ==
  /\ altered = 0 /\ S!RoundedAlike(sealed.settlement)
  /\ \A k \in DOMAIN sealed.records : R!Verifiable(Receipt(sealed.records[k]))

(* Every variable stays in its domain; a report is there once its audit has *)
(* returned, and the frame belongs to the audit that is running.           *)
TypeOK ==
  /\ directory \in Directories
  /\ altered \in 0..MaxAlterations
  /\ phase \in {"transit", "pack", "chain", "metering", "settlement", "rollup", "done"}
  /\ CASE phase = "pack" -> R!TypeOK
       [] phase = "chain" -> C!TypeOK
       [] phase = "metering" /\ metering # NoSummary -> M!TypeOK
       [] phase = "settlement" /\ Reconcilable -> S!TypeOK
       [] OTHER -> steps = {} /\ status = "pending"
  /\ DOMAIN reports =
       CASE phase \in {"transit", "pack"} -> {}
         [] phase = "chain" -> {"pack"}
         [] phase = "metering" -> {"pack", "chain"}
         [] phase = "settlement" -> {"pack", "chain", "metering"}
         [] phase = "rollup" -> {"pack", "chain", "metering", "settlement"}
         [] phase = "done" -> {"pack", "chain", "metering", "settlement", "overall"}
  /\ \A n \in DOMAIN reports : reports[n] \in Statuses

\* A receipt of the pack that bears out a record.
Proven(m) ==
  \E k \in DOMAIN bundle.pack.records :
    /\ R!Genuine(Receipt(bundle.pack.records[k]))
    /\ M!BearsOut(Proof(bundle.pack.records[k]), m)

(* Every payment of a bundle that is VALID, its settlement included, leads  *)
(* back to evidence: the line names a metering record, of the summary that  *)
(* was itself audited, and a receipt the platform signed bears that out;    *)
(* no two of the three are of different orgs.                              *)
SettledMoneyIsProven ==
  Finished /\ reports["overall"] = "VALID" /\ reports["settlement"] # "SKIPPED" =>
    /\ \A l \in DOMAIN settlement.lines : \E m \in DOMAIN metering.records :
         metering.records[m].idem = settlement.lines[l].meter /\ Proven(metering.records[m])
    /\ settlement.org = metering.org /\ metering.org = bundle.pack.org

(* A part of the bundle goes without a report of its own only when it is    *)
(* not there at all, neither in the bundle nor in its pack; a settlement    *)
(* also when there is no metering to hold it against.                      *)
SkippedOnlyIfAbsent ==
  LET absent(part) == bundle[part] = NoSummary /\ bundle.pack[part] = NoSummary IN
  /\ "metering" \in DOMAIN reports =>
       (reports["metering"] = "SKIPPED" <=> absent("metering"))
  /\ "settlement" \in DOMAIN reports =>
       (reports["settlement"] = "SKIPPED" <=> absent("metering") \/ absent("settlement"))

\* What a summary says, when there is one, or that of the sealed one.
UnlessMissing(Says(_), s, original) == s # NoSummary => Says(s) = Says(original)

(* One change to an honest bundle, wherever it is made, either shows or     *)
(* takes something away: what is VALID then holds no other receipt, link,   *)
(* count or payment than the platform made.  A receipt is the same when     *)
(* only "=" signs trail its signature; left out are bundles with a refund   *)
(* that the platform rounds otherwise, which are not VALID to begin with.   *)
OneChangeOnlyTakesAway ==
  Finished /\ altered = 1 /\ reports["overall"] = "VALID" /\ S!RoundedAlike(sealed.settlement) =>
    /\ \A k \in DOMAIN bundle.pack.records :
         R!Plain(bundle.pack.records[k]) = sealed.records[k]
    /\ bundle.prior = sealed.prior
    /\ UnlessMissing(LAMBDA m : [u \in M!UnitType |-> M!Billed(m, u)], metering, sealed.metering)
    /\ Reconcilable => S!Payments(settlement) = S!Payments(sealed.settlement)

Promise == INSTANCE VerdictPromise WITH
  flawless <- BundleFlawless, sound <- BundleSound, called <- phase # "transit",
  verdict <- IF Panicked THEN "panicked" ELSE IF Finished THEN reports["overall"] ELSE "pending"

(* verify_all answers once and for all: VALID for a bundle as the platform  *)
(* made it, and VALID for no bundle whose receipts, chain, counts or        *)
(* payments do not hold together; never SKIPPED.  A call that is made       *)
(* returns or panics: no audit loops or waits.                             *)
KeepsPromise == Promise!FairSpec
==============================================================================
