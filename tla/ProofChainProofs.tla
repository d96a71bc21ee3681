-------------------------- MODULE ProofChainProofs ---------------------------
(* What ProofChain's runs check on packs of three records, for packs of any *)
(* length over any hashes, nonces and instants; then PackSeries, for any    *)
(* number of such packs: that VALID packs make one chain, what that says of *)
(* replayed receipts, and that every call of the series keeps               *)
(* VerdictPromise.                                                         *)
EXTENDS PackSeries, WellFoundedInduction, TLAPS

(* Adding steps to a report: a fault among them, or already in the report,  *)
(* makes it faulty, and nothing else does.                                 *)
LEMMA AnyInvalidGrows ==
  ASSUME NEW S, NEW T
  PROVE  AnyInvalid(S \cup T) <=> AnyInvalid(S) \/ AnyInvalid(T)
  BY DEF AnyInvalid

(* The link step of a record is VALID exactly when the record names its     *)
(* predecessor's afterHash.                                                *)
LEMMA LinkStepSound ==
  ASSUME NEW k, records[k - 1].after # NoHash
  PROVE  /\ LinkStep(k).status \in Statuses
         /\ LinkStep(k).status # "INVALID" => records[k].before = records[k - 1].after
  BY DEF LinkStep, Ok, Fault, Step, Statuses

LEMMA RecordTypes ==
  ASSUME TypeOK, NEW k \in 1..Len(records)
  PROVE  /\ records[k] \in Record
         /\ records[k].before \in Hash \cup {NoHash}
         /\ records[k].after \in Hash /\ records[k].after # NoHash
         /\ records[k].issued \in Instant \cup {BadInstant}
         /\ records[k].nonce \in Nonce
<1>1. records \in Seq(Record)
  BY DEF TypeOK
<1>2. records[k] \in Record
  BY <1>1
<1> QED
  BY <1>2, ChainAssumption DEF Record

(* What has been judged at each control point.                             *)
LEMMA Extents ==
  /\ pc = "genesis" => Walked = {} /\ Counted = {}
  /\ pc = "walk" => Walked = 2..(i - 1) /\ Counted = {}
  /\ pc = "nonces" => Walked = 2..Len(records) /\ Counted = 1..(i - 1)
  /\ pc = "done" => Walked = 2..Len(records) /\ Counted = 1..Len(records)
  BY DEF Walked, Counted

(* A walk starts with an empty report and nothing judged.                  *)
LEMMA WalkBegins ==
  ASSUME records \in Seq(Record), prior \in Hash \cup {NoHash}, pc = "genesis", i = 1,
         prevMs = BadInstant, seen = << >>, reuse = 0, steps = {}, status = "pending"
  PROVE  IInv
<1>1. Len(records) \in Nat
  OBVIOUS
<1>2. TypeOK
  BY <1>1 DEF TypeOK
<1>3. Walked = {} /\ Counted = {}
  BY Extents
<1>4. CleanSoFar /\ SortedSoFar
  BY <1>3 DEF CleanSoFar, SortedSoFar
<1>5. RepeatsTraced
  BY <1>3 DEF RepeatsTraced, RepeatSteps
<1>6. NoFalseAlarm /\ LinksJudged
  BY DEF NoFalseAlarm, AnyInvalid, LinksJudged, Judged
<1> QED
  BY <1>2, <1>4, <1>5, <1>6 DEF IInv, Position, NonceMap, VerdictFollows

LEMMA InitIInv == Init => IInv
  BY WalkBegins, ChainAssumption DEF Init

(* Every action keeps every variable in its domain.                        *)
LEMMA TypeStep == TypeOK /\ Position /\ [Next]_vars => TypeOK'
<1>1. SUFFICES ASSUME TypeOK, Position, [Next]_vars PROVE TypeOK'
  OBVIOUS
<1>2. records \in Seq(Record) /\ Len(records) \in Nat
  BY <1>1 DEF TypeOK
<1>3. CASE RejectEmpty
  BY <1>1, <1>2, <1>3 DEF TypeOK, RejectEmpty, Fault, Step, Statuses
<1>4. CASE CheckGenesis
  <2>1. 1 \in 1..Len(records) /\ Len(records) # 0
    BY <1>2, <1>4 DEF CheckGenesis
  <2>2. prevMs' \in Instant \cup {BadInstant}
    BY <1>1, <1>4, <2>1, RecordTypes DEF CheckGenesis
  <2>3. GenesisStep.status \in Statuses
    BY DEF GenesisStep, Ok, Fault, Step, Statuses
  <2> QED
    BY <1>1, <1>2, <1>4, <2>1, <2>2, <2>3 DEF TypeOK, CheckGenesis
<1>5. CASE WalkRecord
  <2>1. i \in 2..Len(records)
    BY <1>1, <1>2, <1>5 DEF WalkRecord, Position, TypeOK
  <2>2. prevMs' \in Instant \cup {BadInstant}
    BY <1>1, <1>5, <2>1, RecordTypes DEF WalkRecord
  <2>3. LinkStep(i).status \in Statuses
    BY DEF LinkStep, Ok, Fault, Step, Statuses
  <2>4. Fault("issuedAt", i, "CHAIN_OUT_OF_ORDER").status \in Statuses
    BY DEF Fault, Step, Statuses
  <2>5. \A s \in steps' : s.status \in Statuses
    BY <1>1, <1>5, <2>3, <2>4 DEF WalkRecord, TypeOK
  <2> QED
    BY <1>1, <1>2, <1>5, <2>1, <2>2, <2>5 DEF TypeOK, WalkRecord
<1>6. CASE StartNonces
  BY <1>1, <1>2, <1>6 DEF TypeOK, StartNonces
<1>7. CASE CheckNonce
  <2>1. i \in 1..Len(records) /\ records[i].nonce \in Nonce
    BY <1>1, <1>2, <1>7, RecordTypes DEF CheckNonce, TypeOK
  <2>2. DOMAIN seen' \subseteq Nonce /\ \A n \in DOMAIN seen' : seen'[n] \in 1..Len(records)
    BY <1>1, <1>7, <2>1 DEF CheckNonce, Remember, TypeOK
  <2>3. \A s \in steps' : s.status \in Statuses
    BY <1>1, <1>7 DEF CheckNonce, TypeOK, Step, Statuses
  <2>4. reuse' \in Nat
    BY <1>1, <1>7 DEF CheckNonce, TypeOK
  <2> QED
    BY <1>1, <1>2, <1>7, <2>1, <2>2, <2>3, <2>4 DEF TypeOK, CheckNonce
<1>8. CASE RollUp
  <2>1. \A s \in steps' : s.status \in Statuses
    BY <1>1, <1>8 DEF RollUp, TypeOK, Ok, Step, Statuses
  <2> QED
    BY <1>1, <1>2, <1>8, <2>1 DEF TypeOK, RollUp, Verdict
<1>9. CASE UNCHANGED vars
  BY <1>1, <1>9 DEF TypeOK, vars
<1> QED
  BY <1>1, <1>3, <1>4, <1>5, <1>6, <1>7, <1>8, <1>9 DEF Next, Walk, Returned

(* The bookkeeping of the two loops and of the verdict.                    *)
LEMMA PositionStep ==
  TypeOK /\ Position /\ VerdictFollows /\ [Next]_vars => Position' /\ VerdictFollows'
<1>1. SUFFICES ASSUME TypeOK, Position, VerdictFollows, [Next]_vars
               PROVE  Position' /\ VerdictFollows'
  OBVIOUS
<1>2. records \in Seq(Record) /\ Len(records) \in Nat /\ i \in Nat
  BY <1>1 DEF TypeOK
<1>3. CASE RejectEmpty
  BY <1>1, <1>3 DEF RejectEmpty, Position, VerdictFollows, Verdict, AnyInvalid, Fault, Step
<1>4. CASE CheckGenesis
  BY <1>1, <1>4 DEF CheckGenesis, Position, VerdictFollows
<1>5. CASE WalkRecord
  BY <1>1, <1>2, <1>5 DEF WalkRecord, Position, VerdictFollows
<1>6. CASE StartNonces
  BY <1>1, <1>6 DEF StartNonces, Position, VerdictFollows
<1>7. CASE CheckNonce
  BY <1>1, <1>7 DEF CheckNonce, Position, VerdictFollows
<1>8. CASE RollUp
  BY <1>1, <1>8 DEF RollUp, Position, VerdictFollows, Verdict
<1>9. CASE UNCHANGED vars
  BY <1>1, <1>9 DEF Position, VerdictFollows, vars, Verdict, AnyInvalid
<1> QED
  BY <1>1, <1>3, <1>4, <1>5, <1>6, <1>7, <1>8, <1>9 DEF Next, Walk, Returned

(* A clean report says of the records behind the walk that they are         *)
(* anchored, linked, in order between neighbours and of distinct nonces.    *)
LEMMA CleanStep ==
  TypeOK /\ Position /\ NonceMap /\ CleanSoFar /\ [Next]_vars => CleanSoFar'
<1>1. SUFFICES ASSUME TypeOK, Position, NonceMap, CleanSoFar, [Next]_vars,
                      ~AnyInvalid(steps)'
               PROVE  /\ (pc # "genesis" => Anchored)'
                      /\ \A k \in Walked' :
                           records'[k].before = records'[k - 1].after /\ Ordered(k)'
                      /\ \A j, k \in Counted' :
                           records'[j].nonce = records'[k].nonce => j = k
  BY DEF CleanSoFar
<1>2. records \in Seq(Record) /\ Len(records) \in Nat /\ i \in Nat
  BY <1>1 DEF TypeOK
<1>3. CASE RejectEmpty
  BY <1>1, <1>3 DEF RejectEmpty, AnyInvalid, Fault, Step
<1>4. CASE CheckGenesis
  <2>1. records[1].before = prior
    BY <1>1, <1>4 DEF CheckGenesis, GenesisStep, AnyInvalid, Fault, Step
  <2>2. Walked' = {} /\ Counted' = {}
    BY <1>4, <1>2 DEF CheckGenesis, Walked, Counted
  <2> QED
    BY <1>4, <2>1, <2>2 DEF CheckGenesis, Anchored
<1>5. CASE WalkRecord
  <2>1. i \in 2..Len(records) /\ prevMs = records[i - 1].issued
    BY <1>1, <1>2, <1>5 DEF WalkRecord, Position
  <2>2. i \in 1..Len(records) /\ i - 1 \in 1..Len(records)
    BY <1>2, <2>1
  <2>3. ~AnyInvalid(steps) /\ LinkStep(i).status # "INVALID" /\ ~StepsBack(i)
    <3>1. /\ steps \subseteq steps' /\ LinkStep(i) \in steps'
          /\ StepsBack(i) => Fault("issuedAt", i, "CHAIN_OUT_OF_ORDER") \in steps'
      BY <1>5 DEF WalkRecord
    <3>2. \A s \in steps' : s.status # "INVALID"
      BY <1>1 DEF AnyInvalid
    <3> QED
      BY <3>1, <3>2 DEF AnyInvalid, Fault, Step
  <2>4. records[i].before = records[i - 1].after
    BY <2>2, <2>3, <1>1, RecordTypes, LinkStepSound
  <2>5. Ordered(i)
    <3>1. SUFFICES ASSUME {records[i - 1].issued, records[i].issued} \subseteq Instant
                   PROVE  records[i - 1].issued <= records[i].issued
      BY DEF Ordered
    <3>2. /\ records[i - 1].issued \in Int /\ records[i].issued \in Int
          /\ prevMs # BadInstant /\ records[i].issued # BadInstant
      BY <3>1, <2>1, ChainAssumption
    <3>3. ~(records[i].issued < prevMs)
      BY <2>3, <3>2 DEF StepsBack
    <3> QED
      BY <3>2, <3>3, <2>1
  <2>6. Walked = 2..(i - 1) /\ Walked' = 2..i /\ Counted' = {} /\ Anchored
    BY <1>1, <1>2, <1>5, <2>3, Extents DEF WalkRecord, Walked, Counted, CleanSoFar
  <2>7. \A k \in 2..i : records[k].before = records[k - 1].after /\ Ordered(k)
    <3>1. \A k \in 2..(i - 1) : records[k].before = records[k - 1].after /\ Ordered(k)
      BY <1>1, <2>3, <2>6 DEF CleanSoFar
    <3>2. \A k \in 2..i : k = i \/ k \in 2..(i - 1)
      BY <2>1, <1>2
    <3> QED
      BY <3>1, <3>2, <2>4, <2>5
  <2> QED
    BY <1>5, <2>6, <2>7 DEF WalkRecord, Anchored, Ordered
<1>6. CASE StartNonces
  <2>1. i = Len(records) + 1
    BY <1>1, <1>2, <1>6 DEF StartNonces, TypeOK
  <2>2. Walked = 2..Len(records) /\ Walked' = 2..Len(records) /\ Counted' = {} /\ Anchored
    BY <1>1, <1>2, <1>6, <2>1, Extents DEF StartNonces, Walked, Counted, CleanSoFar
  <2> QED
    BY <1>1, <1>6, <2>2 DEF StartNonces, CleanSoFar, Anchored, Ordered
<1>7. CASE CheckNonce
  <2>1. i \in 1..Len(records) /\ pc = "nonces"
    BY <1>1, <1>2, <1>7 DEF CheckNonce, TypeOK
  <2>2. records[i].nonce \notin DOMAIN seen /\ ~AnyInvalid(steps)
    <3>1. \A s \in steps' : s.status # "INVALID"
      BY <1>1 DEF AnyInvalid
    <3>2. steps \subseteq steps'
      BY <1>7 DEF CheckNonce
    <3>3. records[i].nonce \in DOMAIN seen => \E s \in steps' : s.status = "INVALID"
      <4> DEFINE repeat == Step(<<"nonce", i, seen[records[i].nonce]>>, "INVALID",
                                "CHAIN_NONCE_REUSED")
      <4>1. repeat.status = "INVALID"
        BY DEF Step
      <4>2. records[i].nonce \in DOMAIN seen => repeat \in steps'
        BY <1>7 DEF CheckNonce
      <4> QED
        BY <4>1, <4>2
    <3> QED
      BY <3>1, <3>2, <3>3 DEF AnyInvalid
  <2>3. /\ Walked = 2..Len(records) /\ Walked' = 2..Len(records)
        /\ Counted = 1..(i - 1) /\ Counted' = 1..i /\ Anchored
    BY <1>1, <1>2, <1>7, <2>2, Extents DEF CheckNonce, Walked, Counted, CleanSoFar
  <2>4. \A k \in 1..(i - 1) : records[k].nonce # records[i].nonce
    BY <1>1, <2>1, <2>2, <2>3 DEF NonceMap
  <2>5. \A j, k \in 1..i : records[j].nonce = records[k].nonce => j = k
    <3>1. \A j, k \in 1..(i - 1) : records[j].nonce = records[k].nonce => j = k
      BY <1>1, <2>2, <2>3 DEF CleanSoFar
    <3>2. \A k \in 1..i : k = i \/ k \in 1..(i - 1)
      BY <2>1, <1>2
    <3> QED
      BY <3>1, <3>2, <2>4
  <2> QED
    BY <1>1, <1>7, <2>2, <2>3, <2>5 DEF CheckNonce, CleanSoFar, Anchored, Ordered
<1>8. CASE RollUp
  <2>1. i = Len(records) + 1 /\ ~AnyInvalid(steps)
    BY <1>1, <1>2, <1>8 DEF RollUp, TypeOK, AnyInvalid
  <2>2. /\ Walked = 2..Len(records) /\ Walked' = 2..Len(records)
        /\ Counted = 1..Len(records) /\ Counted' = 1..Len(records) /\ Anchored
    BY <1>1, <1>2, <1>8, <2>1, Extents DEF RollUp, Walked, Counted, CleanSoFar
  <2> QED
    BY <1>1, <1>8, <2>1, <2>2 DEF RollUp, CleanSoFar, Anchored, Ordered
<1>9. CASE UNCHANGED vars
  BY <1>1, <1>9 DEF vars, CleanSoFar, Walked, Counted, Anchored, Ordered, AnyInvalid
<1> QED
  BY <1>1, <1>3, <1>4, <1>5, <1>6, <1>7, <1>8, <1>9 DEF Next, Walk, Returned

(* When every instant parses, neighbourly order adds up: no record behind   *)
(* a clean walk is later than the record the walk has reached.             *)
LEMMA SortedStep ==
  TypeOK /\ Position /\ CleanSoFar' /\ SortedSoFar /\ [Next]_vars => SortedSoFar'
<1>1. SUFFICES ASSUME TypeOK, Position, CleanSoFar', SortedSoFar, [Next]_vars,
                      AllParse', ~AnyInvalid(steps)',
                      NEW j \in 1..Len(records'), NEW k \in 1..Len(records'),
                      j < k, k \in Walked'
               PROVE  records'[j].issued <= records'[k].issued
  BY DEF SortedSoFar
<1>2. records' = records /\ records \in Seq(Record) /\ Len(records) \in Nat /\ i \in Nat
  BY <1>1 DEF TypeOK, Next, Walk, Returned, RejectEmpty, CheckGenesis, WalkRecord, StartNonces,
              CheckNonce, RollUp, vars
<1>3. AllParse /\ ~AnyInvalid(steps)
  <2>1. steps \subseteq steps' \/ steps = {} \/ RejectEmpty \/ CheckGenesis
    BY <1>1 DEF Next, Walk, Returned, WalkRecord, StartNonces, CheckNonce, RollUp, vars
  <2>2. CASE RejectEmpty
    BY <1>1, <2>2 DEF RejectEmpty, AnyInvalid, Fault, Step
  <2>3. CASE CheckGenesis
    BY <1>1, <2>3 DEF CheckGenesis, Walked
  <2> QED
    BY <1>1, <1>2, <2>1, <2>2, <2>3 DEF AnyInvalid, AllParse
<1>4. \A m \in 1..Len(records) : records[m].issued \in Int
  BY <1>3, ChainAssumption DEF AllParse
<1>5. CASE WalkRecord
  <2>1. i \in 2..Len(records)
    BY <1>1, <1>2, <1>5 DEF WalkRecord, Position
  <2>2. Walked = 2..(i - 1) /\ Walked' = 2..i
    BY <1>2, <1>5 DEF WalkRecord, Walked
  <2>3. CASE k \in 2..(i - 1)
    BY <1>1, <1>2, <1>3, <2>2, <2>3 DEF SortedSoFar
  <2>4. CASE k = i
    <3>1. records[i - 1].issued <= records[i].issued
      <4>1. Ordered(i)
        BY <1>1, <1>2, <2>1, <2>2 DEF CleanSoFar, Ordered
      <4> QED
        BY <4>1, <1>3, <1>2, <2>1 DEF Ordered, AllParse
    <3>2. j = i - 1 \/ records[j].issued <= records[i - 1].issued
      BY <1>1, <1>2, <1>3, <2>1, <2>2, <2>4 DEF SortedSoFar
    <3> QED
      BY <3>1, <3>2, <1>1, <1>2, <1>4, <2>1, <2>4
  <2> QED
    BY <1>1, <2>2, <2>3, <2>4, <1>2, <2>1
<1>6. k \in Walked \/ WalkRecord
  <2>1. CASE StartNonces
    BY <1>1, <1>2, <2>1 DEF StartNonces, Walked, TypeOK
  <2>2. CASE UNCHANGED vars
    BY <1>1, <2>2 DEF vars, Walked
  <2>3. CASE RejectEmpty
    BY <1>1, <1>2, <2>3 DEF RejectEmpty
  <2>4. CASE CheckGenesis
    BY <1>1, <2>4 DEF CheckGenesis, Walked
  <2>5. CASE CheckNonce
    BY <1>1, <1>2, <2>5 DEF CheckNonce, Walked
  <2>6. CASE RollUp
    BY <1>1, <1>2, <2>6 DEF RollUp, Walked
  <2> QED
    BY <1>1, <2>1, <2>2, <2>3, <2>4, <2>5, <2>6 DEF Next, Walk, Returned
<1> QED
  BY <1>1, <1>2, <1>3, <1>5, <1>6 DEF SortedSoFar

(* The map holds exactly the nonces behind the loop, each with its first    *)
(* holder, and every repeat behind the loop is accused.                    *)
LEMMA NonceStep ==
  TypeOK /\ Position /\ NonceMap /\ RepeatsTraced /\ [Next]_vars
    => NonceMap' /\ RepeatsTraced'
<1>1. SUFFICES ASSUME TypeOK, Position, NonceMap, RepeatsTraced, [Next]_vars
               PROVE  NonceMap' /\ RepeatsTraced'
  OBVIOUS
<1>2. records \in Seq(Record) /\ Len(records) \in Nat /\ i \in Nat
  BY <1>1 DEF TypeOK
<1>3. CASE RejectEmpty
  <2>1. RepeatSteps' = {} /\ Counted' = {} /\ pc' = "done"
    BY <1>2, <1>3 DEF RejectEmpty, RepeatSteps, Counted, Fault, Step
  <2> QED
    BY <2>1 DEF NonceMap, RepeatsTraced
<1>4. CASE CheckGenesis
  <2>1. RepeatSteps' = {}
    BY <1>4 DEF CheckGenesis, GenesisStep, GenesisReason, RepeatSteps, Ok, Fault, Step
  <2>2. Counted' = {} /\ pc' = "walk"
    BY <1>4 DEF CheckGenesis, Counted
  <2> QED
    BY <2>1, <2>2 DEF NonceMap, RepeatsTraced
<1>5. CASE WalkRecord
  <2>1. LinkStep(i).reason # "CHAIN_NONCE_REUSED"
    BY DEF LinkStep, Ok, Fault, Step
  <2>2. RepeatSteps' = RepeatSteps
    BY <1>5, <2>1 DEF WalkRecord, RepeatSteps, Fault, Step
  <2>3. Counted' = {} /\ pc' = "walk" /\ records' = records
    BY <1>5 DEF WalkRecord, Counted
  <2> QED
    BY <1>1, <2>2, <2>3 DEF NonceMap, RepeatsTraced, NamesFirstHolder, IsRepeat
<1>6. CASE StartNonces
  <2>1. /\ Counted' = {} /\ RepeatSteps' = RepeatSteps /\ records' = records /\ seen' = seen
        /\ reuse' = reuse
    BY <1>6 DEF StartNonces, Counted, RepeatSteps
  <2>2. DOMAIN seen = {} /\ reuse = 0
    BY <1>1, <1>6 DEF StartNonces, Position
  <2> QED
    BY <1>1, <2>1, <2>2 DEF NonceMap, RepeatsTraced, NamesFirstHolder, IsRepeat
<1>7. CASE CheckNonce
  <2> DEFINE n == records[i].nonce
             repeat == Step(<<"nonce", i, seen[n]>>, "INVALID", "CHAIN_NONCE_REUSED")
  <2>1. i \in 1..Len(records) /\ pc = "nonces" /\ pc' = "nonces" /\ records' = records
    BY <1>1, <1>2, <1>7 DEF CheckNonce, TypeOK
  <2>2. Counted = 1..(i - 1) /\ Counted' = 1..i
    BY <1>2, <1>7 DEF CheckNonce, Counted
  <2>3. n \in DOMAIN seen <=> IsRepeat(i)
    BY <1>1, <2>1, <2>2 DEF NonceMap, IsRepeat
  <2>4. \A k \in 1..i : k = i \/ k \in 1..(i - 1)
    BY <2>1, <1>2
  <2>5. \A k : IsRepeat(k)' <=> IsRepeat(k)
    BY <2>1 DEF IsRepeat
  <2>6. \A s : NamesFirstHolder(s)' <=> NamesFirstHolder(s)
    BY <2>1, <2>5 DEF NamesFirstHolder
  <2>7. CASE n \in DOMAIN seen
    <3>1. seen' = seen /\ reuse' = reuse + 1 /\ steps' = steps \cup {repeat}
      BY <1>7, <2>7 DEF CheckNonce
    <3>2. repeat.status = "INVALID" /\ repeat.reason = "CHAIN_NONCE_REUSED"
          /\ repeat.target[2] = i /\ repeat.target[3] = seen[n]
      BY DEF Step
    <3>3. seen[n] \in 1..(i - 1) /\ records[seen[n]].nonce = n /\ ~IsRepeat(seen[n])
      BY <1>1, <2>1, <2>2, <2>7 DEF NonceMap
    <3>4. NamesFirstHolder(repeat)
      BY <2>1, <3>2, <3>3 DEF NamesFirstHolder
    <3>5. RepeatSteps' = RepeatSteps \cup {repeat}
      BY <3>1, <3>2 DEF RepeatSteps
    <3>6. RepeatsTraced'
      BY <1>1, <2>2, <2>4, <2>5, <2>6, <3>2, <3>4, <3>5 DEF RepeatsTraced
    <3>7. DOMAIN seen' = {records[k].nonce : k \in 1..i}
      BY <1>1, <2>1, <2>2, <2>4, <2>7, <3>1 DEF NonceMap
    <3>8. AnyInvalid(steps)'
      BY <3>1, <3>2 DEF AnyInvalid
    <3> QED
      BY <1>1, <2>1, <2>2, <2>5, <3>1, <3>6, <3>7, <3>8 DEF NonceMap
  <2>8. CASE n \notin DOMAIN seen
    <3>1. seen' = Remember(seen, n, i) /\ reuse' = reuse /\ steps' = steps
      BY <1>7, <2>8 DEF CheckNonce
    <3>2. DOMAIN seen' = DOMAIN seen \cup {n} /\ seen'[n] = i
          /\ \A m \in DOMAIN seen : seen'[m] = seen[m]
      BY <3>1, <2>8 DEF Remember
    <3>3. RepeatSteps' = RepeatSteps /\ (AnyInvalid(steps)' <=> AnyInvalid(steps))
      BY <3>1 DEF RepeatSteps, AnyInvalid
    <3>4. RepeatsTraced'
      BY <1>1, <2>2, <2>3, <2>4, <2>5, <2>6, <2>8, <3>3 DEF RepeatsTraced
    <3>5. DOMAIN seen' = {records[k].nonce : k \in 1..i}
      BY <1>1, <2>1, <2>2, <2>4, <3>2 DEF NonceMap
    <3>6. \A m \in DOMAIN seen' :
            seen'[m] \in 1..i /\ records[seen'[m]].nonce = m /\ ~IsRepeat(seen'[m])
      BY <1>1, <2>1, <2>2, <2>3, <2>8, <3>2 DEF NonceMap
    <3> QED
      BY <1>1, <2>1, <2>2, <2>5, <3>1, <3>3, <3>4, <3>5, <3>6 DEF NonceMap
  <2> QED
    BY <2>7, <2>8
<1>8. CASE RollUp
  <2>1. Counted' = Counted /\ pc' = "done" /\ records' = records
    BY <1>1, <1>2, <1>8 DEF RollUp, Counted, TypeOK
  <2>2. RepeatSteps' = RepeatSteps
    BY <1>8 DEF RollUp, RepeatSteps, Ok, Step
  <2> QED
    BY <1>1, <2>1, <2>2 DEF NonceMap, RepeatsTraced, NamesFirstHolder, IsRepeat
<1>9. CASE UNCHANGED vars
  BY <1>1, <1>9 DEF vars, NonceMap, RepeatsTraced, NamesFirstHolder, IsRepeat, Counted,
                    RepeatSteps, AnyInvalid
<1> QED
  BY <1>1, <1>3, <1>4, <1>5, <1>6, <1>7, <1>8, <1>9 DEF Next, Walk, Returned

(* A sound pack gives no step of the walk a reason to accuse.              *)
LEMMA AlarmStep ==
  TypeOK /\ Position /\ NonceMap /\ NoFalseAlarm /\ [Next]_vars => NoFalseAlarm'
<1>1. SUFFICES ASSUME TypeOK, Position, NonceMap, NoFalseAlarm, [Next]_vars, Sound'
               PROVE  ~AnyInvalid(steps)'
  BY DEF NoFalseAlarm
<1>2. records' = records /\ prior' = prior
  BY <1>1 DEF Next, Walk, Returned, RejectEmpty, CheckGenesis, WalkRecord, StartNonces,
              CheckNonce, RollUp, vars
<1>3. Sound /\ ~AnyInvalid(steps)
  BY <1>1, <1>2 DEF NoFalseAlarm, Sound, Anchored, Linked, InOrder, Ordered, NoncesDistinct
<1>4. records \in Seq(Record) /\ Len(records) \in Nat /\ i \in Nat
  BY <1>1 DEF TypeOK
<1>5. CASE RejectEmpty
  BY <1>3, <1>5 DEF RejectEmpty, Sound, Anchored
<1>6. CASE CheckGenesis
  BY <1>3, <1>6 DEF CheckGenesis, GenesisStep, Sound, Anchored, AnyInvalid, Ok, Step
<1>7. CASE WalkRecord
  <2>1. i \in 2..Len(records) /\ i - 1 \in 1..Len(records) /\ prevMs = records[i - 1].issued
    BY <1>1, <1>4, <1>7 DEF WalkRecord, Position
  <2>2. LinkStep(i) = Ok("beforeHash", i)
    <3>1. records[i].before = records[i - 1].after
      BY <1>3, <2>1 DEF Sound, Linked
    <3>2. records[i - 1].after # NoHash
      BY <1>1, <2>1, RecordTypes
    <3> QED
      BY <3>1, <3>2 DEF LinkStep
  <2>3. ~StepsBack(i)
    <3>1. SUFFICES ASSUME prevMs # BadInstant, records[i].issued # BadInstant
                   PROVE  ~(records[i].issued < prevMs)
      BY DEF StepsBack
    <3>2. records[i - 1].issued \in Instant /\ records[i].issued \in Instant
      BY <1>1, <1>4, <2>1, <3>1, RecordTypes
    <3>3. records[i - 1].issued <= records[i].issued
      BY <1>3, <2>1, <3>2 DEF Sound, InOrder, Ordered
    <3>4. records[i - 1].issued \in Int /\ records[i].issued \in Int
      BY <3>2, ChainAssumption
    <3> QED
      BY <2>1, <3>3, <3>4
  <2>4. steps' = steps \cup {Ok("beforeHash", i)}
    BY <1>7, <2>2, <2>3 DEF WalkRecord
  <2> QED
    BY <1>3, <2>4 DEF AnyInvalid, Ok, Step
<1>8. CASE StartNonces
  BY <1>3, <1>8 DEF StartNonces, AnyInvalid
<1>9. CASE CheckNonce
  <2>1. i \in 1..Len(records) /\ Counted = 1..(i - 1)
    BY <1>1, <1>4, <1>9 DEF CheckNonce, TypeOK, Counted
  <2>2. \A k \in 1..(i - 1) : records[k].nonce # records[i].nonce
    BY <1>3, <1>4, <2>1 DEF Sound, NoncesDistinct
  <2>3. records[i].nonce \notin DOMAIN seen
    BY <1>1, <1>9, <2>1, <2>2 DEF CheckNonce, NonceMap
  <2>4. steps' = steps
    BY <1>9, <2>3 DEF CheckNonce
  <2> QED
    BY <1>3, <2>4 DEF AnyInvalid
<1>10. CASE RollUp
  BY <1>3, <1>10 DEF RollUp, AnyInvalid, Ok, Step
<1>11. CASE UNCHANGED vars
  BY <1>3, <1>11 DEF vars, AnyInvalid
<1> QED
  BY <1>1, <1>5, <1>6, <1>7, <1>8, <1>9, <1>10, <1>11 DEF Next, Walk, Returned

\* The step that judges a link says which.
LEMMA LinkTargets ==
  /\ GenesisStep.target = <<"beforeHash", 1>>
  /\ \A k : LinkStep(k).target = <<"beforeHash", k>>
  BY DEF GenesisStep, LinkStep, Ok, Fault, Step

(* Every step but a link's leaves the judged links alone.                  *)
LEMMA LinksKept ==
  ASSUME LinksJudged, Judged' = Judged, NEW T, steps' = steps \cup T,
         \A t \in T : t.target[1] # "beforeHash"
  PROVE  LinksJudged'
<1>1. \A k \in Judged' : \E s \in steps' : s.target = <<"beforeHash", k>>
  BY DEF LinksJudged
<1>2. \A s \in steps' : s.target[1] = "beforeHash" => s.target[2] \in Judged'
  BY DEF LinksJudged
<1>3. \A s, t \in steps' : s.target[1] = "beforeHash" /\ t.target = s.target => t = s
  BY DEF LinksJudged
<1> QED
  BY <1>1, <1>2, <1>3 DEF LinksJudged

(* Each link is judged as the walk comes to it, and never again.           *)
LEMMA LinksStep == TypeOK /\ Position /\ LinksJudged /\ [Next]_vars => LinksJudged'
<1>1. SUFFICES ASSUME TypeOK, Position, LinksJudged, [Next]_vars PROVE LinksJudged'
  OBVIOUS
<1>2. records \in Seq(Record) /\ Len(records) \in Nat /\ i \in Nat
  BY <1>1 DEF TypeOK
<1>3. CASE RejectEmpty
  <2>1. Judged' = {} /\ steps' = {Fault("records", 0, "MALFORMED_PACK")}
    BY <1>3 DEF RejectEmpty, Judged
  <2>2. Fault("records", 0, "MALFORMED_PACK").target[1] = "records"
    BY DEF Fault, Step
  <2> QED
    BY <2>1, <2>2 DEF LinksJudged
<1>4. CASE CheckGenesis
  <2>1. Judged' = 1..1 /\ steps' = {GenesisStep}
    BY <1>4 DEF CheckGenesis, Judged
  <2>2. GenesisStep.target[1] = "beforeHash" /\ GenesisStep.target[2] = 1
    BY LinkTargets
  <2>3. \A k \in 1..1 : k = 1
    OBVIOUS
  <2> QED
    BY <2>1, <2>2, <2>3, LinkTargets DEF LinksJudged
<1>5. CASE WalkRecord
  <2> DEFINE link == LinkStep(i)
             back == Fault("issuedAt", i, "CHAIN_OUT_OF_ORDER")
  <2>1. Judged = 1..(i - 1) /\ Judged' = 1..i
    BY <1>2, <1>5 DEF WalkRecord, Judged
  <2>2. i \in 1..i /\ i \notin 1..(i - 1) /\ 1..(i - 1) \subseteq 1..i
        /\ \A k \in 1..i : k = i \/ k \in 1..(i - 1)
    BY <1>1, <1>2, <1>5 DEF WalkRecord, Position
  <2>3. /\ link.target = <<"beforeHash", i>> /\ link.target[1] = "beforeHash"
        /\ link.target[2] = i
    BY LinkTargets
  <2>4. back.target[1] # "beforeHash"
    BY DEF Fault, Step
  <2>5. \A s \in steps' : s \in steps \/ s = link \/ s = back
    BY <1>5 DEF WalkRecord
  <2>6. steps \subseteq steps' /\ link \in steps'
    BY <1>5 DEF WalkRecord
  <2> HIDE DEF link, back
  <2>7. \A k \in 1..i : \E s \in steps' : s.target = <<"beforeHash", k>>
    BY <1>1, <2>1, <2>2, <2>3, <2>6 DEF LinksJudged
  <2>8. \A s \in steps' : s.target[1] = "beforeHash" => s.target[2] \in 1..i
    BY <1>1, <2>1, <2>2, <2>3, <2>4, <2>5 DEF LinksJudged
  <2>9. \A s, t \in steps' : s.target[1] = "beforeHash" /\ t.target = s.target => t = s
    BY <1>1, <2>1, <2>2, <2>3, <2>4, <2>5 DEF LinksJudged
  <2> QED
    BY <2>1, <2>7, <2>8, <2>9 DEF LinksJudged
<1>6. CASE StartNonces
  <2>1. Judged' = Judged /\ steps' = steps
    BY <1>1, <1>2, <1>6 DEF StartNonces, Judged, TypeOK
  <2> QED
    BY <1>1, <2>1 DEF LinksJudged
<1>7. CASE CheckNonce
  <2> DEFINE repeat == Step(<<"nonce", i, seen[records[i].nonce]>>, "INVALID",
                            "CHAIN_NONCE_REUSED")
  <2>1. Judged' = Judged /\ (steps' = steps \/ steps' = steps \cup {repeat})
    BY <1>7 DEF CheckNonce, Judged
  <2>2. repeat.target[1] # "beforeHash"
    BY DEF Step
  <2> QED
    BY <1>1, <2>1, <2>2, LinksKept DEF LinksJudged
<1>8. CASE RollUp
  <2>1. Judged' = Judged
    BY <1>8 DEF RollUp, Judged
  <2>2. Ok("nonce", 0).target[1] # "beforeHash"
    BY DEF Ok, Step
  <2>3. \A t \in {s \in {Ok("nonce", 0)} : reuse = 0} : t.target[1] # "beforeHash"
    BY <2>2
  <2>4. steps' = steps \cup {s \in {Ok("nonce", 0)} : reuse = 0}
    BY <1>8 DEF RollUp
  <2> QED
    BY <1>1, <2>1, <2>3, <2>4, LinksKept
<1>9. CASE UNCHANGED vars
  BY <1>1, <1>9 DEF vars, LinksJudged, Judged
<1> QED
  BY <1>1, <1>3, <1>4, <1>5, <1>6, <1>7, <1>8, <1>9 DEF Next, Walk, Returned

(* Every step keeps the whole of the strengthened invariant.               *)
LEMMA InductiveStep == IInv /\ [Next]_vars => IInv'
<1>1. SUFFICES ASSUME IInv, [Next]_vars PROVE IInv'
  OBVIOUS
<1>2. TypeOK' /\ Position' /\ VerdictFollows' /\ CleanSoFar'
  BY <1>1, TypeStep, PositionStep, CleanStep DEF IInv
<1>3. SortedSoFar' /\ NonceMap' /\ RepeatsTraced' /\ NoFalseAlarm' /\ LinksJudged'
  BY <1>1, <1>2, SortedStep, NonceStep, AlarmStep, LinksStep DEF IInv
<1> QED
  BY <1>2, <1>3 DEF IInv

(* A walk that ends without a fault was of a pack that is one chain.       *)
LEMMA IInvMeansChained == IInv => ValidMeansChained
<1>1. SUFFICES ASSUME IInv, status = "VALID"
               PROVE  Anchored /\ Linked /\ InOrder /\ NoncesDistinct
  BY DEF ValidMeansChained, Sound
<1>2. pc = "done" /\ ~AnyInvalid(steps)
  BY <1>1 DEF IInv, Position, VerdictFollows, Verdict
<1>3. Walked = 2..Len(records) /\ Counted = 1..Len(records)
  BY <1>2, Extents
<1> QED
  BY <1>1, <1>2, <1>3 DEF IInv, CleanSoFar, Linked, InOrder, NoncesDistinct

(* A walk that ends with a fault was of a pack that is not.                *)
LEMMA IInvMeansAccepted == IInv => SoundChainAccepted
<1>1. SUFFICES ASSUME IInv, Sound, status = "INVALID" PROVE FALSE
  BY DEF SoundChainAccepted
<1>2. pc = "done" /\ AnyInvalid(steps)
  BY <1>1 DEF IInv, Position, VerdictFollows, Verdict
<1> QED
  BY <1>1, <1>2 DEF IInv, NoFalseAlarm

(* The verdict on a pack is that of its records.                           *)
LEMMA VerdictIs ==
  ASSUME IInv, status # "pending"
  PROVE  status \in {"VALID", "INVALID"} /\ (status = "VALID" <=> Sound)
  BY IInvMeansChained, IInvMeansAccepted DEF ValidMeansChained, SoundChainAccepted, IInv, TypeOK

------------------------------------------------------------------------------
(* The strengthened invariant holds in every reachable state.              *)
THEOREM Inductive == Spec => []IInv
  BY InitIInv, InductiveStep, PTL DEF Spec

(* Every variable of the walk stays in its domain.                         *)
THEOREM TypeCorrect == Spec => []TypeOK
<1>1. IInv => TypeOK
  BY DEF IInv
<1> QED
  BY <1>1, Inductive, PTL

(* A pack of any length reported VALID is anchored, linked record to       *)
(* record, without a visible step back in time and without a repeated nonce. *)
THEOREM ValidPacksAreChained == Spec => []ValidMeansChained
  BY IInvMeansChained, Inductive, PTL

(* When every issuedAt of a VALID pack parses, the whole pack is in order   *)
(* of time, not only its neighbours: invariant 3 of proof_chain.rs.        *)
THEOREM ParsingPacksAreOrdered == Spec => []OrderedIfAllParse
<1>1. IInv => OrderedIfAllParse
  <2>1. SUFFICES ASSUME IInv, AllParse, status = "VALID",
                        NEW j \in 1..Len(records), NEW k \in 1..Len(records), j < k
                 PROVE  records[j].issued <= records[k].issued
    BY DEF OrderedIfAllParse, OrderedAlongChain
  <2>2. pc = "done" /\ ~AnyInvalid(steps)
    BY <2>1 DEF IInv, Position, VerdictFollows, Verdict
  <2>3. k \in Walked
    BY <2>1, <2>2, Extents
  <2> QED
    BY <2>1, <2>2, <2>3 DEF IInv, SortedSoFar
<1> QED
  BY <1>1, Inductive, PTL

(* Every accusation of a replayed nonce names the nonce's first holder, and *)
(* every replay in a judged pack is accused.                               *)
THEOREM RepeatsNameFirstHolder == Spec => []ReuseNamesFirstHolder
<1>1. IInv => ReuseNamesFirstHolder
  <2>1. SUFFICES ASSUME IInv PROVE ReuseNamesFirstHolder
    OBVIOUS
  <2>2. status # "pending" => Counted = 1..Len(records)
    BY <2>1, Extents DEF IInv, Position, TypeOK
  <2> QED
    BY <2>1, <2>2 DEF IInv, RepeatsTraced, ReuseNamesFirstHolder
<1> QED
  BY <1>1, Inductive, PTL

(* A pack of any length that is one chain off its anchor is never refused. *)
THEOREM SoundPacksAreAccepted == Spec => []SoundChainAccepted
  BY IInvMeansAccepted, Inductive, PTL

(* The report of a pack of any length judges every link, each once.        *)
THEOREM LinksAreJudged == Spec => []EveryLinkJudged
<1>1. IInv => EveryLinkJudged
  <2>1. SUFFICES ASSUME IInv, status # "pending", NEW k \in 1..Len(records)
                 PROVE  \E s \in steps :
                          /\ s.target = <<"beforeHash", k>>
                          /\ \A t \in steps : t.target = s.target => t = s
    BY DEF EveryLinkJudged
  <2>2. pc = "done" /\ Judged = 1..Len(records)
    BY <2>1 DEF IInv, Position, TypeOK, Judged
  <2>3. PICK s \in steps : s.target = <<"beforeHash", k>>
    BY <2>1, <2>2 DEF IInv, LinksJudged
  <2>4. s.target[1] = "beforeHash"
    BY <2>3
  <2> QED
    BY <2>1, <2>3, <2>4 DEF IInv, LinksJudged
<1> QED
  BY <1>1, Inductive, PTL
------------------------------------------------------------------------------
(* The packs behind: they end in the anchor of the pack in hand, and are    *)
(* one chain if each of them was VALID.                                    *)
EarlierValid == \A n \in DOMAIN verdicts : verdicts[n] = "VALID"

OneChain(s) == \A k \in 2..Len(s) : s[k].before = s[k - 1].after

Behind ==
  /\ earlier \in Seq(Record)
  /\ verdicts \in Seq({"VALID", "INVALID"})
  /\ earlier # << >> => prior = earlier[Len(earlier)].after
  /\ EarlierValid => OneChain(earlier)

SInv == IInv /\ Behind

(* One chain put after another whose last record it hangs off is a chain.   *)
LEMMA ChainsJoin ==
  ASSUME NEW s \in Seq(Record), NEW t \in Seq(Record), OneChain(s), OneChain(t),
         s # << >> /\ t # << >> => t[1].before = s[Len(s)].after
  PROVE  OneChain(s \o t)
<1>1. /\ Len(s) \in Nat /\ Len(t) \in Nat /\ Len(s \o t) = Len(s) + Len(t)
      /\ \A k \in 1..Len(s) : (s \o t)[k] = s[k]
      /\ \A k \in 1..Len(t) : (s \o t)[Len(s) + k] = t[k]
  OBVIOUS
<1>2. SUFFICES ASSUME NEW k \in 2..Len(s \o t)
               PROVE  (s \o t)[k].before = (s \o t)[k - 1].after
  BY DEF OneChain
<1>3. CASE k <= Len(s)
  <2>1. k \in 2..Len(s) /\ k \in 1..Len(s) /\ k - 1 \in 1..Len(s)
    BY <1>1, <1>2, <1>3
  <2> QED
    BY <1>1, <2>1 DEF OneChain
<1>4. CASE k = Len(s) + 1
  <2>1. Len(s) \in 1..Len(s) /\ k - 1 = Len(s) /\ 1 \in 1..Len(t)
    BY <1>1, <1>2, <1>4
  <2>2. (s \o t)[k] = t[1] /\ (s \o t)[k - 1] = s[Len(s)]
    BY <1>1, <1>4, <2>1
  <2> QED
    BY <2>1, <2>2
<1>5. CASE k > Len(s) + 1
  <2> DEFINE m == k - Len(s)
  <2>1. m \in 2..Len(t) /\ m \in 1..Len(t) /\ m - 1 \in 1..Len(t)
        /\ k = Len(s) + m /\ k - 1 = Len(s) + (m - 1)
    BY <1>1, <1>2, <1>5
  <2>2. (s \o t)[k] = t[m] /\ (s \o t)[k - 1] = t[m - 1]
    BY <1>1, <2>1
  <2> QED
    BY <2>1, <2>2 DEF OneChain
<1> QED
  BY <1>1, <1>2, <1>3, <1>4, <1>5

(* A walk that says VALID extends the chain behind it.                     *)
LEMMA ValidPackJoins ==
  ASSUME SInv, AllValid
  PROVE  OneChain(Series)
<1>1. records \in Seq(Record) /\ earlier \in Seq(Record)
  BY DEF SInv, IInv, TypeOK, Behind
<1>2. Sound
  BY IInvMeansChained DEF SInv, AllValid, ValidMeansChained
<1>3. OneChain(earlier) /\ OneChain(records)
  BY <1>2 DEF SInv, Behind, AllValid, EarlierValid, Sound, Linked, OneChain
<1>4. earlier # << >> /\ records # << >> => records[1].before = earlier[Len(earlier)].after
  BY <1>2 DEF SInv, Behind, Sound, Anchored
<1> QED
  BY <1>1, <1>3, <1>4, ChainsJoin DEF Series

(* A series starts with nothing behind.                                    *)
LEMMA SeriesInitSInv == SeriesInit => SInv
  BY InitIInv DEF SeriesInit, SInv, Behind, OneChain

(* The next pack is a walk about to start, off the last record's hash.     *)
LEMMA NextPackStarts == SInv /\ NextPack => Init'
<1>1. SUFFICES ASSUME SInv, NextPack PROVE Init'
  OBVIOUS
<1>2. records \in Seq(Record) /\ records # << >>
  BY <1>1, SeriesAssumption, ChainAssumption DEF NextPack
<1>3. Len(records) \in 1..Len(records)
  BY <1>2
<1>4. records[Len(records)].after \in Hash
  BY <1>1, <1>3, RecordTypes DEF SInv, IInv
<1> QED
  BY <1>1, <1>4, SeriesAssumption DEF NextPack, NextAnchor, Init

(* Taking up the next pack puts the one in hand behind.                    *)
LEMMA NextPackBehind == SInv /\ NextPack => Behind'
<1>1. SUFFICES ASSUME SInv, NextPack PROVE Behind'
  OBVIOUS
<1>2. /\ records \in Seq(Record) /\ records # << >> /\ earlier \in Seq(Record)
      /\ verdicts \in Seq({"VALID", "INVALID"}) /\ status \in {"VALID", "INVALID"}
  BY <1>1, SeriesAssumption, ChainAssumption
     DEF NextPack, SInv, Behind, IInv, TypeOK, Position
<1>3. earlier' = earlier \o records /\ verdicts' = Append(verdicts, status)
  BY <1>1 DEF NextPack
<1>4. earlier' \in Seq(Record) /\ verdicts' \in Seq({"VALID", "INVALID"})
  BY <1>2, <1>3
<1>5. prior' = earlier'[Len(earlier')].after
  <2>1. Len(earlier \o records) = Len(earlier) + Len(records) /\ Len(records) \in 1..Len(records)
    BY <1>2
  <2>2. (earlier \o records)[Len(earlier) + Len(records)] = records[Len(records)]
    BY <1>2, <2>1
  <2> QED
    BY <1>1, <1>3, <2>1, <2>2 DEF NextPack, NextAnchor
<1>6. ASSUME EarlierValid' PROVE OneChain(earlier')
  <2>1. /\ DOMAIN verdicts' = 1..(Len(verdicts) + 1) /\ Len(verdicts) \in Nat
        /\ verdicts'[Len(verdicts) + 1] = status
        /\ \A n \in DOMAIN verdicts : n \in DOMAIN verdicts' /\ verdicts'[n] = verdicts[n]
    BY <1>2, <1>3
  <2>2. AllValid
    BY <1>6, <2>1 DEF EarlierValid, AllValid
  <2> QED
    BY <1>1, <1>3, <2>2, ValidPackJoins DEF Series
<1> QED
  BY <1>4, <1>5, <1>6 DEF Behind, OneChain, EarlierValid

(* The strengthened invariant of the series.                               *)
LEMMA SeriesInductive == SeriesSpec => []SInv
<1>1. SInv /\ Verify => SInv'
  <2>1. SUFFICES ASSUME SInv, Verify PROVE SInv'
    OBVIOUS
  <2>2. IInv'
    BY <2>1, InductiveStep DEF SInv, Verify, Next
  <2>3. prior' = prior
    BY <2>1 DEF Verify, Walk, RejectEmpty, CheckGenesis, WalkRecord, StartNonces, CheckNonce,
                RollUp
  <2> QED
    BY <2>1, <2>2, <2>3 DEF SInv, Behind, Verify, OneChain, EarlierValid
<1>2. SInv /\ NextPack => SInv'
  <2>1. Init' => IInv'
    BY InitIInv, PTL
  <2> QED
    BY <2>1, NextPackStarts, NextPackBehind DEF SInv
<1>3. SInv /\ (SeriesReturned \/ UNCHANGED seriesVars) => SInv'
  <2>1. SUFFICES ASSUME SInv, UNCHANGED seriesVars PROVE SInv'
    BY DEF SeriesReturned, Returned, seriesVars
  <2>2. IInv'
    BY <2>1, InductiveStep DEF SInv, seriesVars
  <2> QED
    BY <2>1, <2>2 DEF SInv, Behind, seriesVars, vars, OneChain, EarlierValid
<1>4. SInv /\ [SeriesNext]_seriesVars => SInv'
  BY <1>1, <1>2, <1>3 DEF SeriesNext
<1> QED
  BY <1>4, SeriesInitSInv, PTL DEF SeriesSpec

------------------------------------------------------------------------------
(* Packs VALID one by one, each anchored at the one before it, are one      *)
(* chain, however many they are.                                           *)
THEOREM ValidSeriesIsOneChain == SeriesSpec => []SeriesIsOneChain
<1>1. SInv => SeriesIsOneChain
  BY ValidPackJoins DEF SeriesIsOneChain, OneChain
<1> QED
  BY <1>1, SeriesInductive, PTL

(* In one chain from the genesis a record that recurs has been linked a     *)
(* second time on the way: of the first two equal records neither is the    *)
(* genesis, and the records they hang off are equal too.                   *)
LEMMA ReplaysRelink ==
  ASSUME NEW s \in Seq(Record), Len(s) > 0, s[1].before = NoHash, OneChain(s), ~Relinked(s),
         NEW j \in DOMAIN s, NEW k \in DOMAIN s,
         s[j].before = s[k].before, s[j].after = s[k].after
  PROVE  j = k
<1> DEFINE Recurs == {n \in DOMAIN s : \E m \in DOMAIN s :
                        m # n /\ s[m].before = s[n].before /\ s[m].after = s[n].after}
<1>1. SUFFICES ASSUME j # k PROVE FALSE
  OBVIOUS
<1>2. DOMAIN s = 1..Len(s) /\ Len(s) \in Nat
  OBVIOUS
<1>3. Recurs \subseteq Nat /\ Recurs # {}
  BY <1>1, <1>2
<1>4. PICK n \in Recurs : \A m \in Recurs : ~(<<m, n>> \in OpToRel(<, Nat))
  <2> HIDE DEF Recurs
  <2> QED
    BY <1>3, NatLessThanWellFounded, WFMin
<1>5. \A m \in Recurs : ~(m < n)
  BY <1>3, <1>4 DEF OpToRel
<1>6. PICK m \in DOMAIN s : m # n /\ s[m].before = s[n].before /\ s[m].after = s[n].after
  BY <1>4
<1>7. m \in Recurs /\ n \in DOMAIN s
  BY <1>4, <1>6
<1>8. n < m /\ m \in 2..Len(s)
  BY <1>2, <1>5, <1>6, <1>7
<1>9. s[m].before = s[m - 1].after /\ s[m - 1].after # NoHash
  <2>1. m - 1 \in 1..Len(s) /\ s[m - 1] \in Record
    BY <1>2, <1>8
  <2> QED
    BY <1>8, <2>1, ChainAssumption DEF OneChain, Record
<1>10. n \in 2..Len(s)
  <2>1. n # 1
    BY <1>6, <1>9
  <2> HIDE DEF Recurs
  <2> QED
    BY <1>2, <1>7, <2>1
<1>11. s[n - 1].after = s[m - 1].after
  BY <1>6, <1>9, <1>10 DEF OneChain
<1>12. n - 1 \in DOMAIN s /\ m - 1 \in DOMAIN s /\ n - 1 # m - 1 /\ n - 1 < n
  BY <1>2, <1>8, <1>10
<1>13. s[n - 1].before = s[m - 1].before
  BY <1>11, <1>12 DEF Relinked
<1>14. n - 1 \in Recurs
  BY <1>11, <1>12, <1>13
<1> QED
  BY <1>5, <1>12, <1>14

(* A receipt is not replayed in any later pack of a VALID series from the   *)
(* genesis, unless a record was linked twice.                              *)
THEOREM ReplaysNeedRelinking == SeriesSpec => []ReplayNeedsRelinking
<1>1. SInv => ReplayNeedsRelinking
  <2>1. SUFFICES ASSUME SInv, AllValid, FromGenesis, ~Relinked(Series),
                        NEW j \in DOMAIN Series, NEW k \in DOMAIN Series,
                        Series[j].before = Series[k].before,
                        Series[j].after = Series[k].after
                 PROVE  j = k
    BY DEF ReplayNeedsRelinking
  <2>2. Series \in Seq(Record)
    BY <2>1 DEF SInv, Behind, IInv, TypeOK, Series
  <2>3. OneChain(Series)
    BY <2>1, ValidPackJoins
  <2> HIDE DEF Series
  <2> QED
    BY <2>1, <2>2, <2>3, ReplaysRelink DEF FromGenesis
<1> QED
  BY <1>1, SeriesInductive, PTL

(* Every call of a series is a call of a verifier that keeps its promise:   *)
(* the verdict's step answers, and answers as the pack deserves.           *)
THEOREM SeriesKeepsPromise == SeriesSpec => KeepsPromise
<1>1. SeriesInit => Promise!Init
  BY DEF SeriesInit, Init, Promise!Init, Promise!Evidence, Sound, Anchored, Linked, InOrder,
         NoncesDistinct
<1>2. SInv /\ SInv' /\ [SeriesNext]_seriesVars => [Promise!Next]_Promise!vars
  <2>1. SUFFICES ASSUME SInv, SInv', [SeriesNext]_seriesVars
                 PROVE  [Promise!Next]_Promise!vars
    OBVIOUS
  <2>2. Sound \in BOOLEAN /\ Sound' \in BOOLEAN
    BY DEF Sound, Anchored, Linked, InOrder, NoncesDistinct
  <2>3. CASE Verify
    <3>1. Sound' = Sound
      BY <2>3 DEF Verify, Walk, RejectEmpty, CheckGenesis, WalkRecord, StartNonces, CheckNonce,
                  RollUp, Sound, Anchored, Linked, InOrder, Ordered, NoncesDistinct
    <3>2. status' = status \/ (status = "pending" /\ status' \in {"VALID", "INVALID"})
      BY <2>1, <2>3 DEF Verify, Walk, RejectEmpty, CheckGenesis, WalkRecord, StartNonces,
                        CheckNonce, RollUp, SInv, IInv, Position, Verdict
    <3>3. (status' = "VALID" => Sound') /\ (Sound' => status' # "INVALID")
      <4>1. (IInv => ValidMeansChained /\ SoundChainAccepted)'
        BY IInvMeansChained, IInvMeansAccepted, PTL
      <4> QED
        BY <2>1, <4>1 DEF SInv, ValidMeansChained, SoundChainAccepted
    <3> QED
      BY <3>1, <3>2, <3>3 DEF Promise!Next, Promise!Answer, Promise!vars
  <2>4. CASE NextPack
    <3>1. status \in {"VALID", "INVALID"} /\ status' = "pending"
      BY <2>1, <2>4 DEF NextPack, SInv, IInv, TypeOK, Position
    <3> QED
      BY <2>2, <3>1 DEF Promise!Next, Promise!Again, Promise!Evidence
  <2>5. CASE SeriesReturned \/ UNCHANGED seriesVars
    BY <2>5 DEF SeriesReturned, Returned, seriesVars, vars, Promise!vars, Sound, Anchored,
                Linked, InOrder, Ordered, NoncesDistinct
  <2> QED
    BY <2>1, <2>3, <2>4, <2>5 DEF SeriesNext
<1> QED
  BY <1>1, <1>2, SeriesInductive, PTL DEF SeriesSpec, KeepsPromise, Promise!Spec
==============================================================================
