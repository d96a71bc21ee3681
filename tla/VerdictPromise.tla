--------------------------- MODULE VerdictPromise ----------------------------
(* What a verifier of the crate promises whoever calls it, whatever it      *)
(* walks: once it is called with some evidence it answers, once; the answer *)
(* is VALID only if the evidence is sound, and is VALID if it is flawless.  *)
(* Between the two the verifier may be stricter than soundness asks.        *)
VARIABLES flawless, sound,   \* the evidence
          called,            \* the verifier has it
          verdict

vars == <<flawless, sound, called, verdict>>

Evidence == flawless \in BOOLEAN /\ sound \in BOOLEAN /\ (flawless => sound)

Init == Evidence /\ called \in BOOLEAN /\ verdict = "pending"

\* The evidence changes while nobody is looking at it.
Transit ==
  /\ ~called
  /\ Evidence' /\ UNCHANGED <<called, verdict>>

Call == ~called /\ called' = TRUE /\ UNCHANGED <<flawless, sound, verdict>>

\* The answer is about the evidence the verifier was called with.  A verifier
\* may panic over evidence that has a flaw.
Answer ==
  /\ called /\ verdict = "pending"
  /\ verdict' \in {"VALID", "INVALID", "panicked"}
  /\ verdict' = "VALID" => sound
  /\ flawless => verdict' = "VALID"
  /\ UNCHANGED <<flawless, sound, called>>

\* The next call, with evidence of its own.
Again ==
  /\ verdict \in {"VALID", "INVALID"}
  /\ verdict' = "pending" /\ Evidence' /\ UNCHANGED called

Next == Transit \/ Call \/ Answer \/ Again

Spec == Init /\ [][Next]_vars

\* A verifier that is called does not run for ever.
FairSpec == Spec /\ WF_vars(Answer)
==============================================================================
