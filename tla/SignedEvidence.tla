---------------------------- MODULE SignedEvidence ---------------------------
(* The two artefacts that are signed outside of a proof pack, a set of      *)
(* provenance rows (Provenance) and an export (SignedExport), as an auditor *)
(* meets them: with the same directory of keys of the same platform, whose  *)
(* signatures on the one say nothing about the other.  The auditor is       *)
(* handed one of them, and the verifier of the other one has nothing to do. *)
EXTENDS Keys, AuditFrame

CONSTANTS Signer, Directories, Foreign,
          Org, Event, Pointer, Id, SealedSets, NoOrg,   \* of provenance rows
          Content, Layout, SealedExports,               \* of exports
          Nothing                                       \* what is not in use

VARIABLES subject,    \* what the auditor was handed
          directory, sealed, shipped,
          signed, unsigned

P == INSTANCE Provenance WITH records <- shipped
X == INSTANCE SignedExport

ASSUME EvidenceAssumption ==
  P!ProvenanceAssumption /\ X!ExportAssumption

vars == <<subject, directory, expected, sealed, shipped, altered,
          pc, i, signed, unsigned, steps, status>>

Init ==
  \/ subject = "provenance" /\ P!Init
  \/ /\ subject = "export" /\ X!Init
     /\ expected = Nothing /\ i = Nothing /\ signed = Nothing /\ unsigned = Nothing

Next ==
  \/ subject = "provenance" /\ P!Next /\ UNCHANGED subject
  \/ subject = "export" /\ X!Next /\ UNCHANGED <<subject, expected, i, signed, unsigned>>

Spec == Init /\ [][Next]_vars

------------------------------------------------------------------------------
(* Every variable of the verifier at work stays in its domain.             *)
TypeOK == IF subject = "provenance" THEN P!TypeOK ELSE X!TypeOK

(* Of the provenance rows that say they are signed, those the platform's    *)
(* signature does not vouch for are accused, and no others; the rest of the *)
(* rows is labelled as unverified, whatever became of it.                  *)
RowsBlamedExactly == subject = "provenance" => P!BlameIsExact

(* Rows without a signature earn no verdict and cause none.                *)
UnsignedNeverPromoted == subject = "provenance" => P!UnsignedNeverPromoted

(* The signature step of a row speaks of the text that was shipped.        *)
SignatureStepIsForensic == subject = "provenance" => P!SignatureStepIsForensic

(* An export is VALID exactly when it is one the platform sealed.          *)
ExportValidIffAuthentic == subject = "export" => X!ValidIffAuthentic

(* An altered field of an export is accused in that field.                 *)
ExportDiagnosisPinpoints == subject = "export" => X!DiagnosisPinpoints
==============================================================================
