-------------------------- MODULE StandaloneVerify --------------------------
(***************************************************************************)
(* The verifier anybody may run on a log file                              *)
(* (redteam/primitives/verify.py): written again on purpose, without a     *)
(* line of signed_log.py, so that a mistake of one shows against the       *)
(* other.  It reads no version, goes on from the hash it recomputed and    *)
(* stops at the first line that is not an entry.                           *)
(***************************************************************************)
EXTENDS EntryChecks

ChainHolds(e, prev_hash) == e.previous = prev_hash /\ e.recomputed = e.stored

\* Ed25519 over the entry without entry_hash and signature.
SignatureHolds(e) == e.key # None => (e.signature # None => e.signature = "good")
BindingHolds(e, network) == e.key # None => <<e.key, network>> = e.reporter

SubjectBindingHolds(e, network) ==
  e.subject_key # None => <<e.subject_key, network>> = e.subject

ClaimHolds(e) ==
  IF e.claim = None THEN FALSE
  ELSE /\ e.claim.formed
       /\ e.subject = e.claim.subject
       /\ e.action = e.claim.action /\ e.details = e.claim.details

SubjectSignatureHolds(e) ==
  \/ e.subject_key = None \/ e.subject_signature = None
  \/ e.claim # None /\ e.subject_signature = "good"

WitnessHolds(e, network) ==
  IF ~ (SubjectFields \subseteq e.fields) THEN FALSE
  ELSE /\ e.subject_key # None /\ e.subject_signature # None
       /\ SubjectBindingHolds(e, network) /\ ClaimHolds(e) /\ SubjectSignatureHolds(e)

verify_entry(e, prev_hash, network) ==
  /\ ChainHolds(e, prev_hash)
  /\ e.key # None /\ e.signature # None
  /\ SignatureHolds(e) /\ BindingHolds(e, network)
  /\ IF e.kind = "self" THEN \A f \in SubjectFields : f \notin e.fields
     ELSE e.kind = "witness" /\ WitnessHolds(e, network)

\* The lines up to the first that is not an entry.
Scanned(lines) ==
  {i \in DOMAIN lines : \A j \in 1..i : lines[j] # None}

\* Exit code 0: the file reads to its end and nothing is wrong.
verify(lines, network) ==
  /\ \A i \in DOMAIN lines : lines[i] # None
  /\ \A i \in Scanned(lines) :
       verify_entry(lines[i], IF i = 1 THEN GENESIS ELSE lines[i - 1].recomputed, network)
=============================================================================
