----------------------------- MODULE EntryChecks -----------------------------
(***************************************************************************)
(* What redteam/primitives/signed_log.py checks of an entry: of its own    *)
(* log with verify_integrity, of a peer's with verify_foreign_entry.       *)
(*                                                                         *)
(* An entry is the record of what the checks read.  Hashes and ids are     *)
(* compared only, so a digest is a value, and the id derived from a key on *)
(* a network is the pair of them.  key and subject_key are None when they  *)
(* do not decode; a signature is None when it does not, else "good" or     *)
(* "bad" as Ed25519 finds it; claim is None when it is not an object.      *)
(***************************************************************************)
EXTENDS Integers, Sequences

CONSTANTS None, GENESIS

SubjectFields == {"subject_pubkey", "subject_claim", "subject_signature"}

\* formed: kind, version, nonce and claim_timestamp are as the schema says.
Claim(formed, subject, action, details) ==
  [formed |-> formed, subject |-> subject, action |-> action, details |-> details]

Entry(previous, stored, recomputed, key, signature, reporter) ==
  [version |-> 2, kind |-> "self", previous |-> previous, stored |-> stored,
   recomputed |-> recomputed, key |-> key, signature |-> signature,
   reporter |-> reporter, subject |-> reporter, action |-> None, details |-> None,
   fields |-> {}, subject_key |-> None, subject_signature |-> None, claim |-> None]

Witness(e, subject_key, subject_signature, subject, claim) ==
  [e EXCEPT !.kind = "witness", !.fields = SubjectFields, !.subject_key = subject_key,
            !.subject_signature = subject_signature, !.subject = subject, !.claim = claim]

IdOf(key, network) == <<key, network>>

---------------------------------------------------------------------------
\* The checks; each holds when it adds no error.

check_chain(e, previous) == e.previous = previous /\ e.stored = e.recomputed

decodes(e) == e.key # None /\ e.signature # None
check_signature(e) == e.key # None /\ e.signature # None => e.signature = "good"
check_identity_binding(e, network) ==
  e.key # None => e.reporter = IdOf(e.key, network)

check_claim_consistency(e) ==
  /\ e.claim # None
  /\ e.claim.formed
  /\ e.claim.subject = e.subject
  /\ e.claim.action = e.action /\ e.claim.details = e.details

check_subject_signature(e) ==
  e.subject_key # None /\ e.subject_signature # None =>
    e.claim # None /\ e.subject_signature = "good"

check_subject_identity_binding(e, network) ==
  e.subject_key # None => e.subject = IdOf(e.subject_key, network)

verify_witness_fields(e, network) ==
  /\ SubjectFields \subseteq e.fields
  /\ e.subject_key # None /\ e.subject_signature # None
  /\ check_subject_identity_binding(e, network)
  /\ check_claim_consistency(e)
  /\ check_subject_signature(e)

check_kind(e, network) ==
  \/ e.kind = "self" /\ e.fields \cap SubjectFields = {}
  \/ e.kind = "witness" /\ verify_witness_fields(e, network)

verify_foreign_entry(e, network) ==
  /\ e.version = 2
  /\ e.stored = e.recomputed
  /\ decodes(e) /\ check_signature(e) /\ check_identity_binding(e, network)
  /\ check_kind(e, network)

\* A log file is a sequence of lines, each an entry or None when it is not
\* the JSON of an object.  The chain goes on from the stored hash of the last
\* entry that has one.
stored_before(lines, i) ==
  LET Has(j) == j < i /\ lines[j] # None /\ lines[j].stored # None IN
  IF \E j \in DOMAIN lines : Has(j)
  THEN lines[CHOOSE j \in DOMAIN lines : Has(j) /\ \A l \in DOMAIN lines : Has(l) => l <= j].stored
  ELSE GENESIS

verify_integrity(lines, network) ==
  \A i \in DOMAIN lines :
    /\ lines[i] # None
    /\ lines[i].version = 2
    /\ check_chain(lines[i], stored_before(lines, i))
    /\ decodes(lines[i])
    /\ check_signature(lines[i]) /\ check_identity_binding(lines[i], network)
    /\ check_kind(lines[i], network)
=============================================================================
