------------------------------ MODULE MCPeerSync ------------------------------
\* Peer 1 writes nothing, may fail for ever and is listed first; peer 2 answers,
\* its second entry may also reach the server and the watchdog, and its third
\* one does not verify.
EXTENDS PeerSync

CONSTANTS net, other

MCMaxLog == <<0, 3>>
MCDoubled == <<{}, {2}>>

\* The k-th entry of p, on a network; the digest of an entry is its number.
Signed(p, k, network) == Entry(k - 1, k, k, p, "good", IdOf(p, network))
Witnessed(p, k, signature) ==
  Witness(Signed(p, k, net), 3, signature, IdOf(3, net),
          Claim(TRUE, IdOf(3, net), None, None))
MCContent ==
  <<<<Witnessed(1, 1, "good")>>,
    <<Signed(2, 1, net), Signed(2, 2, net), Witnessed(2, 3, "bad")>>>>

\* Files of up to two lines, one thing wrong in each.
Lines ==
  LET e(k) == Signed(1, k, net)
      w(k) == Witnessed(1, k, "good")
      Mistaken(k) ==
        {[e(k) EXCEPT !.stored = None], [e(k) EXCEPT !.stored = 7],
         [e(k) EXCEPT !.previous = 7], [e(k) EXCEPT !.key = None],
         [e(k) EXCEPT !.signature = None], [e(k) EXCEPT !.signature = "bad"],
         [e(k) EXCEPT !.reporter = IdOf(1, other)], [e(k) EXCEPT !.kind = "none"],
         [e(k) EXCEPT !.fields = {"subject_claim"}],
         [w(k) EXCEPT !.fields = {"subject_claim"}], [w(k) EXCEPT !.claim = None],
         [w(k) EXCEPT !.claim.formed = FALSE], [w(k) EXCEPT !.claim.subject = IdOf(3, other)],
         [w(k) EXCEPT !.claim.action = 1], [w(k) EXCEPT !.subject_key = None],
         [w(k) EXCEPT !.subject_signature = "bad"], [w(k) EXCEPT !.subject = IdOf(1, net)]}
  IN {None} \cup UNION {{e(k), w(k)} \cup Mistaken(k) : k \in 1..2}

Files == {<<>>} \cup {<<x>> : x \in Lines} \cup (Lines \X Lines)

\* The two verifiers agree on these files, some of which they accept, and
\* an entry of an accepted file verifies on its own.
ASSUME VerifiersCompared ==
  /\ \A lines \in Files :
       /\ verify(lines, net) <=> verify_integrity(lines, net)
       /\ verify(lines, net) =>
            \A i \in DOMAIN lines : verify_foreign_entry(lines[i], net)
  /\ <<Signed(1, 1, net), Witnessed(1, 2, "good")>> \in Files
  /\ verify(<<Signed(1, 1, net), Witnessed(1, 2, "good")>>, net)
=============================================================================
