-------------------------- MODULE NetworkManifest --------------------------
(***************************************************************************)
(* The network manifest (protocol/manifest.py): which documents            *)
(* parse_manifest accepts, and what it reads from them.                    *)
(*                                                                         *)
(* A document is the sequence of its top sections, [name, lines].  A line  *)
(* is [kind, cells]: "key" for `- key: value', "row" and "rule" for a      *)
(* table's rows and its |---| line, "sha1" for `- sha1: hash', "step" for  *)
(* another item of a list, or "text".  The shapes the regular expressions  *)
(* ask for are sets of cells; a cell that int() takes is an integer.       *)
(***************************************************************************)
EXTENDS Integers, Sequences

CONSTANTS
  Names,      \* snake_case names
  Versions,   \* X.Y.Z
  Addresses,  \* tb1..., bc1... and dclaw1... addresses
  Hosts,      \* non-empty
  PublicKeys, \* hex of even, positive length
  MaxUint64   \* 2**64 - 1

ASSUME ManifestAssumption == MaxUint64 \in Nat /\ MaxUint64 >= 100000

REQUIRED_SECTIONS == <<"Identity", "Admission", "GenesisPeers", "DefaultOverlays">>

\* Each section that is required stands there once, in their order; others
\* may stand between them.
_check_required_sections(doc, required) ==
  /\ \A i \in DOMAIN required : \E k \in DOMAIN doc : doc[k].name = required[i]
  /\ \A i, j \in DOMAIN required, k, l \in DOMAIN doc :
       doc[k].name = required[i] /\ doc[l].name = required[j] => (k < l <=> i < j)

\* The lines under a heading, and those of a kind.
Body(doc, name) == doc[CHOOSE k \in DOMAIN doc : doc[k].name = name].lines
Of(lines, kind) == {i \in DOMAIN lines : lines[i].kind = kind}

\* Keys to values; of a key given twice the last line counts.
_parse_kv_list(lines) ==
  LET Last(key) == CHOOSE i \in Of(lines, "key") :
                     /\ lines[i].cells[1] = key
                     /\ \A j \in Of(lines, "key") : lines[j].cells[1] = key => j <= i
  IN  [key \in {lines[i].cells[1] : i \in Of(lines, "key")} |->
         lines[Last(key)].cells[2]]

_parse_identity(kv) ==
  /\ {"name", "version", "description"} \subseteq DOMAIN kv
  /\ kv["name"] \in Names
  /\ kv["version"] \in Versions

\* An integer within its bounds.
Within(n, low, high) == n \in Int /\ low <= n /\ n <= high

\* The range check of an optional field; without the field it passes.
_parse_optional_uint(kv, key, max_value) ==
  key \in DOMAIN kv => Within(kv[key], 0, max_value)

Declared(kv, key) == IF key \in DOMAIN kv THEN kv[key] ELSE 0

AdmissionPolicy(kv) ==
  [gatekeeper_address |-> kv["gatekeeper_address"],
   min_sats |-> kv["min_sats"],
   min_confirmations |-> kv["min_confirmations"],
   bootstrap_cap_sats |-> Declared(kv, "bootstrap_cap_sats"),
   max_agents_per_seedbox |-> Declared(kv, "max_agents_per_seedbox"),
   seedbox_cost_sats |-> Declared(kv, "seedbox_cost_sats")]

\* The minimum has no upper bound; a cap given is at least the minimum.
_parse_admission(kv) ==
  /\ {"gatekeeper_address", "min_sats", "min_confirmations"} \subseteq DOMAIN kv
  /\ kv["gatekeeper_address"] \in Addresses
  /\ kv["min_sats"] \in Int /\ kv["min_sats"] >= 1
  /\ Within(kv["min_confirmations"], 0, 65535)
  /\ _parse_optional_uint(kv, "bootstrap_cap_sats", MaxUint64)
  /\ Declared(kv, "bootstrap_cap_sats") # 0 =>
       Declared(kv, "bootstrap_cap_sats") >= kv["min_sats"]
  /\ _parse_optional_uint(kv, "max_agents_per_seedbox", 65535)
  /\ _parse_optional_uint(kv, "seedbox_cost_sats", MaxUint64)

\* The first row is the header, every other is a peer with an address of its
\* own; there is one.
IsHeader(lines, i) == \A j \in Of(lines, "row") : i <= j
_parse_genesis_peers(lines) ==
  /\ \E i \in Of(lines, "row") : ~ IsHeader(lines, i)
  /\ \A i \in Of(lines, "row") :
       IF IsHeader(lines, i) THEN lines[i].cells = <<"host", "port", "pubkey_hex">>
       ELSE /\ Len(lines[i].cells) = 3
            /\ lines[i].cells[1] \in Hosts
            /\ Within(lines[i].cells[2], 1024, 65535)
            /\ lines[i].cells[3] \in PublicKeys
            /\ \A j \in Of(lines, "row") \ {i} :
                 \/ IsHeader(lines, j)
                 \/ lines[j].cells[1] # lines[i].cells[1]
                 \/ lines[j].cells[2] # lines[i].cells[2]

GenesisPeers(lines) ==
  {[host |-> lines[i].cells[1], port |-> lines[i].cells[2],
    pubkey_hex |-> lines[i].cells[3]] :
     i \in {k \in Of(lines, "row") : ~ IsHeader(lines, k)}}

_parse_default_overlays(lines) ==
  \A i, j \in Of(lines, "sha1") : lines[i].cells = lines[j].cells => i = j

DefaultHashes(lines) ==
  LET Hash(line) == line.kind = "sha1"
      found == SelectSeq(lines, Hash)
  IN  [i \in DOMAIN found |-> found[i].cells]

Kv(doc, section) == _parse_kv_list(Body(doc, section))

\* Does parse_manifest return, and what.
Parses(doc) ==
  /\ _check_required_sections(doc, REQUIRED_SECTIONS)
  /\ _parse_identity(Kv(doc, "Identity"))
  /\ _parse_admission(Kv(doc, "Admission"))
  /\ _parse_genesis_peers(Body(doc, "GenesisPeers"))
  /\ _parse_default_overlays(Body(doc, "DefaultOverlays"))

parse_manifest(doc) ==
  [admission |-> AdmissionPolicy(Kv(doc, "Admission")),
   genesis_peers |-> GenesisPeers(Body(doc, "GenesisPeers")),
   default_overlays |-> DefaultHashes(Body(doc, "DefaultOverlays"))]
=============================================================================
