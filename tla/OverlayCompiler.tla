-------------------------- MODULE OverlayCompiler --------------------------
(***************************************************************************)
(* compile_overlay (protocol/compiler.py) and the sandbox it runs in       *)
(* (protocol/sandbox.py): from the markdown descriptor of an overlay and   *)
(* the Python module a language model wrote for it, accept or refuse.      *)
(*                                                                         *)
(* A descriptor is the record of what its sections say and a source the    *)
(* record of what the compiler looks at in the syntax tree and in the      *)
(* class it defines.  Names are model values; WellFormed holds those that  *)
(* match the pattern required where they stand.                            *)
(*                                                                         *)
(* Accepting is a predicate here and an exception there, so the order of   *)
(* the checks is left out: any one that fails refuses.                     *)
(***************************************************************************)
EXTENDS Naturals, Integers, Sequences, FiniteSets

CONSTANTS
  WellFormed,       \* names in the case their place requires
  AllowedModules,   \* _ALLOWED_MODULES
  ForbiddenBuiltins, ForbiddenAttrs

Encodings == {"uint8", "uint16-be", "uint32-be", "uint64-be", "bool", "varlenH",
              "varlenH-utf8", "varlenH-msgpack", "bytes20", "bytes32"}
RequiredSections == {"Identity", "Messages", "Errors", "Dependencies",
                     "Test Vectors"}
StateTypes == {"list", "dict", "int", "str", "bool", "bytes", "set"}
ConstantTypes == {"int", "float", "bool", "str", "bytes", "list", "dict"}
ElementsOf(s) == {s[i] : i \in DOMAIN s}
Distinct(s, Key(_)) ==
  \A i, k \in DOMAIN s : Key(s[i]) = Key(s[k]) => i = k

---------------------------------------------------------------------------
\* parse_md, section by section.

IdentityParses(md) ==
  /\ {"name", "version", "description"} \subseteq md.identity
  /\ md.lifecycle \in {"peer-observer", "passive"}

\* A table with at least one row; no row twice under one name.
FieldTableParses(fields) ==
  /\ fields # <<>>
  /\ \A f \in ElementsOf(fields) :
       f.name \in WellFormed /\ f.encoding \in Encodings
  /\ LET Name(f) == f.name IN Distinct(fields, Name)

MessageParses(m) ==
  /\ m.name \in WellFormed
  /\ m.id \in 0 .. 255
  /\ FieldTableParses(m.fields)

\* Ids are told apart; names need not be.
MessagesParse(md) ==
  /\ md.messages # <<>>
  /\ \A m \in ElementsOf(md.messages) : MessageParses(m)
  /\ LET Id(m) == m.id IN Distinct(md.messages, Id)

RuntimeStateParses(md) ==
  /\ \A s \in ElementsOf(md.state) :
       s.name \in WellFormed /\ s.type \in StateTypes
  /\ LET Name(s) == s.name IN Distinct(md.state, Name)

\* fits: the JSON literal is of the declared type.
ConstantsParse(md) ==
  /\ \A c \in ElementsOf(md.constants) :
       c.name \in WellFormed /\ c.type \in ConstantTypes /\ c.fits
  /\ LET Name(c) == c.name IN Distinct(md.constants, Name)

TasksParse(md) ==
  /\ \A t \in ElementsOf(md.tasks) :
       /\ t.name \in WellFormed
       /\ t.handler \in WellFormed
       /\ t.interval > 0
  /\ LET Name(t) == t.name IN Distinct(md.tasks, Name)
  /\ LET Handler(t) == t.handler IN Distinct(md.tasks, Handler)

\* One vector is enough, whatever message it is of.
TestVectorsParse(md) == md.vectors # <<>>

parse_md(md) ==
  /\ RequiredSections \subseteq md.sections
  /\ IdentityParses(md)
  /\ MessagesParse(md)
  /\ RuntimeStateParses(md)
  /\ ConstantsParse(md)
  /\ TasksParse(md)
  /\ TestVectorsParse(md)

\* replies: the targets of the "reply:" policies in the error table.
validate_schema(md) ==
  LET names == {m.name : m \in ElementsOf(md.messages)} IN
  /\ \A v \in ElementsOf(md.vectors) : v.message \in names
  /\ md.replies \subseteq names
  /\ md.name \in WellFormed

---------------------------------------------------------------------------
\* The sandbox: what a source imports, calls, reads and is made of.

validate_ast(src) ==
  /\ src.parses
  /\ src.imports \subseteq AllowedModules
  /\ src.calls \cap ForbiddenBuiltins = {}
  /\ src.attributes \cap ForbiddenAttrs = {}
  /\ src.statements \cap {"with", "async with", "global", "nonlocal"} = {}

\* Executing a valid source may still raise, which is not a SandboxError.
safe_exec(src) == validate_ast(src) /\ src.runs

---------------------------------------------------------------------------
\* The wire format.  A value is <<"int", n>> or <<"bytes", s>>; a format is
\* what ALLOWED_ENCODINGS maps an encoding to.  JSON true and false are the
\* integers that Python and struct take them for.

IntWidth(format) ==
  CASE format = "B" -> 1 [] format = "H" -> 2 [] format = "I" -> 4
    [] format = "Q" -> 8 [] OTHER -> 0

\* Integers here are below 2^31, whose bytes above the fourth are zero.
BigEndian(n, width) ==
  [i \in 1 .. width |->
     IF width - i > 3 THEN 0 ELSE (n \div 256 ^ (width - i)) % 256]

\* struct pads a short "20s" with zeros and cuts a long one.
Fit(s, width) == [i \in 1 .. width |-> IF i <= Len(s) THEN s[i] ELSE 0]

\* Whether struct and the length prefix take the value at all.
Packable(v, format) ==
  CASE format \in {"B", "H"} -> v[1] = "int" /\ v[2] \in 0 .. 256 ^ IntWidth(format) - 1
    [] format \in {"I", "Q"} -> v[1] = "int" /\ v[2] >= 0
    [] format = "?" -> TRUE
    [] OTHER -> v[1] = "bytes"

Pack(v, format) ==
  CASE format \in {"B", "H", "I", "Q"} -> BigEndian(v[2], IntWidth(format))
    [] format = "?" -> <<IF v[2] = 0 \/ v[2] = <<>> THEN 0 ELSE 1>>
    [] format = "20s" -> Fit(v[2], 20)
    [] format = "32s" -> Fit(v[2], 32)
    [] OTHER -> BigEndian(Len(v[2]), 2) \o v[2]

\* What unpacking the bytes of Pack(v, format) gives back.
Unpacked(v, format) ==
  CASE format = "?" -> <<"int", Pack(v, format)[1]>>
    [] format = "20s" -> <<"bytes", Fit(v[2], 20)>>
    [] format = "32s" -> <<"bytes", Fit(v[2], 32)>>
    [] OTHER -> v

\* The payload class packs its fields one after the other.
PackMessage(values, formats) ==
  LET upTo[i \in 0 .. Len(values)] ==
        IF i = 0 THEN <<>> ELSE upTo[i - 1] \o Pack(values[i], formats[i])
  IN  upTo[Len(values)]

\* Encode, compare, decode, compare.
run_test_vector(formats, vector) ==
  /\ Len(formats) = Len(vector.values)
  /\ \A i \in DOMAIN formats : Packable(vector.values[i], formats[i])
  /\ PackMessage(vector.values, formats) = vector.bytes
  /\ \A i \in DOMAIN formats :
       Unpacked(vector.values[i], formats[i]) = vector.values[i]

---------------------------------------------------------------------------
\* The gates behind the sandbox.

\* A task must be registered under its name, handler and interval.  The
\* interval found in the source is truncated to an integer first: tenths.
TaskRegistered(t, src) ==
  /\ \E r \in src.registers :
       r.name = t.name /\ r.handler = t.handler /\ r.tenths \div 10 = t.interval
  /\ t.handler \in src.methods

check_structural_contract(md, src) ==
  /\ \A c \in ElementsOf(md.constants) : <<c.name, c.value>> \in src.constants
  /\ \A s \in ElementsOf(md.state) : s.name \in src.assigned
  /\ \A t \in ElementsOf(md.tasks) : TaskRegistered(t, src)
  /\ IF md.lifecycle = "peer-observer"
     THEN /\ "PeerObserver" \in src.bases
          /\ {"started", "on_peer_added", "on_peer_removed"} \subseteq src.methods
     ELSE "PeerObserver" \notin src.bases

\* formats: per message name, the format list of its payload class.
EveryPayloadThere(md, src) ==
  \A m \in ElementsOf(md.messages) : m.name \in DOMAIN src.formats

\* compile_overlay of the descriptor with the given id.  Mutant forms first.

\* Mutant: the vectors are not run.
CompilesUnchecked(md, id, src) ==
  /\ parse_md(md) /\ validate_schema(md)
  /\ safe_exec(src)
  /\ src.community_id = id
  /\ check_structural_contract(md, src)
  /\ EveryPayloadThere(md, src)

Compiles(md, id, src) ==
  /\ parse_md(md) /\ validate_schema(md)
  /\ safe_exec(src)
  /\ src.community_id = id
  /\ check_structural_contract(md, src)
  /\ EveryPayloadThere(md, src)
  /\ \A v \in ElementsOf(md.vectors) : run_test_vector(src.formats[v.message], v)
=============================================================================
