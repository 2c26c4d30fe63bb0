------------------------------- MODULE MCEcho -------------------------------
(***************************************************************************)
(* Two overlays for the runs: echo takes a number and a text; broken has a *)
(* vector of no message.  The language model answers for echo with one of  *)
(* two sources, one right and one that packs the number in four bytes.     *)
(***************************************************************************)
EXTENDS OverlayRegistry

CONSTANTS echo, broken

MCOverlays == {echo, broken}

Field(name, encoding) == [name |-> name, encoding |-> encoding]
MCWellFormed == {"ECHO", "count", "text", "echo", "seen", "LIMIT", "beat",
                 "send_beat"}

Echo ==
  [sections |-> RequiredSections \cup {"Tasks", "Constants", "Runtime State"},
   identity |-> {"name", "version", "description"}, name |-> "echo",
   lifecycle |-> "peer-observer",
   messages |-> <<[name |-> "ECHO", id |-> 1,
                   fields |-> <<Field("count", "uint16-be"),
                                Field("text", "varlenH-utf8")>>]>>,
   replies |-> {"ECHO"},
   state |-> <<[name |-> "seen", type |-> "list"]>>,
   constants |-> <<[name |-> "LIMIT", type |-> "int", value |-> 8, fits |-> TRUE]>>,
   tasks |-> <<[name |-> "beat", handler |-> "send_beat", interval |-> 30]>>,
   vectors |-> <<[message |-> "ECHO",
                  values |-> <<<<"int", 258>>, <<"bytes", <<104, 105>>>>>>,
                  bytes |-> <<1, 2, 0, 2, 104, 105>>]>>]

MCDescriptor ==
  [id \in MCOverlays |->
     IF id = echo THEN Echo
     ELSE [Echo EXCEPT !.vectors = <<[message |-> "PING", values |-> <<>>,
                                      bytes |-> <<>>]>>]]

\* Two answers of the model: one that passes every gate, unlike the stub in
\* what it calls, and one that packs the number in four bytes.
Source(formats, calls_) ==
  [parses |-> TRUE, runs |-> TRUE, imports |-> {"ipv8"}, calls |-> calls_,
   attributes |-> {}, statements |-> {}, community_id |-> echo,
   constants |-> {<<"LIMIT", 8>>}, assigned |-> {"seen"},
   registers |-> {[name |-> "beat", handler |-> "send_beat", tenths |-> 300]},
   methods |-> {"send_beat", "started", "on_peer_added", "on_peer_removed"},
   bases |-> {"Community", "PeerObserver"},
   formats |-> [message \in {"ECHO"} |-> formats]]

MCStub == [id \in MCOverlays |-> Source(<<"H", "varlenH">>, {})]
MCReplies == {Source(<<"H", "varlenH">>, {"len"}), Source(<<"I", "varlenH">>, {"len"})}
=============================================================================
