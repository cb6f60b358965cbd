--------------------------- MODULE MCProxyServer ---------------------------
EXTENDS ProxyServer
CONSTANTS a, ra, x, y, z, k
MCPeers == {a, ra}
MCClients == {a}
MCOther == [e \in {a, ra} |-> IF e = a THEN ra ELSE a]
MCEvents == {x, y, z}
MCKeys == {k}
MCKeyOf == [e \in {x, y, z} |-> k]

Entry(name, val) == [name |-> name, val |-> val]

(* 65536 leaves no bit of a port, and 0 is also what a text without digits *)
(* reads as.                                                               *)
Entries ==
  {Entry("port", v) : v \in {53, 65536, Absent}} \cup
  {Entry("remote-port", v) : v \in {0, 53}} \cup
  {Entry("remote-use-udp", Absent), Entry("proxy", Absent), Entry("proxy", 53),
   Entry("remote-ip", Absent), Entry("--", Absent), Entry(Word, 53)}

Complete ==
  <<Entry("port", 53), Entry("proxy", Absent), Entry("remote-ip", 53), Entry("remote-port", 53)>>

(* Everything of up to three entries, and all that a list that chooses the *)
(* proxy may go on with in two more.                                       *)
MCArgvs ==
  UNION {[1 .. n -> Entries] : n \in 0 .. 3} \cup
  {Complete \o more : more \in UNION {[1 .. n -> Entries] : n \in 0 .. 2}}
=============================================================================
