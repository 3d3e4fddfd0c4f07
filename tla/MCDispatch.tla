----------------------------- MODULE MCDispatch -----------------------------
(* A small instance of Dispatch: ARP, IPv4, an unknown type and a length,  *)
(* each with a body of its own or of the other protocol.                   *)
EXTENDS Dispatch

CONSTANTS Types, Protocols

ArpBody == [NoFrame EXCEPT !.arp_body = TRUE]
TcpBody == [NoFrame EXCEPT !.checksum_ok = TRUE, !.ihl = 5, !.time_to_live = 1, !.ours = TRUE,
                           !.protocol = TcpProtocol]
Ipv4Bodies == [type : {0}, arp_body : {FALSE}, checksum_ok : BOOLEAN, ihl : {5, 6},
               time_to_live : {0, 1}, ours : BOOLEAN, protocol : Protocols]

Bodies(type) ==
  {ArpBody, TcpBody, NoFrame} \union (IF type = Ipv4Type THEN Ipv4Bodies ELSE {})

MCFrames == UNION {{[body EXCEPT !.type = type] : body \in Bodies(type)} : type \in Types}
=============================================================================
