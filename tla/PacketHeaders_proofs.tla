------------------------- MODULE PacketHeaders_proofs -------------------------
(***************************************************************************)
(* The bounds of the parser and of the rewrite, for every frame.           *)
(***************************************************************************)
EXTENDS PacketHeaders, TLAPS

USE DEF TcpMissing, UdpMisfits, TotalMisfits, Cleared

(* The parser stays inside the data, and what it accepts nests properly. *)
Sound(f, m) ==
  /\ m.extent <= f.data_len
  /\ m.result = "ok" =>
       /\ f.proto \in {"tcp", "udp"} /\ ~ f.fragment
       /\ m.l4_offset = ETHER + m.l3_len
       /\ m.l3_len \in Int /\ IPV4 <= m.l3_len /\ m.l3_len <= 60
       /\ m.l4_len \in Int /\ UDP <= m.l4_len /\ m.l4_len <= 60
       /\ m.l4_offset + m.l4_len <= ETHER + f.total_len
       /\ ETHER + f.total_len <= f.data_len
       /\ f.proto = "udp" => m.l3_len + f.datagram_len <= f.total_len

(* The types of the fields the arithmetic is about *)
LEMMA FrameFields ==
  ASSUME NEW f \in FrameType
  PROVE  /\ f.total_len \in Nat /\ f.data_len \in Nat /\ f.datagram_len \in Nat
         /\ f.ihl_words \in 0 .. 15 /\ f.data_offset_words \in 0 .. 15
         /\ f.fragment \in BOOLEAN
<1>1. f.total_len \in Uint16 /\ f.data_len \in Uint16 /\ f.datagram_len \in Uint16
  BY DEF FrameType
<1>2. f.ihl_words \in 0 .. 15 /\ f.data_offset_words \in 0 .. 15
  BY DEF FrameType
<1>3. f.fragment \in BOOLEAN
  BY DEF FrameType
<1>4. Uint16 \subseteq Nat
  BY DEF Uint16
<1>5. QED
  BY <1>1, <1>2, <1>3, <1>4

(* A conversion to uint16_t keeps what is not above another uint16_t. *)
LEMMA NoWrap ==
  ASSUME NEW limit \in Uint16, NEW n \in Int, 0 <= n, n <= limit
  PROVE  AsUint16(n) = n
<1>1. UINT16_MAX \in Nat
  BY DEF UINT16_MAX
<1>2. limit \in Nat /\ limit <= UINT16_MAX
  BY <1>1 DEF Uint16
<1>3. n <= UINT16_MAX
  BY <1>1, <1>2
<1>4. n < 65536
  BY <1>3 DEF UINT16_MAX
<1>5. n % 65536 = n
  BY <1>4
<1>6. QED
  BY <1>5 DEF AsUint16, UINT16_MAX

(* The fields of a Parsed record, for the provers *)
LEMMA ParsedFields ==
  ASSUME NEW r, NEW e, NEW a, NEW b
  PROVE  LET p == Parsed(r, e, a, b)
         IN /\ p.result = r /\ p.extent = e /\ p.l3_len = a /\ p.l4_len = b
            /\ p.l4_offset = ETHER + a
BY DEF Parsed

(* dp_parse_tcp, called with the header lengths that dp_parse_ipv4 checked *)
LEMMA TcpSound ==
  ASSUME NEW f \in FrameType, NEW l3 \in Int, IPV4 <= l3, l3 <= 60,
         l3 <= f.total_len, ETHER + f.total_len <= f.data_len,
         f.proto = "tcp", ~ f.fragment
  PROVE  Sound(f, dp_parse_tcp(f, f.total_len - l3, l3))
<1> USE DEF ETHER, IPV4, TCP, UDP
<1>1. f.total_len \in Int /\ f.data_len \in Int /\ f.data_offset_words \in 0 .. 15
  BY FrameFields
<1>2. CASE f.total_len - l3 < TCP
  BY <1>1, <1>2, ParsedFields DEF dp_parse_tcp, Sound
<1>3. CASE ~ (f.total_len - l3 < TCP)
           /\ (f.data_offset_words < 5 \/ f.data_offset_words * 4 > f.total_len - l3)
  BY <1>1, <1>3, ParsedFields DEF dp_parse_tcp, Sound
<1>4. CASE ~ (f.total_len - l3 < TCP)
           /\ ~ (f.data_offset_words < 5 \/ f.data_offset_words * 4 > f.total_len - l3)
  BY <1>1, <1>4, ParsedFields DEF dp_parse_tcp, Sound
<1>5. QED
  BY <1>2, <1>3, <1>4

(* dp_parse_udp likewise *)
LEMMA UdpSound ==
  ASSUME NEW f \in FrameType, NEW l3 \in Int, IPV4 <= l3, l3 <= 60,
         l3 <= f.total_len, ETHER + f.total_len <= f.data_len,
         f.proto = "udp", ~ f.fragment
  PROVE  Sound(f, dp_parse_udp(f, f.total_len - l3, l3))
<1> USE DEF ETHER, IPV4, TCP, UDP
<1>1. f.total_len \in Int /\ f.data_len \in Int /\ f.datagram_len \in Int
  BY FrameFields
<1>2. CASE f.total_len - l3 < UDP
  BY <1>1, <1>2, ParsedFields DEF dp_parse_udp, Sound
<1>3. CASE ~ (f.total_len - l3 < UDP)
           /\ (f.datagram_len < UDP \/ f.datagram_len > f.total_len - l3)
  BY <1>1, <1>3, ParsedFields DEF dp_parse_udp, Sound
<1>4. CASE ~ (f.total_len - l3 < UDP)
           /\ ~ (f.datagram_len < UDP \/ f.datagram_len > f.total_len - l3)
  BY <1>1, <1>4, ParsedFields DEF dp_parse_udp, Sound
<1>5. QED
  BY <1>2, <1>3, <1>4

(* dp_parse_packet, on every frame *)
LEMMA ParseSound ==
  ASSUME NEW f \in FrameType
  PROVE  Sound(f, dp_parse_packet(f))
<1> USE DEF ETHER, IPV4
<1>1. /\ f.total_len \in Int /\ f.data_len \in Nat /\ f.ihl_words \in 0 .. 15
      /\ f.fragment \in BOOLEAN
  BY FrameFields
<1> DEFINE early == \/ f.nb_segs # 1 \/ f.packet_len # f.data_len
                    \/ f.packet_len > UINT16_MAX \/ f.data_len < ETHER
                    \/ f.ether_type # "ipv4"
<1>2. CASE early
  <2>1. dp_parse_packet(f) \in {Parsed("unsupported", 0, 0, 0),
                                Parsed("malformed", 0, 0, 0),
                                Parsed("unsupported", ETHER, 0, 0)}
        /\ (dp_parse_packet(f) = Parsed("unsupported", ETHER, 0, 0)
              => f.data_len >= ETHER)
    BY <1>1, <1>2, ParsedFields DEF dp_parse_packet
  <2>2. QED
    BY <1>1, <2>1, ParsedFields DEF Sound
<1>3. CASE ~ early
  <2> DEFINE room == f.data_len - ETHER
             bad == \/ f.version # 4 \/ f.ihl_words < 5 \/ f.ihl_words * 4 > room
                    \/ f.total_len < f.ihl_words * 4 \/ f.total_len > room
  <2>1. dp_parse_packet(f) = dp_parse_ipv4(f) /\ f.data_len >= ETHER
    BY <1>1, <1>3 DEF dp_parse_packet
  <2>2. CASE f.data_len < ETHER + IPV4
    BY <1>1, <2>1, <2>2, ParsedFields DEF dp_parse_ipv4, Sound
  <2>3. CASE ~ (f.data_len < ETHER + IPV4) /\ bad
    BY <1>1, <2>1, <2>3, ParsedFields DEF dp_parse_ipv4, Sound
  <2>4. CASE ~ (f.data_len < ETHER + IPV4) /\ ~ bad
    <3>1. /\ f.ihl_words * 4 \in Int /\ IPV4 <= f.ihl_words * 4
          /\ f.ihl_words * 4 <= 60 /\ f.ihl_words * 4 <= f.total_len
          /\ ETHER + f.total_len <= f.data_len
      BY <1>1, <2>4
    <3>2. AsUint16(f.total_len - f.ihl_words * 4) = f.total_len - f.ihl_words * 4
      <4>1. f.total_len \in Uint16
        BY DEF FrameType
      <4>2. /\ f.total_len - f.ihl_words * 4 \in Int
            /\ 0 <= f.total_len - f.ihl_words * 4
            /\ f.total_len - f.ihl_words * 4 <= f.total_len
        BY <1>1, <3>1
      <4>3. QED
        BY <4>1, <4>2, NoWrap
    <3>3. CASE f.fragment
      BY <1>1, <2>1, <2>4, <3>3, ParsedFields DEF dp_parse_ipv4, Sound
    <3>4. CASE ~ f.fragment /\ f.proto = "tcp"
      <4>1. dp_parse_packet(f) = dp_parse_tcp(f, f.total_len - f.ihl_words * 4,
                                             f.ihl_words * 4)
        BY <2>1, <2>4, <3>2, <3>4 DEF dp_parse_ipv4
      <4>2. QED
        BY <3>1, <3>4, <4>1, TcpSound
    <3>5. CASE ~ f.fragment /\ f.proto = "udp"
      <4>1. dp_parse_packet(f) = dp_parse_udp(f, f.total_len - f.ihl_words * 4,
                                             f.ihl_words * 4)
        BY <2>1, <2>4, <3>2, <3>5 DEF dp_parse_ipv4
      <4>2. QED
        BY <3>1, <3>5, <4>1, UdpSound
    <3>6. CASE ~ f.fragment /\ f.proto \notin {"tcp", "udp"}
      BY <1>1, <2>1, <2>4, <3>6, ParsedFields DEF dp_parse_ipv4, Sound
    <3>7. QED
      BY <3>3, <3>4, <3>5, <3>6
  <2>5. QED
    BY <2>2, <2>3, <2>4
<1>4. QED
  BY <1>2, <1>3

(* The total_length that a UDP packet is shrunk to does not wrap. *)
LEMMA ShrunkLength ==
  ASSUME NEW f \in FrameType, NEW m, Sound(f, m), m.result = "ok", f.proto = "udp"
  PROVE  AsUint16(m.l3_len + f.datagram_len) = m.l3_len + f.datagram_len
<1>1. f.total_len \in Uint16 /\ f.datagram_len \in Nat
  BY FrameFields DEF FrameType
<1>2. /\ m.l3_len \in Int /\ IPV4 <= m.l3_len
      /\ m.l3_len + f.datagram_len <= f.total_len
  BY DEF Sound
<1>3. m.l3_len + f.datagram_len \in Int /\ 0 <= m.l3_len + f.datagram_len
  BY <1>1, <1>2 DEF IPV4
<1>4. QED
  BY <1>1, <1>2, <1>3, NoWrap

(* What the state knows of the packet at each point of dp_process_packet *)
HeadersInv ==
  /\ frame \in Frames
  /\ pc \in {"parse", "act", "dropped", "rewritten"}
  /\ pc = "parse" => meta = Parsed("none", 0, 0, 0)
  /\ pc # "parse" => meta = dp_parse_packet(frame)
  /\ pc = "act" => meta.result = "ok"
  /\ pc # "rewritten" => packet = NoPacket
  /\ pc = "rewritten" =>
       meta.result = "ok" /\ \E mask \in SUBSET Fields : packet = dp_apply_action(frame, meta, mask)

(* A packet that is parsed and rewritten has this history. *)
LEMMA HeadersInvariance == Spec => []HeadersInv
<1>1. Init => HeadersInv
  BY DEF Init, HeadersInv
<1>2. HeadersInv /\ [Next]_vars => HeadersInv'
  <2> SUFFICES ASSUME HeadersInv, [Next]_vars PROVE HeadersInv'
    OBVIOUS
  <2>1. CASE Parse
    BY <2>1 DEF Parse, HeadersInv
  <2>2. CASE Rewrite
    BY <2>2 DEF Rewrite, HeadersInv
  <2>3. CASE UNCHANGED vars
    BY <2>3 DEF vars, HeadersInv
  <2>4. QED
    BY <2>1, <2>2, <2>3 DEF Next
<1>3. QED
  BY <1>1, <1>2, PTL DEF Spec

(* In every reachable state the parser's result is sound. *)
LEMMA MetaSound ==
  ASSUME HeadersInv
  PROVE  Sound(frame, meta)
<1>1. frame \in FrameType
  BY FramesAssumption DEF HeadersInv
<1>2. CASE pc = "parse"
  <2>1. frame.data_len \in Nat
    BY <1>1, FrameFields
  <2>2. QED
    BY <1>2, <2>1, ParsedFields DEF HeadersInv, Sound
<1>3. CASE pc # "parse"
  BY <1>1, <1>3, ParseSound DEF HeadersInv
<1>4. QED
  BY <1>2, <1>3

(* For every frame, of any length and with any header contents, the parser  *)
(* reads only bytes of the mbuf's data.                                     *)
THEOREM ParserBounds == Spec => []ReadsInBounds
<1>1. HeadersInv => ReadsInBounds
  BY MetaSound DEF Sound, ReadsInBounds
<1>2. QED
  BY <1>1, HeadersInvariance, PTL

(* DP_PARSE_OK means that the headers nest inside the data. *)
THEOREM ParserNesting == Spec => []MetaUsable
<1>1. HeadersInv => MetaUsable
  BY MetaSound DEF Sound, MetaUsable
<1>2. QED
  BY <1>1, HeadersInvariance, PTL

(* dp_apply_action and its checksum helpers stay inside the data. *)
THEOREM RewriteBounds == Spec => []RewriteInBounds
<1>1. HeadersInv => RewriteInBounds
  <2> SUFFICES ASSUME HeadersInv PROVE packet.extent <= frame.data_len
    BY DEF RewriteInBounds
  <2>1. frame \in FrameType /\ Sound(frame, meta)
    BY FramesAssumption, MetaSound DEF HeadersInv
  <2>2. frame.data_len \in Nat /\ frame.total_len \in Nat /\ frame.datagram_len \in Nat
    BY <2>1, FrameFields
  <2>3. CASE pc # "rewritten"
    BY <2>2, <2>3 DEF HeadersInv, NoPacket
  <2>4. CASE pc = "rewritten"
    <3>1. PICK mask \in SUBSET Fields : packet = dp_apply_action(frame, meta, mask)
      BY <2>4 DEF HeadersInv
    <3>2. packet.extent = ETHER + IF frame.proto = "udp"
                                  THEN meta.l3_len + frame.datagram_len
                                  ELSE frame.total_len
      <4>1. packet.extent = ETHER + IF frame.proto = "udp"
                                    THEN AsUint16(meta.l3_len + frame.datagram_len)
                                    ELSE frame.total_len
        BY <3>1 DEF dp_apply_action, Ipv4Header
      <4>2. QED
        BY <2>1, <2>4, <4>1, ShrunkLength DEF HeadersInv
    <3>3. /\ meta.l3_len \in Int /\ ETHER + frame.total_len <= frame.data_len
          /\ frame.proto = "udp" => meta.l3_len + frame.datagram_len <= frame.total_len
      BY <2>1, <2>4 DEF HeadersInv, Sound
    <3>4. QED
      BY <2>2, <3>2, <3>3 DEF ETHER
  <2>5. QED
    BY <2>3, <2>4
<1>2. QED
  BY <1>1, HeadersInvariance, PTL

(* After a rewrite both checksums are over the final contents, with their   *)
(* own fields zero.                                                         *)
THEOREM FreshChecksums == Spec => []ChecksumsFresh
<1>1. HeadersInv => ChecksumsFresh
  <2> SUFFICES ASSUME HeadersInv, pc = "rewritten" PROVE ChecksumsFresh
    BY DEF ChecksumsFresh
  <2>1. PICK mask \in SUBSET Fields : packet = dp_apply_action(frame, meta, mask)
    BY DEF HeadersInv
  <2> DEFINE addresses == mask \cap {"src_ipv4", "dst_ipv4"}
             ports == mask \cap {"src_port", "dst_port"}
  <2>2. frame \in FrameType /\ meta.result = "ok" /\ Sound(frame, meta)
    BY FramesAssumption, MetaSound DEF HeadersInv
  <2>3. frame.datagram_len \in Int /\ meta.l3_len \in Int
    BY <2>2, FrameFields DEF Sound
  <2>4. /\ packet.header = Ipv4Header(addresses, frame.total_len, "summed")
        /\ packet.l4 = L4Header(ports, "summed")
        /\ packet.ipv4_sum = Ipv4Header(addresses, frame.total_len, "zero")
    BY <2>1 DEF dp_apply_action, Ipv4Header, L4Header, rte_ipv4_cksum
  <2>5. packet.l4_sum.addresses = addresses /\ packet.l4_sum.l4 = L4Header(ports, "zero")
    BY <2>1 DEF dp_apply_action, Ipv4Header, L4Header, rte_ipv4_udptcp_cksum
  <2>6. packet.l4_sum.length = IF frame.proto = "udp" THEN frame.datagram_len
                               ELSE frame.total_len - meta.l3_len
    <3>1. CASE frame.proto = "udp"
      <4>1. packet.l4_sum.length = AsUint16(meta.l3_len + frame.datagram_len) - meta.l3_len
        BY <2>1, <3>1 DEF dp_apply_action, Ipv4Header, rte_ipv4_udptcp_cksum
      <4>2. QED
        BY <2>2, <2>3, <3>1, <4>1, ShrunkLength
    <3>2. CASE frame.proto # "udp"
      BY <2>1, <3>2 DEF dp_apply_action, Ipv4Header, rte_ipv4_udptcp_cksum
    <3>3. QED
      BY <3>1, <3>2
  <2>7. packet.l4_sum = [addresses |-> packet.l4_sum.addresses, l4 |-> packet.l4_sum.l4,
                         length |-> packet.l4_sum.length]
    BY <2>1 DEF dp_apply_action, rte_ipv4_udptcp_cksum
  <2>8. /\ packet.ipv4_sum = [packet.header EXCEPT !.hdr_checksum = "zero"]
        /\ packet.l4_sum.l4 = [packet.l4 EXCEPT !.cksum = "zero"]
    BY <2>4, <2>5 DEF Ipv4Header, L4Header
  <2>9. /\ packet.header.addresses = addresses
        /\ packet.header.total_length = frame.total_len
        /\ packet.header.hdr_checksum = "summed" /\ packet.l4.cksum = "summed"
    BY <2>4 DEF Ipv4Header, L4Header
  <2>10. packet.l4_sum = [addresses |-> packet.header.addresses,
                          l4 |-> [packet.l4 EXCEPT !.cksum = "zero"],
                          length |-> IF frame.proto = "udp" THEN frame.datagram_len
                                     ELSE packet.header.total_length - meta.l3_len]
    BY <2>5, <2>6, <2>7, <2>8, <2>9
  <2>11. QED
    BY <2>8, <2>9, <2>10 DEF ChecksumsFresh
<1>2. QED
  BY <1>1, HeadersInvariance, PTL
=============================================================================
