---------------------------- MODULE PacketHeaders ----------------------------
(***************************************************************************)
(* The parser and the rewrite action on one packet.  A frame is given by   *)
(* its lengths and by the header fields that the control flow depends on;  *)
(* what is stored at an address or port is abstracted to whether the       *)
(* action has replaced it.  extent is the number of bytes from the start   *)
(* of the mbuf that the code has looked at or written.                     *)
(***************************************************************************)
EXTENDS Integers

CONSTANT Frames     \* the frames under consideration

ETHER == 14         \* sizeof(struct rte_ether_hdr)
IPV4 == 20          \* sizeof(struct rte_ipv4_hdr)
TCP == 20           \* sizeof(struct rte_tcp_hdr)
UDP == 8            \* sizeof(struct rte_udp_hdr)
UINT16_MAX == 65535

Uint16 == 0 .. UINT16_MAX

(* The conversion of an int to uint16_t *)
AsUint16(n) == n % (UINT16_MAX + 1)

Fields == {"src_ipv4", "dst_ipv4", "src_port", "dst_port"}

(* version, ihl_words and data_off are 4 bits wide; fragment stands for a   *)
(* more-fragments flag or an offset, proto and ether_type for the values    *)
(* the code compares.                                                       *)
FrameType ==
  [nb_segs : Nat, packet_len : Nat, data_len : Uint16, ether_type : {"ipv4", "other"},
   version : 0 .. 15, ihl_words : 0 .. 15, total_len : Uint16, fragment : BOOLEAN,
   proto : {"tcp", "udp", "other"}, data_offset_words : 0 .. 15, datagram_len : Uint16]

ASSUME FramesAssumption == Frames \subseteq FrameType

-----------------------------------------------------------------------------
(* dp_parser.c *)

(* The outcome of the parser, with the bytes it read and the lengths of meta *)
Parsed(result, extent, l3_len, l4_len) ==
  [result |-> result, extent |-> extent, l3_len |-> l3_len, l4_offset |-> ETHER + l3_len,
   l4_len |-> l4_len]

(* Mutation: the TCP header is read without a check that it is there. *)
TcpAssumed(payload_len) == FALSE

TcpMissing(payload_len) == payload_len < TCP

dp_parse_tcp(f, payload_len, l3_len) ==
  LET l4 == ETHER + l3_len
      header_len == f.data_offset_words * 4
  IN IF TcpMissing(payload_len) THEN Parsed("malformed", l4, l3_len, 0)
     ELSE IF f.data_offset_words < 5 \/ header_len > payload_len
          THEN Parsed("malformed", l4 + TCP, l3_len, 0)
     ELSE Parsed("ok", l4 + TCP, l3_len, header_len)

(* Mutation: the length of the datagram is trusted. *)
UdpTrusted(datagram_len, payload_len) == datagram_len < UDP

UdpMisfits(datagram_len, payload_len) == datagram_len < UDP \/ datagram_len > payload_len

dp_parse_udp(f, payload_len, l3_len) ==
  LET l4 == ETHER + l3_len
  IN IF payload_len < UDP THEN Parsed("malformed", l4, l3_len, 0)
     ELSE IF UdpMisfits(f.datagram_len, payload_len)
          THEN Parsed("malformed", l4 + UDP, l3_len, 0)
     ELSE Parsed("ok", l4 + UDP, l3_len, UDP)

(* Mutation: a total_length below the header length is let through, and the  *)
(* length of the payload wraps.                                              *)
TotalUnderflows(f, ihl_bytes, room) == f.total_len > room

TotalMisfits(f, ihl_bytes, room) == f.total_len < ihl_bytes \/ f.total_len > room

dp_parse_ipv4(f) ==
  LET ihl_bytes == f.ihl_words * 4
      room == f.data_len - ETHER
      read == ETHER + IPV4
      payload_len == AsUint16(f.total_len - ihl_bytes)
  IN IF f.data_len < ETHER + IPV4 THEN Parsed("malformed", ETHER, 0, 0)
     ELSE IF \/ f.version # 4 \/ f.ihl_words < 5 \/ ihl_bytes > room
             \/ TotalMisfits(f, ihl_bytes, room)
          THEN Parsed("malformed", read, 0, 0)
     ELSE IF f.fragment THEN Parsed("unsupported", read, 0, 0)
     ELSE IF f.proto = "tcp" THEN dp_parse_tcp(f, payload_len, ihl_bytes)
     ELSE IF f.proto = "udp" THEN dp_parse_udp(f, payload_len, ihl_bytes)
     ELSE Parsed("unsupported", read, ihl_bytes, 0)

dp_parse_packet(f) ==
  IF f.nb_segs # 1 THEN Parsed("unsupported", 0, 0, 0)
  ELSE IF \/ f.packet_len # f.data_len \/ f.packet_len > UINT16_MAX
          \/ f.data_len < ETHER
       THEN Parsed("malformed", 0, 0, 0)
  ELSE IF f.ether_type # "ipv4" THEN Parsed("unsupported", ETHER, 0, 0)
  ELSE dp_parse_ipv4(f)

-----------------------------------------------------------------------------
(* dp_action.c, REWRITE.  A header is represented by the addresses or ports  *)
(* that were replaced, its total_length, and what its checksum field holds:  *)
(* "received", "zero" or "summed".  A checksum is represented by what it was *)
(* computed over, the contents of its own field included.                    *)

Ipv4Header(addresses, total_length, hdr_checksum) ==
  [addresses |-> addresses, total_length |-> total_length, hdr_checksum |-> hdr_checksum]

L4Header(ports, cksum) == [ports |-> ports, cksum |-> cksum]

(* It sums the header as it is. *)
rte_ipv4_cksum(header) == header

(* It sums the pseudo-header and the L4 bytes as they are, and takes the     *)
(* number of L4 bytes from the IPv4 header.                                  *)
rte_ipv4_udptcp_cksum(header, l4, l3_len) ==
  [addresses |-> header.addresses, l4 |-> l4, length |-> header.total_length - l3_len]

(* Mutation: the checksum fields are not cleared before they are summed. *)
NotCleared(field) == field

Cleared(field) == "zero"

(* The packet after a rewrite of the fields in mask, a TCP or UDP packet:    *)
(* addresses and ports replaced, both checksum fields cleared, the IPv4 sum  *)
(* stored, then the L4 sum.  For the latter, total_length of a UDP packet is *)
(* shrunk to the datagram and restored.                                      *)
dp_apply_action(f, m, mask) ==
  LET l4 == L4Header(mask \cap {"src_port", "dst_port"}, Cleared("received"))
      cleared == Ipv4Header(mask \cap {"src_ipv4", "dst_ipv4"}, f.total_len,
                            Cleared("received"))
      header == [cleared EXCEPT !.hdr_checksum = "summed"]
      shrunk == IF f.proto = "udp"
                THEN [header EXCEPT !.total_length = AsUint16(m.l3_len + f.datagram_len)]
                ELSE header
  IN [header |-> [shrunk EXCEPT !.total_length = f.total_len],
      l4 |-> [l4 EXCEPT !.cksum = "summed"],
      ipv4_sum |-> rte_ipv4_cksum(cleared),
      l4_sum |-> rte_ipv4_udptcp_cksum(shrunk, l4, m.l3_len),
      extent |-> ETHER + shrunk.total_length]

-----------------------------------------------------------------------------
(* One packet through dp_process_packet *)

VARIABLES pc, frame, meta, packet

vars == <<pc, frame, meta, packet>>

NoPacket ==
  LET header == Ipv4Header({}, 0, "received")
      l4 == L4Header({}, "received")
  IN [header |-> header, l4 |-> l4, ipv4_sum |-> rte_ipv4_cksum(header),
      l4_sum |-> rte_ipv4_udptcp_cksum(header, l4, 0), extent |-> 0]

Init == /\ pc = "parse" /\ frame \in Frames
        /\ meta = Parsed("none", 0, 0, 0) /\ packet = NoPacket

Parse ==
  /\ pc = "parse"
  /\ meta' = dp_parse_packet(frame)
  /\ pc' = IF meta'.result = "ok" THEN "act" ELSE "dropped"
  /\ UNCHANGED <<frame, packet>>

(* The lookup finds a REWRITE action; its mask is never empty. *)
Rewrite ==
  /\ pc = "act"
  /\ \E mask \in SUBSET Fields \ {{}} : packet' = dp_apply_action(frame, meta, mask)
  /\ pc' = "rewritten"
  /\ UNCHANGED <<frame, meta>>

Next == Parse \/ Rewrite

Spec == Init /\ [][Next]_vars

-----------------------------------------------------------------------------
(* Properties *)

(* The parser never looks beyond the data of the single segment, whatever   *)
(* the lengths in the headers claim and wherever it gives up.               *)
ReadsInBounds == meta.extent <= frame.data_len

(* What the later stages rely on after DP_PARSE_OK: the headers nest inside *)
(* one another and inside the data, and the ports exist.                    *)
MetaUsable ==
  meta.result = "ok" =>
    /\ frame.proto \in {"tcp", "udp"} /\ ~ frame.fragment
    /\ meta.l4_offset = ETHER + meta.l3_len
    /\ IPV4 <= meta.l3_len /\ meta.l3_len <= 60
    /\ UDP <= meta.l4_len /\ meta.l4_len <= 60
    /\ meta.l4_offset + meta.l4_len <= ETHER + frame.total_len
    /\ ETHER + frame.total_len <= frame.data_len

(* A rewrite and its checksums stay inside the data too. *)
RewriteInBounds == packet.extent <= frame.data_len

(* After a rewrite both checksum fields hold a sum over what the receiver    *)
(* will check: the final contents, with zero in the place of the checksum    *)
(* itself.  The IPv4 sum is over the new addresses and the total_length that *)
(* is sent, the L4 sum over addresses, ports and exactly the L4 bytes, a UDP *)
(* datagram that is shorter than the IPv4 payload included.                  *)
ChecksumsFresh ==
  pc = "rewritten" =>
    /\ packet.header.total_length = frame.total_len
    /\ packet.header.hdr_checksum = "summed" /\ packet.l4.cksum = "summed"
    /\ packet.ipv4_sum = [packet.header EXCEPT !.hdr_checksum = "zero"]
    /\ packet.l4_sum =
         [addresses |-> packet.header.addresses,
          l4 |-> [packet.l4 EXCEPT !.cksum = "zero"],
          length |-> IF frame.proto = "udp" THEN frame.datagram_len
                     ELSE packet.header.total_length - meta.l3_len]
=============================================================================
