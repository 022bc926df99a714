--------------------------- MODULE MCPacketHeaders ---------------------------
(* Frames with every length at, just below and just above its limits.       *)
EXTENDS PacketHeaders

DataLens == {0, 13, 14, 33, 34, 37, 38, 41, 42, 43, 53, 54, 57, 58, 62, 74, 94}
TotalLens == {0, 19, 20, 27, 28, 29, 39, 40, 44, 48, 60, 80, 65535}

Base == [nb_segs |-> 1, packet_len |-> 0, data_len |-> 0, ether_type |-> "ipv4",
         version |-> 4, ihl_words |-> 5, total_len |-> 0, fragment |-> FALSE,
         proto |-> "other", data_offset_words |-> 5, datagram_len |-> 8]

(* The lengths of a single-segment IPv4 frame *)
Shapes == {[Base EXCEPT !.data_len = d, !.packet_len = d, !.ihl_words = w,
                        !.total_len = t] :
             d \in DataLens, w \in {0, 4, 5, 6, 15}, t \in TotalLens}

TcpFrames == {[s EXCEPT !.proto = "tcp", !.data_offset_words = w] :
                s \in Shapes, w \in {0, 4, 5, 6, 15}}
UdpFrames == {[s EXCEPT !.proto = "udp", !.datagram_len = l] :
                s \in Shapes, l \in {0, 7, 8, 9, 28, 65535}}
OtherFrames == Shapes
  \cup {[s EXCEPT !.fragment = TRUE, !.proto = "udp"] : s \in Shapes}
  \cup {[s EXCEPT !.version = 6] : s \in Shapes}
  \cup {[s EXCEPT !.ether_type = "other"] : s \in Shapes}
  \cup {[s EXCEPT !.nb_segs = 2] : s \in Shapes}
  \cup {[s EXCEPT !.packet_len = @ + 1] : s \in Shapes}

MCFrames == TcpFrames \cup UdpFrames \cup OtherFrames
=============================================================================
