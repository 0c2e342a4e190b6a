---------------------------- MODULE IPv6Checksum ----------------------------
(***************************************************************************)
(* The Internet checksum of EtherSia: the running one's-complement sum of  *)
(* util.c (chksum(), not in src/: modelled from spec.md 4.1) and           *)
(* IPv6Packet::calculateChecksum() and payload() of src/IPv6Packet.cpp.    *)
(*                                                                         *)
(* A sender writes an upper-layer segment (ICMPv6, TCP, UDP) into the      *)
(* frame after the 14-byte Ethernet and 40-byte IPv6 headers, zeroes its   *)
(* checksum field, and stores the complemented checksum there; a receiver *)
(* sums the pseudo-header and the segment and expects 0xFFFF.  The        *)
(* segment is built byte by byte so that every length up to MaxLen and    *)
(* every byte value of Bytes is checked; its first word is the checksum   *)
(* field (the sum does not depend on where the field is).  Memory outside *)
(* the segment holds whatever earlier frames or other objects left there: *)
(* reading it is undefined, modelled as the arbitrary bytes junk.          *)
(***************************************************************************)
EXTENDS Integers, Sequences

CONSTANTS
    Bytes,         \* byte values the segment is built from
    MaxLen,        \* longest segment after the checksum field
    Addresses,     \* the 32 bytes of source and destination address
    Proto,         \* the next-header value (58 for ICMPv6)
    SizeofPacket   \* sizeof(IPv6Packet)

ASSUME Bytes \subseteq 0..255 /\ MaxLen \in Nat /\ Len(Addresses) = 32
       /\ SizeofPacket >= 54

VARIABLES
    data,  \* the segment after its checksum field
    junk   \* the bytes a read outside the segment returns

vars == <<data, junk>>

ETHER_HEADER_LEN == 14
IP6_HEADER_LEN == 40

-----------------------------------------------------------------------------
(* chksum(sum, data, len) of util.c: the 16-bit big-endian words of the    *)
(* range, an odd last byte padded with a zero low byte, added to the       *)
(* running sum in a wide accumulator whose carries are folded back into   *)
(* the low 16 bits once the range is summed.                              *)

RECURSIVE WordSum(_)
WordSum(b) ==
    IF b = <<>> THEN 0
    ELSE IF Len(b) = 1 THEN b[1] * 256
    ELSE b[1] * 256 + b[2] + WordSum(SubSeq(b, 3, Len(b)))

RECURSIVE Fold(_)
Fold(x) == IF x > 65535 THEN Fold((x % 65536) + (x \div 65536)) ELSE x

ChkSum(sum, b) == Fold(sum + WordSum(b))

Complement(x) == 65535 - x    \* ~x stored in a uint16_t

-----------------------------------------------------------------------------
(* payload() casts this + ETHER_HEADER_LEN + IP6_HEADER_LEN to uint8_t*: the *)
(* addition is done on an IPv6Packet pointer, so it advances by            *)
(* 54 * sizeof(IPv6Packet) bytes before the cast.                          *)
PayloadOffset == (ETHER_HEADER_LEN + IP6_HEADER_LEN) * SizeofPacket

(* The segment as the frame holds it, checksum field first.                *)
Segment(c) == <<c \div 256, c % 256>> \o data

(* The n bytes at offset o of the frame: the segment c lies right after    *)
(* the IPv6 header; anything else reads junk.                              *)
Read(o, n, c) ==
    [i \in 1..n |->
        LET a == o + i - 1 - (ETHER_HEADER_LEN + IP6_HEADER_LEN)
        IN IF a \in 0..Len(Segment(c)) - 1 THEN Segment(c)[a + 1] ELSE junk[i]]

(* calculateChecksum(): the payload length and protocol, the two           *)
(* addresses, then ntohs(length) bytes from payload(), complemented.      *)
CalculateChecksum(c) ==
    LET length == Len(Segment(c))
        s0 == (length + Proto) % 65536
        s1 == ChkSum(s0, Addresses)
        s2 == ChkSum(s1, Read(PayloadOffset, length, c))
    IN Complement(s2)

(* What a receiver checks: the pseudo-header and the segment as received. *)
PseudoSum(c) == ChkSum((Len(Segment(c)) + Proto) % 65536, Addresses)
Verify(c) == ChkSum(PseudoSum(c), Segment(c))

-----------------------------------------------------------------------------
Init ==
    /\ data = <<>>
    /\ junk \in [1..MaxLen + 2 -> Bytes]

(* The sender writes one more byte of the segment.                         *)
Write == Len(data) < MaxLen /\ \E b \in Bytes : data' = Append(data, b)
         /\ UNCHANGED junk

Next == Write

Spec == Init /\ [][Next]_vars

-----------------------------------------------------------------------------
TypeOK == data \in Seq(Bytes) /\ Len(data) <= MaxLen

PacketChecksumVerifies == Verify(CalculateChecksum(0)) = 65535

=============================================================================
