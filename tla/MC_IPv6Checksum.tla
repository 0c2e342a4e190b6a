-------------------------- MODULE MC_IPv6Checksum --------------------------
(* The checksum of a segment between two link-local hosts, fe80::1 and     *)
(* fe80::ff (source and destination address bytes as the frame holds them). *)
EXTENDS IPv6Checksum

MCAddresses ==
    <<254, 128, 0, 0, 0, 0, 0, 0, 0, 0, 0, 0, 0, 0, 0, 1,
      254, 128, 0, 0, 0, 0, 0, 0, 0, 0, 0, 0, 0, 0, 0, 255>>

=============================================================================
