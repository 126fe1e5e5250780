---------------------------- MODULE MC_NanFrames ----------------------------
(***************************************************************************)
(* The frames two devices exchange, received by the device with address   *)
(* MCSelf.  Field values are chosen so that every multi-byte field has    *)
(* several non-zero bytes (kept below 2^31, TLC's integer range), and the *)
(* sequence number wraps when shifted into its 16-bit field.              *)
(***************************************************************************)
EXTENDS NanFrames

MCSelf == 1
MCPeer == 2
MCBroadcast == 255
MCCluster == 80

\* A published service with a short info, a subscribed one without info,
\* and a published one with an empty info.
MCChat == [sid |-> <<1, 2, 3, 4, 5, 6>>, iid |-> 1, type |-> "published",
           sui |-> 3, hasInfo |-> TRUE, info |-> <<35, 48>>]
MCQuery == [sid |-> <<9, 8, 7, 6, 5, 4>>, iid |-> 2, type |-> "subscribed",
            sui |-> 0, hasInfo |-> FALSE, info |-> <<>>]
MCEmpty == [sid |-> <<6, 6, 6, 6, 6, 6>>, iid |-> 3, type |-> "published",
            sui |-> 0, hasInfo |-> TRUE, info |-> <<>>]

MCBeacons ==
    { [kind |-> "beacon", src |-> s, dst |-> MCBroadcast, cid |-> MCCluster,
       seq |-> 4097, btype |-> t, ts |-> \h01020304, mp |-> 254, rf |-> 7,
       amr |-> \h7F0A0B0C, hop |-> 2, ambtt |-> \h00C0FFEE]
      : s \in {MCSelf, MCPeer}, t \in {"sync", "discovery"} }

MCServiceFrames ==
    { [kind |-> "sdf", src |-> MCPeer, dst |-> MCBroadcast, cid |-> MCCluster,
       seq |-> 1, services |-> ss] : ss \in {<<MCChat>>, <<MCQuery, MCEmpty>>} }
    \cup
    { [kind |-> "followup", src |-> MCPeer, dst |-> MCSelf, cid |-> MCCluster,
       seq |-> 2, service |-> MCChat, requestor |-> 5, hasInfo |-> TRUE, info |-> <<35, 48>>] }

MCMessages == MCBeacons \cup MCServiceFrames
=============================================================================
