------------------------------ MODULE NanPeer ------------------------------
(***************************************************************************)
(* The record src/peer.c keeps for every device heard (struct nan_peer),   *)
(* restricted to the fields the election reads, and the setters the       *)
(* beacon handler calls on it.  last_update and last_beacon_time are both  *)
(* set to the receive time by the same handler, so one field "heard"       *)
(* stands for both.  rssi is the moving average of the link's RSSI; for a  *)
(* link of constant strength the average equals that strength from the    *)
(* first sample on (moving_average_add before the buffer is full).         *)
(***************************************************************************)
EXTENDS Integers

\* nan_peer_new: every field zero.
NewPeer(addr) ==
    [addr |-> addr, heard |-> 0, last_timestamp |-> 0,
     master_preference |-> 0, last_master_preference |-> 0, random_factor |-> 0,
     anchor_master_rank |-> 0, ambtt |-> 0, hop_count |-> 0,
     master_candidate |-> FALSE, rssi |-> 0]

\* nan_peer_set_master_indication
SetMasterIndication(p, mp, rf) ==
    [p EXCEPT !.last_master_preference = p.master_preference,
              !.master_preference = mp, !.random_factor = rf]

\* nan_peer_set_anchor_master_information: an anchor (hop count 0) is
\* credited with the timestamp of the beacon received from it before.
SetAnchorMasterInformation(p, amr, ambtt, hop) ==
    [p EXCEPT !.anchor_master_rank = amr, !.hop_count = hop,
              !.ambtt = IF hop = 0 THEN p.last_timestamp ELSE ambtt]

\* nan_peer_remove on the set of devices in the peer list: list_remove,
\* then the remove callback, which only updates the tun neighbour table,
\* then free.  A later beacon of m makes a new record (NewPeer).
PeerRemove(peers, m) == peers \ {m}

\* nan_peer_set_beacon_information
SetBeaconInformation(p, rssi, ts) ==
    [p EXCEPT !.rssi = rssi, !.last_timestamp = ts]
=============================================================================
