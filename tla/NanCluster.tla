----------------------------- MODULE NanCluster -----------------------------
(***************************************************************************)
(* A cluster of NAN devices running the opennan daemon.  Each device is   *)
(* one single-threaded event loop (src/daemon/core.c nan_schedule) whose  *)
(* callbacks are the actions below; a callback runs to completion, so one *)
(* action is one callback.  Devices talk only through beacons on the air, *)
(* which may be lost.                                                     *)
(*                                                                         *)
(* Time.  The synced clocks of the devices agree (a device joining a     *)
(* cluster takes over its clock, rx.c:427-431).  Time advances in          *)
(* rounds: in round k every device's discovery-beacon timer fires once    *)
(* half an interval before DW k, then every DW timer fires at the start   *)
(* of DW k, the sync beacons are received, and every DW-end timer fires   *)
(* 16 TU later.  Instants are microseconds of the synced clock, whose     *)
(* base is 0, as in nan_timer_get_synced_time_usec.                        *)
(***************************************************************************)
EXTENDS Integers, FiniteSets, NanPeer

CONSTANTS
    Node,            \* the devices
    Addr,            \* Addr[n]: the interface address of n, in 1 .. AddrSpace - 1
    InitCluster,     \* InitCluster[n]: the cluster id n drew at start (nan_cluster_id_new)
    InitOffset,      \* InitOffset[n]: n's clock minus the model's time, modulo a DW interval
    AddrSpace,
    Rssi,            \* Rssi[<<m, n>>]: RSSI in dBm at which n hears m
    LastDW,          \* the rounds checked are 1 .. LastDW
    Uptime,          \* CLOCK_MONOTONIC (clock_time_usec) when the synced clocks read 0
    RandomFactors,   \* values get_rand_num(0, 255) may draw
    PreferenceCmds,  \* values an operator may give with "set mp"
    RandomFactorCmds,\* values an operator may give with "set rf"
    MaxCmds,         \* bound on operator commands in a behaviour
    RemovedPeers,    \* devices an operator may name in "peer ADDR rm"
    Leavers,         \* devices that may be switched off
    LossyTypes,      \* the kinds of beacon ("sync", "discovery") that may be lost
    MaxLoss          \* bound on the beacons lost in a behaviour

S == INSTANCE NanSync

VARIABLES
    dw,        \* the current round
    ph,        \* ph[n]: "gap" before n's discovery timer, "disc" before its DW
               \* timer, "dw" inside its DW, "end" after its DW-end timer
    sync,      \* sync[n]: n's struct nan_sync_state
    known,     \* known[n]: the devices in n's peer list
    peer,      \* peer[n][m]: n's record of m, meaningful for m \in known[n]
    lastDisc,  \* lastDisc[n]: the timer's last_discovery_beacon_usec
    cid,       \* cid[n]: the cluster id n uses (state->cluster.cluster_id)
    off,       \* off[n]: the low 19 bits of n's synced clock minus the model's time
    inbox,     \* inbox[n]: beacons on the air towards n
    alive,     \* alive[n]: n is switched on
    leftAt,    \* history: the round in which n was switched off, or -1
    cmds,      \* operator commands given so far
    lost       \* beacons lost so far

vars == <<dw, ph, sync, known, peer, lastDisc, cid, off, inbox, alive, leftAt, cmds, lost>>

DWUS == S!NAN_DW_INTERVAL_TU * S!TU
DwStartTime(k) == k * DWUS
DwEndTime(k) == k * DWUS + S!NAN_DW_LENGTH_TU * S!TU
GapTime(k) == k * DWUS - 256 * S!TU

\* The timers of different devices fire a little apart, so no two beacons
\* carry the same timestamp: n's fire Addr[n] microseconds (DW timer) or
\* Addr[n] TU (discovery-beacon timer) after the instants above.
SyncSendTime(n) == DwStartTime(dw) + Addr[n]
DiscoverySendTime(n) == GapTime(dw) + Addr[n] * S!TU
NAN_DISCOVERY_BEACON_INTERVAL_TU == 100

\* A beacon is received at the instant it is sent; its timestamp is the
\* sender's synced time then (nan_add_beacon_header).
Beacon(n, type, ts) ==
    [src |-> n, cid |-> cid[n], type |-> type, ts |-> ts, tsf |-> (ts + off[n]) % DWUS,
     mp |-> sync[n].master_preference, rf |-> sync[n].random_factor,
     amr |-> sync[n].anchor_master_rank, hop |-> sync[n].hop_count,
     ambtt |-> sync[n].ambtt]

\* The beacon goes on the air towards every other device that is on.
\* Mutant: the receive path keeps frames from the own address.
BroadcastToAll(n, b) ==
    [m \in Node |-> IF alive[m] THEN inbox[m] \cup {b} ELSE inbox[m]]

Broadcast(n, b) ==
    [m \in Node |-> IF m # n /\ alive[m] THEN inbox[m] \cup {b} ELSE inbox[m]]

RxTime(b) == b.ts

\* The handlers read clock_time_usec, the monotonic clock; the synced clock
\* is that clock minus base_time_usec (nan_timer_get_synced_time_usec).
Raw(t) == Uptime + t

Init ==
    /\ dw = 1
    /\ ph = [n \in Node |-> "gap"]
    /\ sync = [n \in Node |-> S!SyncInit(Addr[n])]
    /\ known = [n \in Node |-> {}]
    /\ peer = [n \in Node |-> [m \in Node |-> NewPeer(Addr[m])]]
    /\ lastDisc = [n \in Node |-> 0]
    /\ cid = InitCluster
    /\ off = InitOffset
    /\ inbox = [n \in Node |-> {}]
    /\ alive = [n \in Node |-> TRUE]
    /\ leftAt = [n \in Node |-> -1]
    /\ cmds = 0
    /\ lost = 0

(***************************************************************************)
(* nan_rx_beacon (rx.c:331-467) for a beacon b from device b.src.          *)
(***************************************************************************)
\* nan_peer_add: the record found by address (nan_peer_get), or a new one,
\* with last_update set to the reception time.  The list_add of a new peer
\* is RxBeacon's update of known.
PeerAdd(n, m, now) ==
    [(IF m \in known[n] THEN peer[n][m] ELSE NewPeer(Addr[m])) EXCEPT !.heard = now]

\* The record after nan_peer_add and the two attribute parsers and
\* nan_peer_set_beacon_information, in the order of the handler.
PeerAfterBeacon(n, b) ==
    LET p1 == PeerAdd(n, b.src, Raw(RxTime(b)))
        p2 == SetAnchorMasterInformation(SetMasterIndication(p1, b.mp, b.rf),
                                         b.amr, b.ambtt, b.hop)
    IN  SetBeaconInformation(p2, Rssi[<<b.src, n>>], b.ts)

\* The random factors the handler may draw: only when the refresh happens.
RfDraws(n, p, now) ==
    IF p.master_preference # p.last_master_preference
       /\ S!ElapsedDWs(sync[n].last_mp_update, now) > S!NAN_RANDOM_FACTOR_UPDATE_MIN_DW
    THEN RandomFactors ELSE {sync[n].random_factor}

(***************************************************************************)
(* nan_cluster_compare_grade(own MP, own synced time, sender's MP, beacon  *)
(* timestamp) > 0: the sender's cluster has the higher grade.  The low 19  *)
(* bits of a clock are its phase within the DW interval (2^19 us).         *)
(***************************************************************************)
HigherGrade(s, p, ownTsf, peerTsf) ==
    IF s.master_preference = p.master_preference THEN ownTsf < peerTsf
    ELSE s.master_preference < p.master_preference

\* Mutant: the grade is compared only for the first peer ever heard.
GradeComparedFirstOnly(n, b) == known[n] = {}

\* A beacon of another cluster, or the first one heard, goes to the grade
\* comparison (is_new_cluster || in_initial_cluster).
GradeCompared(n, b) == b.cid # cid[n] \/ known[n] = {}

\* The beacon handler proper.  A beacon of another cluster, or the first
\* one heard, goes to the cluster join and never to anchor selection.
RxBeacon(n, b) ==
    /\ alive[n]
    /\ b \in inbox[n]
    /\ LET p == PeerAfterBeacon(n, b)
       IN \E rf \in RfDraws(n, p, Raw(RxTime(b))) :
          LET s1 == S!UpdateMasterPreference(sync[n], p, Raw(RxTime(b)), rf, Addr[n])
              p1 == [p EXCEPT !.master_candidate = S!MasterCandidate(s1, p)]
          IN /\ peer' = [peer EXCEPT ![n][b.src] = p1]
             /\ IF GradeCompared(n, b)
                THEN /\ sync' = [sync EXCEPT ![n] = s1]
                     /\ IF HigherGrade(s1, p1, (RxTime(b) + off[n]) % DWUS, b.tsf)
                        THEN \* join the cluster, nan_timer_sync_time to the timestamp
                             /\ cid' = [cid EXCEPT ![n] = b.cid]
                             /\ off' = [off EXCEPT ![n] = (b.tsf - RxTime(b)) % DWUS]
                        ELSE UNCHANGED <<cid, off>>
                ELSE /\ sync' = [sync EXCEPT ![n] =
                                   IF b.type = "sync"
                                   THEN S!AnchorMasterSelection(s1, p1, RxTime(b) \div S!TU)
                                   ELSE s1]
                     /\ UNCHANGED <<cid, off>>
    /\ known' = [known EXCEPT ![n] = @ \cup {b.src}]
    /\ inbox' = [inbox EXCEPT ![n] = @ \ {b}]
    /\ UNCHANGED <<dw, ph, lastDisc, alive, leftAt, cmds, lost>>

\* A beacon is lost on the air.
Lose(n, b) ==
    /\ b.type \in LossyTypes
    /\ lost < MaxLoss
    /\ b \in inbox[n]
    /\ inbox' = [inbox EXCEPT ![n] = @ \ {b}]
    /\ lost' = lost + 1
    /\ UNCHANGED <<dw, ph, sync, known, peer, lastDisc, cid, off, alive, leftAt, cmds>>
(***************************************************************************)
(* nan_send_discovery_beacon (core.c:121-147) outside desync mode, with    *)
(* nan_can_send_discovery_beacon (tx.c:14-23): only a MASTER sends, once  *)
(* the interval has passed since the last one.  The initial scan is done  *)
(* from the start (nan_timer_state_init sets initial_scan_done).          *)
(***************************************************************************)
CanSendDiscoveryBeacon(n, now) ==
    /\ sync[n].role = "MASTER"
    /\ now - lastDisc[n] >= NAN_DISCOVERY_BEACON_INTERVAL_TU * S!TU

DiscoveryBeaconTimer(n) ==
    /\ alive[n]
    /\ ph[n] = "gap"
    /\ ph' = [ph EXCEPT ![n] = "disc"]
    /\ \/ /\ CanSendDiscoveryBeacon(n, Raw(DiscoverySendTime(n)))
          /\ inbox' = Broadcast(n, Beacon(n, "discovery", DiscoverySendTime(n)))
          /\ lastDisc' = [lastDisc EXCEPT ![n] = Raw(DiscoverySendTime(n))]
       \/ /\ ~CanSendDiscoveryBeacon(n, Raw(DiscoverySendTime(n)))
          /\ UNCHANGED <<inbox, lastDisc>>
    /\ UNCHANGED <<dw, sync, known, peer, cid, off, alive, leftAt, cmds, lost>>

GapOver == \A m \in Node : alive[m] => ph[m] # "gap" /\ ~\E b \in inbox[m] : b.type = "discovery"

(***************************************************************************)
(* nan_handle_discovery_window (core.c:213-276) outside desync mode, at   *)
(* the start of the DW: peers silent for 4 DWs are assumed to have        *)
(* adopted this device as anchor, then the sync beacon is sent.  The      *)
(* frame buffer and the service discovery frame are NanServices' part.    *)
(***************************************************************************)
AssumeAdopted(n, now) ==
    [m \in Node |->
        IF m \in known[n]
           /\ peer[n][m].heard < now - S!NAN_DW_INTERVAL_TU * 4 * S!TU
           /\ peer[n][m].anchor_master_rank # sync[n].master_rank
        THEN [peer[n][m] EXCEPT !.anchor_master_rank = sync[n].master_rank]
        ELSE peer[n][m]]

DiscoveryWindow(n) ==
    /\ alive[n]
    /\ ph[n] = "disc"
    /\ GapOver
    /\ ph' = [ph EXCEPT ![n] = "dw"]
    /\ peer' = [peer EXCEPT ![n] = AssumeAdopted(n, Raw(SyncSendTime(n)))]
    /\ inbox' = Broadcast(n, Beacon(n, "sync", SyncSendTime(n)))
    /\ UNCHANGED <<dw, sync, known, lastDisc, cid, off, alive, leftAt, cmds, lost>>

(***************************************************************************)
(* nan_handle_discovery_window_end (core.c:278-290): master election over *)
(* the peers updated within the DW plus 4 TU, then anchor expiration.     *)
(***************************************************************************)
FreshPeers(n, now) ==
    {peer[n][m] : m \in {k \in known[n] :
        now - peer[n][k].heard <= (S!NAN_DW_LENGTH_TU + 4) * S!TU}}

DiscoveryWindowEnd(n) ==
    /\ alive[n]
    /\ ph[n] = "dw"
    /\ \A m \in Node : alive[m] => ph[m] \in {"dw", "end"}
    /\ ~\E b \in inbox[n] : b.type = "sync"
    /\ ph' = [ph EXCEPT ![n] = "end"]
    /\ sync' = [sync EXCEPT ![n] = S!CheckAnchorMasterExpiration(
                    S!MasterElection(sync[n], FreshPeers(n, Raw(DwEndTime(dw)))))]
    /\ UNCHANGED <<dw, known, peer, lastDisc, cid, off, inbox, alive, leftAt, cmds, lost>>

(***************************************************************************)
(* The "set mp" and "set rf" commands (cmd.c:317-334), read from stdin.   *)
(***************************************************************************)
SetMasterPreference(n) ==
    /\ alive[n]
    /\ cmds < MaxCmds
    /\ \E v \in PreferenceCmds :
          sync' = [sync EXCEPT ![n] =
                    S!UpdateMasterRank([@ EXCEPT !.master_preference = v], Addr[n])]
    /\ cmds' = cmds + 1
    /\ UNCHANGED <<dw, ph, known, peer, lastDisc, cid, off, inbox, alive, leftAt, lost>>

SetRandomFactor(n) ==
    /\ alive[n]
    /\ cmds < MaxCmds
    /\ \E v \in RandomFactorCmds :
          sync' = [sync EXCEPT ![n] =
                    S!UpdateMasterRank([@ EXCEPT !.random_factor = v], Addr[n])]
    /\ cmds' = cmds + 1
    /\ UNCHANGED <<dw, ph, known, peer, lastDisc, cid, off, inbox, alive, leftAt, lost>>

(***************************************************************************)
(* "peer ADDR rm" (cmd.c:413-444): get_peer finds the peer in the list   *)
(* and nan_peer_remove takes it out.  The sync state keeps no reference   *)
(* to a peer, only ranks.  A peer not in the list is reported and        *)
(* nothing changes.                                                       *)
(***************************************************************************)
RemovePeer(n, m) ==
    /\ alive[n]
    /\ cmds < MaxCmds
    /\ m \in known[n] \cap RemovedPeers
    /\ known' = [known EXCEPT ![n] = PeerRemove(@, m)]
    /\ cmds' = cmds + 1
    /\ UNCHANGED <<dw, ph, sync, peer, lastDisc, cid, off, inbox, alive, leftAt, lost>>

\* A device is switched off: it neither sends nor receives from now on.
SwitchOff(n) ==
    /\ n \in Leavers
    /\ alive[n]
    /\ alive' = [alive EXCEPT ![n] = FALSE]
    /\ leftAt' = [leftAt EXCEPT ![n] = dw]
    /\ inbox' = [inbox EXCEPT ![n] = {}]
    /\ UNCHANGED <<dw, ph, sync, known, peer, lastDisc, cid, off, cmds, lost>>

RoundOver ==
    \A m \in Node : alive[m] => ph[m] = "end" /\ inbox[m] = {}

\* The clock reaches the next round.
NextRound ==
    /\ RoundOver
    /\ dw < LastDW
    /\ dw' = dw + 1
    /\ ph' = [n \in Node |-> "gap"]
    /\ UNCHANGED <<sync, known, peer, lastDisc, cid, off, inbox, alive, leftAt, cmds, lost>>

\* The rounds checked are over.
Finished ==
    /\ RoundOver
    /\ dw = LastDW
    /\ UNCHANGED vars

Next ==
    \/ \E n \in Node :
          \/ DiscoveryBeaconTimer(n)
          \/ DiscoveryWindow(n)
          \/ DiscoveryWindowEnd(n)
          \/ SetMasterPreference(n)
          \/ SetRandomFactor(n)
          \/ SwitchOff(n)
          \/ \E m \in Node : RemovePeer(n, m)
          \/ \E b \in inbox[n] : RxBeacon(n, b) \/ Lose(n, b)
    \/ NextRound
    \/ Finished

\* Timers always fire and frames on the air are always handled by the
\* event loop; a beacon may still be lost, a command may never be given.
Fairness ==
    /\ \A n \in Node :
          /\ WF_vars(DiscoveryBeaconTimer(n))
          /\ WF_vars(DiscoveryWindow(n))
          /\ WF_vars(DiscoveryWindowEnd(n))
          /\ WF_vars(\E b \in inbox[n] : RxBeacon(n, b))
    /\ WF_vars(NextRound)

Spec == Init /\ [][Next]_vars /\ Fairness

-----------------------------------------------------------------------------
TypeOK ==
    /\ dw \in 1 .. LastDW
    /\ ph \in [Node -> {"gap", "disc", "dw", "end"}]
    /\ \A n \in Node : sync[n].role \in S!Roles /\ sync[n].hop_count \in 0 .. 255
    /\ known \in [Node -> SUBSET Node]
    /\ cid \in [Node -> {InitCluster[m] : m \in Node}]
    /\ off \in [Node -> 0 .. DWUS - 1]
    /\ \A n \in Node : n \notin known[n]
    /\ alive \in [Node -> BOOLEAN]
    /\ cmds \in 0 .. MaxCmds
    /\ lost \in 0 .. MaxLoss

\* The device whose address is the issuer of a rank, if any.
IssuerNode(rank) == {m \in Node : Addr[m] = S!IssuerOf(rank)}

\* The rank every device on should follow: the highest rank of those on.
BestRank == CHOOSE r \in {sync[m].master_rank : m \in {k \in Node : alive[k]}} :
               \A m \in Node : alive[m] => sync[m].master_rank <= r

(***************************************************************************)
(* An anchor master rank never ranks below the device's own master rank:  *)
(* a device follows only better anchors and takes over as soon as its own *)
(* rank beats the anchor's (anchor master selection, nan_update_master_   *)
(* rank, expiration).                                                     *)
(***************************************************************************)
AnchorRankNotBelowOwnRank ==
    \A n \in Node : sync[n].anchor_master_rank >= sync[n].master_rank

(***************************************************************************)
(* Spec invariant 2: hop_count is 0 exactly when the device is its own    *)
(* anchor master.                                                          *)
(***************************************************************************)
HopCountZeroIffAnchorSelf ==
    \A n \in Node : alive[n] => (sync[n].hop_count = 0 <=> S!IsAnchorMasterSelf(sync[n]))

(***************************************************************************)
(* Role state machine (spec 4.4): a MASTER leaves the role at the end of a *)
(* DW only when it saw a higher master rank close by, or three in the      *)
(* middle range (nan_master_election).                                     *)
(***************************************************************************)
MasterLeavesOnlyForHigherRank ==
    [][\A n \in Node :
         (ph[n] = "dw" /\ ph'[n] = "end" /\ sync[n].role = "MASTER"
          /\ sync'[n].role # "MASTER")
         => LET P == FreshPeers(n, Raw(DwEndTime(dw))) IN
            \/ S!Higher(sync[n], S!Close(P)) # {}
            \/ Cardinality(S!Higher(sync[n], S!Middle(P))) >= 3]_vars

(***************************************************************************)
(* Anchor expiration (spec 4.4): a device whose anchor master was switched *)
(* off stops following it once 3 DW ends went by without an AMBTT update; *)
(* one round more is allowed for the last beacon still on the air.        *)
(***************************************************************************)
DeadAnchorAbandoned ==
    \A n, a \in Node :
        (alive[n] /\ ~alive[a] /\ dw > leftAt[a] + 4 /\ ph[n] = "end")
        => Addr[a] # S!IssuerOf(sync[n].anchor_master_rank)

(***************************************************************************)
(* An anchor that is on and whose beacons all arrive is never given up by *)
(* the anchor expiration at the end of a DW.                               *)
(***************************************************************************)
LiveAnchorKept ==
    [][\A n \in Node :
         (ph[n] = "dw" /\ ph'[n] = "end" /\ ~S!IsAnchorMasterSelf(sync[n])
          /\ \A a \in IssuerNode(sync[n].anchor_master_rank) : alive[a])
         => sync'[n].anchor_master_rank = sync[n].anchor_master_rank]_vars

(***************************************************************************)
(* Without loss, switch-offs or commands, the cluster settles: from some  *)
(* round on every device follows the highest master rank.                  *)
(***************************************************************************)
AllFollowBest ==
    \A n \in Node : alive[n] => sync[n].anchor_master_rank = BestRank

Converges == <>[]AllFollowBest

(***************************************************************************)
(* Devices that hear each other end up in one cluster: from some round on  *)
(* every device on uses the same cluster id (the cluster join of           *)
(* nan_rx_beacon with nan_cluster_compare_grade).                          *)
(***************************************************************************)
OneCluster == \A m, k \in Node : alive[m] /\ alive[k] => cid[m] = cid[k]

ClustersMerge == <>[]OneCluster

(***************************************************************************)
(* A device turns NON_SYNC at the end of a DW only if some peer heard in  *)
(* that DW is a master candidate for the state it has then (spec 4.4),    *)
(* though nan_master_election reads the flag nan_check_master_candidate   *)
(* cached when the peer's beacon arrived.                                  *)
(***************************************************************************)
NonSyncOnlyWithCandidate ==
    [][\A n \in Node :
         (ph[n] = "dw" /\ ph'[n] = "end" /\ sync[n].role # "NON_SYNC"
          /\ sync'[n].role = "NON_SYNC")
         => \E p \in FreshPeers(n, Raw(DwEndTime(dw))) : S!MasterCandidate(sync[n], p)]_vars
=============================================================================
