------------------------------ MODULE NanSync ------------------------------
(***************************************************************************)
(* The election and synchronisation state of one NAN device (src/sync.c)  *)
(* as pure operators on a record.  A sync state is a record with the      *)
(* fields of struct nan_sync_state; a peer is the record kept by          *)
(* src/peer.c for the device that sent a beacon.  The composition          *)
(* NanCluster applies these operators inside its actions.                 *)
(*                                                                         *)
(* Master ranks.  The code packs (MP, RF, address) into a 64-bit integer   *)
(* with MP as the high byte, RF next and the 48-bit address below.  The    *)
(* model keeps that layout with a smaller address field: AddrSpace is one  *)
(* more than the largest address value, so the numeric order of ranks is  *)
(* the lexicographic order of (MP, RF, address) exactly as in the code.   *)
(***************************************************************************)
EXTENDS Integers, FiniteSets

CONSTANT AddrSpace   \* address values are 1 .. AddrSpace - 1; 0 is no device

Roles == {"NON_SYNC", "SYNC", "MASTER"}

\* Constants of src/peer.h, src/sync.h and src/timer.h.
RSSI_CLOSE == -60
RSSI_MIDDLE == -75
NAN_MASTER_PREFERENCE == 200
NAN_RANDOM_FACTOR_UPDATE_MIN_DW == 120
NAN_MASTER_PREFERENCE_UPDATE_MIN_DW == 240
NAN_DW_LENGTH_TU == 16
NAN_DW_INTERVAL_TU == 512
TU == 1024

\* nan_calculate_master_rank: (MP << 56) | (RF << 48) | address.
MasterRankOf(mp, rf, addr) == (mp * 256 + rf) * AddrSpace + addr

\* The issuer of a rank is its address part.
IssuerOf(rank) == rank % AddrSpace

\* nan_is_same_master_rank_issuer
SameIssuer(r1, r2) == IssuerOf(r1) = IssuerOf(r2)

\* nan_is_anchor_master_self
IsAnchorMasterSelf(s) == SameIssuer(s.master_rank, s.anchor_master_rank)

\* nan_sync_state_init
SyncInit(addr) ==
    [role |-> "MASTER",
     master_rank |-> MasterRankOf(0, 0, addr),
     master_preference |-> 0, random_factor |-> 0,
     last_mp_update |-> 0, last_rf_update |-> 0,
     anchor_master_rank |-> MasterRankOf(0, 0, addr),
     ambtt |-> 0, hop_count |-> 0,
     last_anchor_master_rank |-> MasterRankOf(0, 0, addr),
     last_ambtt |-> 0, last_hop_count |-> 0,
     count_ambtt |-> 0, count_hop |-> 0]

\* The rank a peer advertises through its master indication attribute.
PeerMasterRank(p) == MasterRankOf(p.master_preference, p.random_factor, p.addr)

\* nan_check_master_candidate: the flag the peer gets on every beacon.
MasterCandidate(s, p) ==
    /\ p.anchor_master_rank = s.anchor_master_rank
    /\ \/ p.hop_count < s.hop_count
       \/ p.hop_count = s.hop_count /\ PeerMasterRank(p) > s.master_rank

\* nan_save_current_anchor_master
SaveCurrentAnchorMaster(s) ==
    [s EXCEPT !.last_anchor_master_rank = s.anchor_master_rank,
              !.last_ambtt = s.ambtt]

\* nan_set_anchor_master_other: hop_count is a uint8_t.
SetAnchorMasterOther(s, p) ==
    [SaveCurrentAnchorMaster(s) EXCEPT
        !.anchor_master_rank = p.anchor_master_rank,
        !.ambtt = p.ambtt,
        !.hop_count = (p.hop_count + 1) % 256]

\* nan_set_anchor_master_self
SetAnchorMasterSelf(s) ==
    [SaveCurrentAnchorMaster(s) EXCEPT
        !.anchor_master_rank = s.master_rank, !.ambtt = 0, !.hop_count = 0]

(***************************************************************************)
(* nan_anchor_master_selection.  The self branch adopts a better anchor    *)
(* without returning, so the comparisons below it run on the new state.   *)
(***************************************************************************)
\* Mutant: any beacon with an AMBTT not ahead of the clock is stale.
StaleAmbttAnyAnchor(s, p, syncedTU) == p.ambtt <= syncedTU * 16 * 512

StaleAmbtt(s, p, syncedTU) ==
    s.anchor_master_rank = p.anchor_master_rank /\ p.ambtt <= syncedTU * 16 * 512

\* Mutant: the self branch kept only for the own issuer, whatever the rank.
KeepSelfIssuerOnly(s, p) ==
    IsAnchorMasterSelf(s) /\ SameIssuer(s.master_rank, p.anchor_master_rank)

KeepSelf(s, p) ==
    IsAnchorMasterSelf(s) /\
      (s.master_rank >= p.anchor_master_rank \/ SameIssuer(s.master_rank, p.anchor_master_rank))

AfterSelfBranch(s, p) ==
    IF IsAnchorMasterSelf(s) THEN SetAnchorMasterOther(s, p) ELSE s

SelectFromNonSelf(s, p) ==
    CASE s.anchor_master_rank < p.anchor_master_rank ->
            IF s.last_anchor_master_rank = p.anchor_master_rank /\ s.last_ambtt >= p.ambtt
            THEN s ELSE SetAnchorMasterOther(s, p)
      [] s.anchor_master_rank > p.anchor_master_rank ->
            IF ~SameIssuer(s.anchor_master_rank, p.anchor_master_rank) THEN s
            ELSE IF s.master_rank > p.anchor_master_rank THEN SetAnchorMasterSelf(s)
            ELSE SetAnchorMasterOther(s, p)
      [] OTHER ->
            [s EXCEPT !.ambtt = IF s.ambtt < p.ambtt THEN p.ambtt ELSE s.ambtt,
                      !.hop_count = IF s.hop_count > p.hop_count + 1
                                    THEN p.hop_count ELSE s.hop_count]

AnchorMasterSelection(s, p, syncedTU) ==
    IF StaleAmbtt(s, p, syncedTU) \/ KeepSelf(s, p) THEN s
    ELSE SelectFromNonSelf(AfterSelfBranch(s, p), p)

(***************************************************************************)
(* nan_master_election over the peers heard in this DW ("fresh"), each a   *)
(* record with its rssi_average and its master_candidate flag.             *)
(***************************************************************************)
Higher(s, P) == {p \in P : PeerMasterRank(p) > s.master_rank}
Close(P) == {p \in P : p.rssi > RSSI_CLOSE}
Middle(P) == {p \in P : p.rssi > RSSI_MIDDLE}
Cands(P) == {p \in P : p.master_candidate}

RoleAfterFirstStep(s, P) ==
    IF s.role = "MASTER"
    THEN IF Cardinality(Higher(s, Close(P))) >= 1 \/ Cardinality(Higher(s, Middle(P))) >= 3
         THEN "SYNC" ELSE "MASTER"
    ELSE IF Cardinality(Close(P)) = 0 /\ Cardinality(Higher(s, P)) > 0
         THEN "MASTER" ELSE s.role

RoleAfterSecondStep(role, P) ==
    IF role = "SYNC"
    THEN IF Cardinality(Cands(Close(P))) >= 1 \/ Cardinality(Cands(Middle(P))) >= 3
         THEN "NON_SYNC" ELSE "SYNC"
    ELSE IF Cardinality(Cands(Close(P))) = 0 /\ Cardinality(Cands(Middle(P))) < 3
         THEN "SYNC" ELSE role

MasterElection(s, P) ==
    [s EXCEPT !.role = RoleAfterSecondStep(RoleAfterFirstStep(s, P), P)]

\* nan_check_anchor_master_expiration: the counters are uint8_t.
CheckAnchorMasterExpiration(s) ==
    IF IsAnchorMasterSelf(s)
    THEN [s EXCEPT !.count_ambtt = 0, !.count_hop = 0]
    ELSE LET ch == IF s.hop_count = s.last_hop_count THEN (s.count_hop + 1) % 256 ELSE 0
             ca == IF s.ambtt = s.last_ambtt THEN (s.count_ambtt + 1) % 256 ELSE 0
             s2 == [s EXCEPT !.count_hop = ch, !.count_ambtt = ca]
         IN  IF ca >= 3 THEN SetAnchorMasterSelf(s2)
             ELSE IF ch >= 3 THEN [s2 EXCEPT !.hop_count = 255]
             ELSE s2

\* Mutant: a raised rank above the followed anchor does not take over.
UpdateMasterRankNoTakeover(s, addr) ==
    LET new == MasterRankOf(s.master_preference, s.random_factor, addr)
        s1 == [s EXCEPT !.master_rank = new]
    IN  IF IsAnchorMasterSelf(s1) THEN [s1 EXCEPT !.anchor_master_rank = new] ELSE s1

\* nan_update_master_rank, with the address of the device itself.
UpdateMasterRank(s, addr) ==
    LET new == MasterRankOf(s.master_preference, s.random_factor, addr)
        s1 == [s EXCEPT !.master_rank = new]
    IN  IF new = s.master_rank THEN s
        ELSE IF IsAnchorMasterSelf(s1)
             THEN [s1 EXCEPT !.last_anchor_master_rank = s1.anchor_master_rank,
                             !.anchor_master_rank = new]
        ELSE IF new > s1.anchor_master_rank THEN SetAnchorMasterSelf(s1)
        ELSE s1

\* nan_time_difference_dw: whole TUs, then whole DW intervals.
ElapsedDWs(old, new) == ((new \div TU) - (old \div TU)) \div NAN_DW_INTERVAL_TU

(***************************************************************************)
(* nan_update_master_preference: rf is the value get_rand_num drew.  The   *)
(* rank is recomputed only when one of the two was refreshed.              *)
(***************************************************************************)
UpdateMasterPreference(s, p, now, rf, addr) ==
    LET el == ElapsedDWs(s.last_mp_update, now)
        s1 == IF el > NAN_RANDOM_FACTOR_UPDATE_MIN_DW
              THEN [s EXCEPT !.random_factor = rf, !.last_rf_update = now] ELSE s
        s2 == IF el > NAN_MASTER_PREFERENCE_UPDATE_MIN_DW
              THEN [s1 EXCEPT !.master_preference = NAN_MASTER_PREFERENCE,
                              !.last_mp_update = now] ELSE s1
    IN  IF p.master_preference = p.last_master_preference THEN s
        ELSE IF el > NAN_RANDOM_FACTOR_UPDATE_MIN_DW THEN UpdateMasterRank(s2, addr)
        ELSE s2
=============================================================================
