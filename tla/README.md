# TLA+ models of the OpenNAN daemon

These modules model the NAN (Neighbor Awareness Networking) synchronisation
layer of OpenNAN. They cover anchor-master selection, master election,
anchor expiration, cluster join and the discovery-window (DW) timers. They
are checked with TLC on three devices. Further modules model service
discovery (publish, subscribe, follow-up and event listeners) on two
devices, the circular frame buffer, which is checked against an abstract
FIFO queue, the frame codec down to the bytes (`NanWire`, `NanFrames`), and
the synchronisation timer with the libev timers that drive the DWs
(`NanTimer`).

The snapshot does not build as it stands: `rx.c` (lines 366-367, 477, 633,
646) and `core.c` (desync mode, per-peer buffers) use fields of
`struct nan_peer` that it does not have (`forward`, `publisher`, `timer`,
`frame_buffer`, ...). The models take the code around those lines and leave
out the desync/forwarding paths they belong to.

## The system and how its parts interact

- **The daemon's event loop** (`daemon/core.c`) runs three timers:
  - the discovery beacon timer (`nan_send_discovery_beacon`), which sends
    a discovery beacon when the device is MASTER and 100 TU have passed;
  - the DW start (`nan_handle_discovery_window`), which marks peers that
    have been silent for 4 DWs as having adopted this device, then sends a
    sync beacon;
  - the DW end (`nan_handle_discovery_window_end`), which runs the master
    election (`nan_master_election`) and then anchor expiration
    (`nan_check_anchor_master_expiration`).
- **Frame reception:** every frame read from the WLAN device goes through
  `nan_rx` to `nan_rx_beacon` (`src/rx.c`). The handler does the following,
  in this order:
  1. updates the peer record (`src/peer.c`);
  2. refreshes the master preference and random factor
     (`nan_update_master_preference`);
  3. computes the peer's master-candidate flag;
  4. then takes one of two paths:
     - for a beacon of a foreign cluster, or the first beacon ever heard,
       it compares cluster grades (`src/cluster.c`) and may join the
       cluster;
     - otherwise, for a sync beacon, it runs anchor-master selection.
- **Commands:** `set mp` and `set rf` on stdin (`daemon/cmd.c`) change the
  own master rank at any moment. `peer ADDR rm` takes a device out of the
  peer list (`nan_peer_remove`), and its next beacon adds it back with a
  new, zeroed record.
- **The synchronisation timer** (`src/timer.c`) turns the monotonic clock
  into the cluster's synced time (`base_time_usec`) and a fixed time that
  also subtracts an averaged clock error (`moving_average.h`). The DW
  timers are rearmed from the fixed time; `nan_rx_beacon` re-bases the
  clock on a cluster join or a sync beacon from the anchor master, and
  feeds any other beacon's offset into the average.
- **The frame codec:** `tx.c` and `ieee80211.c` write frames through the
  cursor buffer of `wire.c`; `nan_rx` strips the radiotap header and the
  FCS, checks the 802.11 header, and walks the NAN attributes
  (`NAN_ITERATE_ATTRIBUTES`) for the beacon and SDF handlers.

## Modules

| Module | Models | State / actions |
|---|---|---|
| `NanSync` | `src/sync.c` (and `nan_time_difference_dw` of `timer.c`) | Pure operators on a record with the fields of `struct nan_sync_state`: `MasterRankOf`, `MasterCandidate`, `AnchorMasterSelection` (split into the stale check, the self branch and the non-self branch), `MasterElection` (its two steps), `CheckAnchorMasterExpiration`, `UpdateMasterRank`, `UpdateMasterPreference`. Master ranks keep the code's layout (MP, RF, address) with a small address field, so rank order is exactly the code's. Counters and hop counts keep their `uint8_t` width. |
| `NanPeer` | `src/peer.c` | The peer record and the setters the beacon handler calls, in the handler's order. One field `heard` holds both `last_update` and `last_beacon_time`. |
| `NanCluster` | `daemon/core.c`, `src/rx.c`, `src/cluster.c`, `daemon/cmd.c`, `src/tx.c` | The composition of `Node` devices. Variables: `sync`, `peer` and `known` per device; cluster id `cid`; clock phase `off`; last discovery beacon time `lastDisc`; the set of beacons in flight to each device (`inbox`). Actions: `DiscoveryBeaconTimer`, `DiscoveryWindow`, `RxBeacon`, `DiscoveryWindowEnd`, `SetMasterPreference`, `SetRandomFactor` and `RemovePeer` (`peer ADDR rm`). Environment actions: `Lose` (a beacon is lost), `SwitchOff` (a device is turned off) and `NextRound`. |
| `NanServices` | `src/service.c`, `src/event.c`, `daemon/cmd.c` (publish, subscribe, ping and the two event handlers), `src/tx.c` (`nan_transmit`), `daemon/core.c` (SDF and buffered frames at the DW), `src/rx.c` (`nan_rx_service_discovery`) | Per device: `lastId` (instance id counter), `pub`/`sub` (the service lists as sequences), `lst` (event listeners in list order), `fbuf` (the follow-up buffer). `inbox[m][s]` is the FIFO of frames from s to m; `sent` is a history bag of follow-ups sent, per device. Actions: `Command` (one command of `Commands` from stdin: `Refused`, `PublishService` incl. `peer ADDR ping`, `SubscribeService`), `DiscoveryWindow` (flush the buffer, then send the SDF and update `announced`), `RxServiceDiscovery` (every descriptor of one frame, dispatching events to the listeners as they were when dispatch began, as `list_it_next` does), `NextRound`. The handlers register and drop listeners through `AddEventListener` and `RemoveEventListener` (`nan_add_event_listener` and `nan_remove_event_listener`). The second removes the first listener with the given callback, whichever service it was registered for. |
| `FrameQueue` | — | Abstract bounded FIFO: `Put` (refused when full), `PutOverride` (drops the oldest when full), `Get` (with peek), `Reset`. |
| `CircularBuffer` | `src/circular_buffer.c` | Slots, `head`, `tail`, `full` and the same actions as in the code, with `advance_pointer`. `BufferIsFifo` is `FrameQueue!Spec` under the refinement mapping `q <- Contents` (the slots from tail, `Size` of them). |
| `NanWire` | `src/wire.c` | The cursor buffer as a record (bytes, position, window end, error flag) with the little-endian reads and writes of the code; a failed access sets the error and leaves the cursor. |
| `NanFrames` | `src/tx.c`, `src/ieee80211.c`, `src/rx.c`, `src/frame.c` | One frame's life: `Transmit` builds a beacon, SDF or follow-up byte by byte; `Alter` flags a bad FCS, drops the radiotap flags field, or cuts bytes off the end; `Receive` runs `nan_rx` on the bytes, with the two values the code reads uninitialised (the flags byte, an attribute length) chosen from `UnsetFlags` and `UnsetLengths`. The attribute walk is `Walk`/`WalkOn`/`WalkAfter`, mutually recursive. |
| `NanTimer` | `src/timer.c`, `src/moving_average.h`, `daemon/core.c` (the three timer callbacks outside desync mode, `nan_schedule`), `src/tx.c` (`nan_can_send_discovery_beacon`), `src/rx.c` (the timer updates of `nan_rx_beacon`) | One device. Variables: `now`, the `timer` record (`base`, `lastDisc`, `initialScanDone`, `average` and the 32-slot ring), `role`, the deadlines `armed` of the three libev timers, `rx`, `pendingEnd`, and the beacon the last step `sent`. Actions: `DiscoveryBeaconTimer`, `DiscoveryWindow` (both branches; after the sends the clock is read again, and both timers are rearmed relative to the wake-up time as libev does), `DiscoveryWindowEnd` (the election's resulting role is chosen; NanCluster models it), `RxBeacon` (join or anchor sync beacon: `SyncTime`; other: `SyncError`). |
| `MC_NanServices`, `MC_CircularBuffer` | — | Model values: devices a, b; service names chat, servicename; frames f1, f2. |
| `MC_NanCluster` | — | Three devices n1, n2, n3 with addresses 1, 2, 3. Each starts in its own cluster, with its clock phase a third of a DW interval apart. All links are close (RSSI −50). |
| `MC_NanFrames` | — | Receiver address 1, sender 2; two beacons of each type, two SDFs (one service with info; a subscription and an empty info) and a follow-up, with multi-byte fields whose every byte is non-zero. |
| `MC_NanTimer` | — | Boot 200 TU after the clock's epoch, a libev latency of 1 TU, DW-start sends lasting 0, 15 or 20 TU, and one received beacon whose sender is 3 ms behind or 40 ms ahead. |

### Time

A round is one DW interval (2^19 µs). Within a round, the phases run in
order:

1. Each device's discovery timer fires in the gap 256 TU before the DW.
2. The devices send their sync beacons at the DW start, offset by their
   address in µs.
3. The DW end runs once every sync beacon has been handled.

Beacons are timestamped on the synced time of the common cluster clock.
This schedule is aligned: NanCluster does not model the timer arithmetic,
the libev latency, or the times the sends take. In particular, its
discovery beacons fall in the gap between DWs, so it cannot show the
in-DW discovery beacons of `NanTimer` below.

Two clocks are modelled:
- **Per-device phase:** the phase offset `off` is only used where the code
  compares clock phases, which is the cluster-grade comparison of the low
  19 bits.
- **Monotonic clock:** the code uses `clock_time_usec` (CLOCK_MONOTONIC)
  for peer freshness, the preference refresh and the discovery-beacon
  interval. The model uses `Raw(t) = Uptime + t`. `Uptime` is 130 s, which
  is more than 240 DWs since `last_mp_update = 0`, so the refresh that the
  first changed peer preference triggers is live, as it is on a real
  device.

`NanTimer` models the timer arithmetic itself, in microseconds, on one
device. libev runs the callback of the earliest deadline some latency
after it; `ev_timer_rearm` adds its delay to that wake-up time, not to the
`clock_time_usec` read after the sends. The fixed time may be negative
when it is modelled; the code's `uint64_t` wraps, and the TU phase is the
same because 2^64 is a multiple of 512 TU.

## Runs

| Run | Expect | Shows |
|---|---|---|
| `cluster_converge` | pass | `TypeOK`. `Converges`: eventually always every live device follows the highest-ranked live device. `ClustersMerge`: eventually always one cluster. Three clusters merge, and the election settles with no loss |
| `cluster_commands` | pass | `AnchorRankNotBelowOwnRank` holds with one `set mp`, `set rf` or `peer n1 rm` command at any point, together with the preference refresh. |
| `cluster_lossy` | pass | The same invariant holds with up to 2 lost beacons of either type and n3 switched off at any point. |
| `master_role_lost` | violation | A MASTER becomes SYNC with no higher peer (sync.c:181-188). |
| `dead_anchor_followed` | violation | Followers keep a switched-off anchor, because the stale check discards its beacons and `last_ambtt` belongs to the previous anchor. |
| `own_rank_readopted` | violation | After `set mp` lowers its rank, a device follows its own old rank, relayed by a peer, with hop count 2 (sync.c:244-255). |
| `stale_master_candidate` | violation | A device turns NON_SYNC on a master-candidate flag computed before its own rank changed (rx.c:415, sync.c:133). |
| `services_s4` | pass | Spec scenario S4 plus a refused duplicate subscribe and a ping: `FollowUpOnce` (no device sends two follow-ups for one discovered instance) and `PublicationAnswered` (a publication matched by a subscriber on the other device is eventually cancelled by the follow-up). |
| `services_two_subscriptions` | violation | b subscribes servicename, then chat; a publishes chat. Discovering chat removes the first listener with that callback, servicename's (event.c:46), so chat's listener stays and chat is followed up twice. The receive handler removes its listener the same way (cmd.c:214). Under S4's commands, with the ping before the publish, answering chat removes servicename's listener. This is listed as a hazard, not run: the S4 run must pass. |
| `circular_buffer_fifo` | pass | `BufferIsFifo`: every step of the ring buffer is a step of the bounded FIFO, get returns the oldest frame. |
| `frames_codec` | pass | `WalkFollowsGrammar`: on intact, cut, bad-FCS and flag-less frames, under every class of value of the uninitialised bytes, the attribute walk hands its handlers exactly a prefix of the whole attributes, and all of them unless a handler failed. |
| `frames_truncated_accepted` | violation | An SDF received without its FCS loses 4 bytes of attributes to the FCS strip. That leaves a bare attribute header, which the walk accepts as RX_OK (rx.c:293), against spec section 4.1. The violation is found with each uninitialised attribute length (0, 1, 2, 65535) on its own, so it does not depend on the stack's contents. |

Two loss runs of the earlier project (a lost discovery beacon making a
follower expire a live anchor, and the flip-flop that follows) were
dropped to keep the run count and time budget. Their mechanism is kept as
the hazards at peer.c:115 and sync.c:206.

`NanTimer` has no run in PROJECT.json: the run budget is spent on the
runs above. `MC_NanTimer.cfg` checks `TypeOK` and `DwEndFollowsEveryDw`;
swap in `DiscoveryBeaconOutsideDw` or `NextDwStartsInterval` to check the
others. TLC finds each of the three violated:
- **`DiscoveryBeaconOutsideDw`** (spec 4.6, "never fires inside a DW"):
  violated in one step. The discovery timer starts with delay 0 and
  `nan_can_send_discovery_beacon` never looks at the DW, so the first
  discovery beacon goes out at synced time 100 µs, inside DW 0.
- **`DwEndFollowsEveryDw`:** violated in 9 steps. When the sends of a DW
  end exactly in TU 16, `nan_timer_in_dw` still counts the time as inside
  the DW (`<= 16`), and `nan_timer_dw_end_usec` then finds the end a whole
  interval later. The next DW start rearms the DW-end timer, so the first
  DW's election never runs.
- **`NextDwStartsInterval`** (spec invariant 4): violated after one
  averaged beacon error. The code schedules on the fixed time, not on the
  synced time.

These are listed as hazards in PROJECT.json.

`peer ADDR rm` of the anchor master also breaks convergence, with no frame
lost. With `RemovedPeers = {n3}` and `MaxCmds = 1` in
`MC_NanCluster_converge.cfg`, TLC finds `Converges` violated in 55,869 states:
1. n1 removes n3 before DW 1.
2. n3's next beacon to n1 is a sync beacon, so n1 makes a new record
   with `last_timestamp` 0 and adopts n3 with AMBTT 0 (peer.c:115).
3. n2 takes the anchor from n1's relay at hop 2 and discards n3's own
   beacons as stale (sync.c:219).
4. From then on n2 expires the anchor at every DW end and re-adopts it at
   the next DW (sync.c:206).

There is no violation run for it, because the run budget is spent. The
trace is recorded as the hazard at cmd.c:442. The convergence run has no
removals: even removing n1 or n2 there makes the liveness mutants too slow
to check. The commands run removes n1 and checks the anchor-rank
invariant across the removal.

Two more properties are stated in the modules but checked by no run,
because the code breaks them and the run budget has no slot for another
violation run:
- **`RoundTrip`** (NanFrames): a frame received as it was sent is decoded
  into the values it was built from. It fails for a service info of 256
  bytes or more, which tx.c:127 sends without the OUI the parser expects.
- **`FollowUpCancelsAddressed`** (NanServices): a follow-up cancels only
  the service whose instance id it names. It fails when one device
  subscribes to a name and also pings it (service.c:319 matches by
  service id).

Passing runs that exclude these cases would say nothing about them, so
neither is checked. Both are hazards in PROJECT.json.

PROJECT.json lists each violation as a finding, and gives each property of
a passing run a mutant of the code that TLC catches.

### Bounds

- **Rounds:** 4 to 7 DWs (`LastDW`). The violation runs use 5 to 7, which
  is enough for the three-DW expiry counters to run out after a
  switch-off, and for adoption to go through a relay (hop 2). The commands
  and lossy runs use 4 DWs, to stay within the time limit. That is still
  room for a command, or a loss, before and after a DW end, and for
  selection to act on it.
- **Random factors:** one value. A device draws a new random factor only
  when its master preference has changed (sync.c, `RfDraws`), so only runs
  with `set mp` commands draw at all. There the one value (3) and the
  `set rf` value (5) are chosen to cross the other devices' ranks.
- **Commands:** one or two (`MaxCmds`), with values chosen to cross the
  other devices' ranks. In the commands run, the one command may also be
  `peer n1 rm` on n2 or n3, at any point.
- **Losses:** at most 1 or 2 (`MaxLoss`).
- **Services:** two devices and four commands; the follow-up buffer has
  the code's 16 slots, never filled. Two devices suffice: every follow-up
  is between a publisher and a subscriber, and the listener bug needs two
  subscriptions on one device.
- **Circular buffer:** capacity 3 with two frame values, enough to wrap
  both pointers and to overwrite when full.
- **Frames:**
  - Cuts of 4, 13, 15, 16 and 40 bytes. These end a frame inside the FCS,
    inside an attribute header, inside an attribute value, and inside the
    802.11 header.
  - Uninitialised flags bytes 0, 16 (FCS present) and 64 (bad FCS).
  - Uninitialised attribute lengths 0, 1, 2 and 65535. The value is read
    only when fewer than 2 bytes follow the attribute id: 0 reads nothing,
    1 reads the last byte, and any value of 2 or more fails the read and
    leaves the cursor. These values cover all three cases, and the
    largest `uint16_t`.
  - Field values below 2^31, TLC's integer range.
  - `CHECK_DEADLOCK FALSE`: one frame is sent and received, then the
    model stops, as intended.
- **Timer:** a horizon of 800 ms, about one and a half DW intervals, which
  covers DW 0, its end, and the start of DW 1. The send times include
  15 TU, which ends a DW's sends exactly in TU 16, and 20 TU, which ends
  them past the DW. `CHECK_DEADLOCK FALSE`: the model stops at the
  horizon.

## Fairness

`DiscoveryBeaconTimer`, `DiscoveryWindow`, `DiscoveryWindowEnd`,
`RxBeacon` and `NextRound` are weakly fair. libev fires every started
timer, and the WLAN read watcher handles every frame that arrives. Losses,
commands and switch-offs carry no fairness, since the environment may or
may not produce them. In `NanServices`, `DiscoveryWindow`, each
`RxServiceDiscovery` and `NextRound` are weakly fair for the same reasons;
commands are not. The circular buffer, the frame codec and `NanTimer`
have no fairness: they are checked only for safety.

## Not modelled

- **Desync/MITM mode** (`core.c`, `rx.c` desync branches) refers to peer
  fields and functions that do not exist, so it does not build. Its
  unconditional 2 s enable timer is listed as a hazard.
- **Parts of services:** `nan_update_publish` (no command calls it), the
  TTL of services (every command creates one with TTL -1), frame loss for
  SDFs, and forwarding of service frames in desync mode.
- **The linked list** (`list.c`): lists are sequences in the models.
  `LIST_REMOVE` is `ListRemove` in NanServices. The safety of removing and
  adding listeners during a dispatch is argued in `Dispatch`'s comment,
  not checked step by step.
- **Other parts:** the data path, the big-endian accessors and
  `buf_strip`/`buf_resize` of `wire.c` (no frame path uses them), `crc32`
  (nothing checks it), pcap/tun I/O, the print commands, and `set desync`.
- **Timer parts:** the warm-up timer (never called), the initial scan
  (`initial_scan_done` starts true, `timer.c:15`, so the 1 s scan of spec
  section 4.2 never happens), and the moving average beyond 32 samples.
  NanTimer's bounds keep the ring short of full.
- **The timer and the election together:** NanTimer chooses the role the
  election yields, and NanCluster uses the aligned schedule. Combining
  them exceeds TLC's reach within the time limit.
- **Peer clean-up:** its timer is never started, so peers are never
  removed, and the model keeps them for ever as the code does.
- **The 60 s `nan_timeout`:** every run lasts at most 7 DWs.
- **`election.c`:** an older election on its own state type. Nothing
  includes `election.h` or calls its functions, which share their names
  with those of `sync.c`. It is dead code; the election that runs is
  `sync.c`'s, modelled in NanSync.
- **The other `peer ADDR` commands:** `set timer`, `forward` and `modify`
  write peer fields that only the desync experiment reads. `get_peer`
  matches the first peer whose address string contains the argument; the
  model names the peer directly.
- **Unused helpers:** `nan_timer_in_dw0`, `nan_timer_in_current_dw`,
  `nan_timer_dw_start_offset_tu`, `nan_add_service_id_list_attribute`,
  `nan_add_data_path_attribute` and `nan_updated_replied_service` have no
  callers.
