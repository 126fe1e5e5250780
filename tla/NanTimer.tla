------------------------------ MODULE NanTimer ------------------------------
(***************************************************************************)
(* The synchronisation timer of src/src/timer.c, its moving-average error  *)
(* correction (moving_average.h), and the three libev timers of the DW     *)
(* scheduler in src/daemon/core.c (discovery beacon, DW start, DW end)     *)
(* outside desync mode, on one device.                                     *)
(*                                                                         *)
(* Time is the monotonic clock in microseconds.  libev runs the callback   *)
(* of the earliest due timer, some latency after its deadline; a callback  *)
(* that rearms a timer adds the delay to the loop time at which it was     *)
(* woken (ev_now), not to the clock_time_usec it read.  Frames arrive      *)
(* between callbacks; which of the three timer updates of nan_rx_beacon a  *)
(* frame causes (cluster join, sync beacon of the anchor master, any other *)
(* beacon) is chosen, and so is the role the election at DW end yields:    *)
(* both are modelled in NanCluster.                                        *)
(***************************************************************************)
EXTENDS Integers, Sequences

CONSTANTS
    Boot,         \* clock_time_usec when nan_state_init runs (> 100 TU)
    Horizon,      \* bound: no callback starts later than Boot + Horizon
    Latencies,    \* how late after its deadline libev runs a callback
    SendTimes,    \* how long the sends of the DW-start callback take
    RxGaps,       \* time from the last callback to a frame's arrival
    Skews,        \* a peer's synced time minus this device's, in usec
    MaxRx,        \* bound on the frames received
    Roles         \* the roles nan_master_election may leave

VARIABLES
    now,          \* the time the last callback finished
    timer,        \* struct nan_timer_state
    role,         \* sync.role
    armed,        \* armed[x]: the deadline of libev timer x, or Off
    rx,           \* frames received so far
    pendingEnd,   \* a sync beacon was sent and no DW-end callback ran since
    sent          \* the beacon the last step sent: [type, at, inDw]

vars == <<now, timer, role, armed, rx, pendingEnd, sent>>

TU == 1024                                  \* TU_TO_USEC (utils.h)
NAN_DW_LENGTH_TU == 16
NAN_DW_INTERVAL_TU == 512
NAN_DISCOVERY_BEACON_INTERVAL_TU == 100
AverageSize == 32                           \* timer.c moving_average_init
Timers == {"discovery", "dw", "dwEnd"}
Off == -1
NoBeacon == [type |-> "none", at |-> 0, inDw |-> FALSE]

\* C division of signed integers truncates toward zero.
CDiv(a, b) == IF a >= 0 THEN a \div b ELSE -((-a) \div b)
Abs(a) == IF a >= 0 THEN a ELSE -a

(* moving_average.h: the running mean of a ring of AverageSize samples.   *)
MovingAverageInit == [buf |-> [i \in 0 .. AverageSize - 1 |-> 0], pos |-> 0, full |-> FALSE]

MovingAverageAdd(ma, average, value) ==
    [average |-> IF ma.full
                 THEN average + CDiv(value - ma.buf[ma.pos], AverageSize)
                 ELSE CDiv(average * ma.pos + value, ma.pos + 1),
     ma |-> [buf |-> [ma.buf EXCEPT ![ma.pos] = value],
             pos |-> IF ma.pos + 1 = AverageSize THEN 0 ELSE ma.pos + 1,
             full |-> ma.full \/ ma.pos + 1 = AverageSize]]

(* timer.c.  The times are uint64_t; a fixed time below zero wraps, and   *)
(* floor division and modulus give the same TU phase as the wrapped value *)
(* because 2^64 is a multiple of TU * NAN_DW_INTERVAL_TU.                 *)
TimerInit(t0) ==
    [base |-> t0, lastDisc |-> 0, warmupDone |-> FALSE, initialScanDone |-> TRUE,
     average |-> 0, ma |-> MovingAverageInit]

SyncedTimeUsec(t, n) == n - t.base
FixedTimeUsec(t, n) == n - t.base - t.average
FixedTimeTu(t, n) == FixedTimeUsec(t, n) \div TU

InDw(t, n) == FixedTimeTu(t, n) % NAN_DW_INTERVAL_TU <= NAN_DW_LENGTH_TU

NextDwUsec(t, n) == (NAN_DW_INTERVAL_TU - (FixedTimeTu(t, n) % NAN_DW_INTERVAL_TU)) * TU

DwEndUsec(t, n) ==
    IF InDw(t, n) THEN NextDwUsec(t, n - NAN_DW_LENGTH_TU * TU)
    ELSE NextDwUsec(t, n) + NAN_DW_LENGTH_TU * TU

\* nan_timer_sync_time: re-base so that the synced time now is timestamp.
SyncTime(t, n, ts) == [t EXCEPT !.base = @ + (SyncedTimeUsec(t, n) - ts)]

\* nan_timer_sync_error: a sample beyond one DW interval is skipped.
SyncError(t, n, ts) ==
    LET e == SyncedTimeUsec(t, n) - ts
        r == MovingAverageAdd(t.ma, t.average, e)
    IN  IF Abs(e) > NAN_DW_INTERVAL_TU * TU THEN t
        ELSE [t EXCEPT !.average = r.average, !.ma = r.ma]

TimerCanSendDiscoveryBeacon(t, n) ==
    n - t.lastDisc >= NAN_DISCOVERY_BEACON_INTERVAL_TU * TU

NextDiscoveryBeaconUsec(t, n) ==
    IF TimerCanSendDiscoveryBeacon(t, n) THEN 0
    ELSE n - t.lastDisc + NAN_DISCOVERY_BEACON_INTERVAL_TU * TU

InitialScanDone(t, n) == t.initialScanDone \/ n - t.base > 1000000

\* nan_can_send_discovery_beacon (tx.c).
CanSendDiscoveryBeacon(r, t, n) ==
    r = "master" /\ InitialScanDone(t, n) /\ TimerCanSendDiscoveryBeacon(t, n)

-----------------------------------------------------------------------------
(* The libev loop.  nan_schedule starts the discovery-beacon and DW-start *)
(* timers with delay 0; the DW-end timer is started only by the DW-start  *)
(* callback.  The role starts as MASTER (sync_state_init).               *)
Init ==
    /\ now = Boot
    /\ timer = TimerInit(Boot)
    /\ role = "master"
    /\ armed = [x \in Timers |-> IF x = "dwEnd" THEN Off ELSE Boot]
    /\ rx = 0
    /\ pendingEnd = FALSE
    /\ sent = NoBeacon

ArmedTimers == {x \in Timers : armed[x] # Off}

\* libev runs the callback of a timer whose deadline is the earliest.
Due(x) == \A y \in ArmedTimers : armed[x] <= armed[y]

\* ev_now when the callback of x runs: its deadline, or the end of the
\* previous callback if that ran past it, plus the loop's latency.
WakeTimes(x) ==
    {IF armed[x] > now THEN armed[x] + l ELSE now + l : l \in Latencies}

\* ev_timer_rearm: a one-shot timer due `in' after the loop time.
Rearm(a, x, w, in) == [a EXCEPT ![x] = w + in]

\* nan_send_discovery_beacon, outside desync mode.
DiscoveryBeaconTimer ==
    /\ "discovery" \in ArmedTimers /\ Due("discovery")
    /\ \E w \in WakeTimes("discovery") :
        LET send == CanSendDiscoveryBeacon(role, timer, w)
            t2   == IF send THEN [timer EXCEPT !.lastDisc = w] ELSE timer
        IN  /\ w <= Boot + Horizon
            /\ timer' = t2
            /\ sent' = IF send
                       THEN [type |-> "discovery", at |-> w, inDw |-> InDw(timer, w)]
                       ELSE NoBeacon
            /\ armed' = Rearm(armed, "discovery", w, NextDiscoveryBeaconUsec(t2, w))
            /\ now' = w
            /\ UNCHANGED <<role, rx, pendingEnd>>

\* nan_handle_discovery_window, outside desync mode.  After the sends the
\* callback reads the clock again, and both timers are rearmed from that
\* later time but relative to the loop time of the wake-up.
DiscoveryWindow ==
    /\ "dw" \in ArmedTimers /\ Due("dw")
    /\ \E w \in WakeTimes("dw") :
        /\ w <= Boot + Horizon
        /\ \/ /\ ~InDw(timer, w)
              /\ armed' = Rearm(armed, "dw", w, NextDwUsec(timer, w))
              /\ now' = w
              /\ sent' = NoBeacon
              /\ UNCHANGED pendingEnd
           \/ /\ InDw(timer, w)
              /\ \E s \in SendTimes :
                  /\ armed' = Rearm(Rearm(armed, "dw", w, NextDwUsec(timer, w + s)),
                                    "dwEnd", w, DwEndUsec(timer, w + s))
                  /\ now' = w + s
              /\ sent' = [type |-> "sync", at |-> w, inDw |-> TRUE]
              /\ pendingEnd' = TRUE
        /\ UNCHANGED <<timer, role, rx>>

\* nan_handle_discovery_window_end: the master election (NanCluster) may
\* leave any role; the one-shot timer stays stopped until the next DW.
DiscoveryWindowEnd ==
    /\ "dwEnd" \in ArmedTimers /\ Due("dwEnd")
    /\ \E w \in WakeTimes("dwEnd"), r \in Roles :
        /\ w <= Boot + Horizon
        /\ role' = r
        /\ armed' = [armed EXCEPT !.dwEnd = Off]
        /\ now' = w
    /\ pendingEnd' = FALSE
    /\ sent' = NoBeacon
    /\ UNCHANGED <<timer, rx>>

\* The timer updates of nan_rx_beacon for a beacon received at time n that
\* carries the peer's synced time ts: joining the peer's cluster and a sync
\* beacon of the anchor master re-base the timer, any other beacon feeds
\* the average error.  The first beacon ends the initial scan.
RxBeacon ==
    /\ rx < MaxRx
    /\ \E g \in RxGaps, k \in Skews, kind \in {"join", "anchorSync", "other"} :
        LET n  == now + g
            ts == SyncedTimeUsec(timer, n) + k
            t1 == IF InitialScanDone(timer, n) THEN timer
                  ELSE [timer EXCEPT !.initialScanDone = TRUE]
        IN  /\ \A y \in ArmedTimers : n <= armed[y]
            /\ ts >= 0
            /\ timer' = IF kind = "other" THEN SyncError(t1, n, ts) ELSE SyncTime(t1, n, ts)
            /\ now' = n
    /\ rx' = rx + 1
    /\ sent' = NoBeacon
    /\ UNCHANGED <<role, armed, pendingEnd>>

Next ==
    \/ DiscoveryBeaconTimer
    \/ DiscoveryWindow
    \/ DiscoveryWindowEnd
    \/ RxBeacon

Spec == Init /\ [][Next]_vars

-----------------------------------------------------------------------------
SyncedTimeTu(t, n) == SyncedTimeUsec(t, n) \div TU

TypeOK ==
    /\ now \in Int /\ rx \in 0 .. MaxRx /\ role \in Roles \cup {"master"}
    /\ armed \in [Timers -> Int] /\ pendingEnd \in BOOLEAN
    /\ sent.type \in {"none", "discovery", "sync"} /\ sent.inDw \in BOOLEAN
    /\ timer.initialScanDone \in BOOLEAN

(* Spec 4.6: the discovery-beacon timer never fires inside a DW; every    *)
(* discovery beacon nan_send_discovery_beacon sends falls outside one.    *)
DiscoveryBeaconOutsideDw == sent.type = "discovery" => ~sent.inDw

(* Spec 4.6: the DW-start callback arms the DW-end timer, whose callback  *)
(* runs the election; so no DW's sync beacon is sent before the DW-end    *)
(* callback of the previous DW has run.                                   *)
DwEndFollowsEveryDw == [][sent'.type = "sync" => ~pendingEnd]_vars

(* Spec invariant 4: outside a DW, the time nan_timer_next_dw_usec names  *)
(* is the start of a DW on the synced clock.                              *)
NextDwStartsInterval ==
    ~InDw(timer, now) => SyncedTimeTu(timer, now + NextDwUsec(timer, now)) % NAN_DW_INTERVAL_TU = 0
=============================================================================
