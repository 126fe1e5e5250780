----------------------------- MODULE NanServices -----------------------------
(***************************************************************************)
(* The service engine of OpenNAN: the publish/subscribe registries of     *)
(* src/service.c, the event listeners of src/event.c, the handlers the    *)
(* daemon registers for them (daemon/cmd.c), the follow-up frame buffer    *)
(* (nan_transmit, src/tx.c) and the service discovery frames (SDFs) sent   *)
(* at the start of every DW (daemon/core.c) and handled on reception       *)
(* (nan_rx_service_discovery, src/rx.c).                                   *)
(*                                                                         *)
(* The devices are synchronised: every round is one DW in which each      *)
(* device's DW timer fires once and every frame sent is received before   *)
(* the next DW.  Frames of one sender reach a receiver in the order sent. *)
(* A service name is a model value; SidOf gives its service id (the first *)
(* 6 bytes of SHA-256 of the lower-cased name) and Prefix the pairs       *)
(* <<p, q>> of names with p a prefix of q, which is how listeners match.   *)
(***************************************************************************)
EXTENDS Integers, Sequences, SequencesExt, BagsExt

CONSTANTS
    Node,        \* the devices
    Names,       \* service names
    SidOf,       \* [Names -> service ids]
    Prefix,      \* pairs <<p, q>> of names, p a prefix of q (reflexive)
    PingName,    \* the name "servicename" the "peer ADDR ping" command publishes
    Commands,    \* records [k, node, op, name]: the operator commands given
    BufCap       \* capacity of the frame buffer (circular_buf_init(16), state.c)

VARIABLES
    lastId,      \* last_instance_id of each device
    pub,         \* published_services, in list order
    sub,         \* subscribed_services, in list order
    lst,         \* the event listeners of each device, in list order
    fbuf,        \* the frame buffer of each device (follow-ups)
    inbox,       \* inbox[m][s]: frames from s on the air towards m, in order
    ph,          \* "wait" before the device's DW timer fired this DW, then "done"
    todo,        \* the commands not given yet
    sent         \* bag of the instance ids each device sent a follow-up for

vars == <<lastId, pub, sub, lst, fbuf, inbox, ph, todo, sent>>

\* The broadcast destination of an SDF.
Everyone == "NAN_NETWORK_ID"

\* increase_non_zero_id: uint8_t, 0 is skipped.
IncreaseNonZeroIdReturnsOld(last) == last
IncreaseNonZeroId(last) == IF (last + 1) % 256 = 0 THEN 1 ELSE (last + 1) % 256

\* nan_service_new with the arguments every caller passes: time_to_live -1.
NewPublished(name, ptype, id) ==
    [type |-> "PUBLISHED", name |-> name, id |-> id, ptype |-> ptype,
     do_publish |-> FALSE, ttl |-> -1]
NewSubscribed(name, stype, id) ==
    [type |-> "SUBSCRIBED", name |-> name, id |-> id, stype |-> stype,
     is_subscribed |-> FALSE, ttl |-> -1]

\* nan_get_service_by_name(..., -1): exact name in either list.
Registered(n, name) ==
    \E s \in ToSet(sub[n]) \cup ToSet(pub[n]) : s.name = name

\* nan_should_announce_service
ShouldAnnounce(s) ==
    IF s.type = "PUBLISHED"
    THEN s.ttl # 0 /\ ~(s.ptype = "PUBLISH_SOLICITED" /\ ~s.do_publish)
    ELSE s.stype # "SUBSCRIBE_PASSIVE" /\ ~s.is_subscribed /\ s.ttl # 0

\* nan_update_announced_services, applied to one service announced.
AfterAnnounce(s) ==
    LET s1 == [s EXCEPT !.ttl = IF @ > 0 THEN @ - 1 ELSE @]
    IN  IF s.type = "PUBLISHED" THEN [s1 EXCEPT !.do_publish = FALSE] ELSE s1

\* The service descriptor nan_build_service_discovery_frame writes.
Descriptor(s) ==
    [ctype |-> IF s.type = "SUBSCRIBED" THEN "SUBSCRIBE" ELSE "PUBLISH",
     sid |-> SidOf[s.name], id |-> s.id, req |-> 0]

\* matches_event: same event type, service name starting with the filter.
MatchesEvent(l, event, name) == l.event = event /\ <<l.name, name>> \in Prefix

(***************************************************************************)
(* The receive-side operators work on the registries of one device, a     *)
(* record st = [pub, sub, lst, fbuf, sent], so that the handlers of the   *)
(* descriptors of one frame can be applied one after the other.           *)
(***************************************************************************)
\* Index of the first service of a list with the given instance id (0: none).
IdxById(seq, id) == SelectInSeq(seq, LAMBDA s : s.id = id)

\* LIST_REMOVE: list_remove of the first item whose field f is v.
ListRemove(seq, f, v) == RemoveFirstMatch(seq, LAMBDA x : x[f] = v)

\* nan_add_event_listener: list_add appends the listener at the tail.
AddEventListener(seq, event, name, cb) ==
    Append(seq, [event |-> event, name |-> name, cb |-> cb])

\* nan_remove_event_listener: LIST_REMOVE of the first listener with this
\* callback, whichever service it was registered for.
RemoveEventListener(seq, cb) == ListRemove(seq, "cb", cb)

\* nan_cancel_publish and nan_cancel_subscribe: remove by instance id.
CancelPublish(st, id) == [st EXCEPT !.pub = ListRemove(@, "id", id)]
CancelSubscribe(st, id) == [st EXCEPT !.sub = ListRemove(@, "id", id)]
IdxBySid(seq, sid) == SelectInSeq(seq, LAMBDA s : SidOf[s.name] = sid)

\* nan_transmit outside desync mode: the follow-up goes to the frame buffer,
\* unless the service is unknown or the buffer is full.
Transmit(n, st, dst, iid, req) ==
    LET si == IdxById(st.sub, iid)
        pi == IdxById(st.pub, iid)
        svc == IF si # 0 THEN st.sub[si] ELSE st.pub[pi]
    IN  IF (si = 0 /\ pi = 0) \/ Len(st.fbuf) = BufCap THEN st
        ELSE [st EXCEPT
                !.fbuf = Append(@, [src |-> n, dst |-> dst,
                                    descs |-> << [ctype |-> "FOLLOW_UP", sid |-> SidOf[svc.name],
                                                  id |-> svc.id, req |-> req] >>]),
                !.sent = BagAdd(@, iid)]

\* Mutant: the discovery handler keeps its listener.
DiscoveryResultCallbackKeep(n, st, d) ==
    LET i == IdxById(st.sub, d.subscribe_id)
    IN  IF i = 0 THEN st
        ELSE LET st1 == Transmit(n, st, d.address, d.subscribe_id, d.publish_id)
             IN  [st1 EXCEPT !.lst = AddEventListener(@, "EVENT_RECEIVE", st.sub[i].name, "receive")]

\* handle_event_discovery_result: follow up, then nan_remove_event_listener
\* (the first listener with this callback) and listen for the answer.
DiscoveryResultCallback(n, st, d) ==
    LET i == IdxById(st.sub, d.subscribe_id)
    IN  IF i = 0 THEN st
        ELSE LET st1 == Transmit(n, st, d.address, d.subscribe_id, d.publish_id)
             IN  [st1 EXCEPT !.lst = AddEventListener(RemoveEventListener(@, "discovery"),
                                        "EVENT_RECEIVE", st.sub[i].name, "receive")]

\* handle_event_receive: the service answered is cancelled, then the first
\* listener with this callback is removed.
ReceiveCallback(st, d) ==
    LET si == IdxById(st.sub, d.instance_id)
        pi == IdxById(st.pub, d.instance_id)
        st1 == IF si # 0 THEN CancelSubscribe(st, d.instance_id)
               ELSE CancelPublish(st, d.instance_id)
    IN  IF si = 0 /\ pi = 0 THEN st
        ELSE [st1 EXCEPT !.lst = RemoveEventListener(@, "receive")]

(***************************************************************************)
(* nan_dispatch_event: every listener matching, in list order.  A handler *)
(* only removes a listener at or before the one running (the first with   *)
(* its own callback) and only appends listeners for the other event, so   *)
(* the iteration visits exactly the listeners present when it started.    *)
(***************************************************************************)
Dispatch(n, st, event, name, d) ==
    FoldLeft(LAMBDA acc, l :
                IF ~MatchesEvent(l, event, name) THEN acc
                ELSE IF l.cb = "discovery" THEN DiscoveryResultCallback(n, acc, d)
                ELSE ReceiveCallback(acc, d),
             st, st.lst)

\* Mutant: a follow-up is matched against the subscriptions only.
ServiceForFollowUpSubscribedOnly(st, sid) ==
    LET si == IdxBySid(st.sub, sid) IN IF si # 0 THEN {st.sub[si]} ELSE {}

\* nan_get_service_by_service_id(..., -1): subscriptions first.
ServiceForFollowUp(st, sid) ==
    LET si == IdxBySid(st.sub, sid)
        pi == IdxBySid(st.pub, sid)
    IN  IF si # 0 THEN {st.sub[si]} ELSE IF pi # 0 THEN {st.pub[pi]} ELSE {}

\* nan_handle_received_service_discovery for descriptor d of frame f.
HandleDescriptor(n, f, st, d) ==
    CASE d.ctype = "PUBLISH" ->
            LET i == IdxBySid(st.sub, d.sid)
            IN  IF i = 0 THEN st
                ELSE Dispatch(n, st, "EVENT_DISCOVERY_RESULT", st.sub[i].name,
                              [address |-> f.src, publish_id |-> d.id,
                               subscribe_id |-> st.sub[i].id])
      [] d.ctype = "SUBSCRIBE" ->
            LET i == IdxBySid(st.pub, d.sid)
            IN  IF i = 0 THEN st ELSE [st EXCEPT !.pub[i].do_publish = TRUE]
      [] d.ctype = "FOLLOW_UP" ->
            IF f.dst # n \/ ServiceForFollowUp(st, d.sid) = {} THEN st
            ELSE LET svc == CHOOSE s \in ServiceForFollowUp(st, d.sid) : TRUE
                 IN  Dispatch(n, st, "EVENT_RECEIVE", svc.name,
                              [address |-> f.src, instance_id |-> svc.id,
                               peer_instance_id |-> d.id])

Local(n) == [pub |-> pub[n], sub |-> sub[n], lst |-> lst[n], fbuf |-> fbuf[n], sent |-> sent[n]]

SetLocal(n, st) ==
    /\ pub' = [pub EXCEPT ![n] = st.pub]
    /\ sub' = [sub EXCEPT ![n] = st.sub]
    /\ lst' = [lst EXCEPT ![n] = st.lst]
    /\ fbuf' = [fbuf EXCEPT ![n] = st.fbuf]
    /\ sent' = [sent EXCEPT ![n] = st.sent]

-----------------------------------------------------------------------------
Init ==
    /\ lastId = [n \in Node |-> 0]
    /\ pub = [n \in Node |-> <<>>]
    /\ sub = [n \in Node |-> <<>>]
    /\ lst = [n \in Node |-> <<>>]
    /\ fbuf = [n \in Node |-> <<>>]
    /\ inbox = [m \in Node |-> [s \in Node |-> <<>>]]
    /\ ph = [n \in Node |-> "wait"]
    /\ todo = Commands
    /\ sent = [n \in Node |-> EmptyBag]

(***************************************************************************)
(* nan_rx_service_discovery: the descriptors of a frame from s, in order.  *)
(* (The frame forwarding of the desync experiment is not modelled.)       *)
(***************************************************************************)
RxServiceDiscovery(n, s) ==
    /\ inbox[n][s] # <<>>
    /\ LET f == Head(inbox[n][s])
       IN  SetLocal(n, FoldLeft(LAMBDA st, d : HandleDescriptor(n, f, st, d), Local(n), f.descs))
    /\ inbox' = [inbox EXCEPT ![n][s] = Tail(@)]
    /\ UNCHANGED <<lastId, ph, todo>>

\* A frame sent by n is heard by every other device (nan_rx drops its own).
SendAll(n, frames) ==
    [m \in Node |-> IF m = n THEN inbox[m] ELSE [inbox[m] EXCEPT ![n] = @ \o frames]]

(***************************************************************************)
(* The service part of nan_handle_discovery_window (core.c:264-266): the   *)
(* buffered frames are flushed, then one SDF with the services to         *)
(* announce (published first) is broadcast, and those services updated.   *)
(***************************************************************************)
Announced(n) == SelectSeq(pub[n], ShouldAnnounce) \o SelectSeq(sub[n], ShouldAnnounce)

SdfFrames(n) ==
    IF Announced(n) = <<>> THEN <<>>
    ELSE << [src |-> n, dst |-> Everyone,
             descs |-> [i \in 1 .. Len(Announced(n)) |-> Descriptor(Announced(n)[i])]] >>

DiscoveryWindow(n) ==
    /\ ph[n] = "wait"
    /\ ph' = [ph EXCEPT ![n] = "done"]
    /\ inbox' = SendAll(n, fbuf[n] \o SdfFrames(n))
    /\ fbuf' = [fbuf EXCEPT ![n] = <<>>]
    /\ pub' = [pub EXCEPT ![n] = [i \in DOMAIN @ |->
                  IF ShouldAnnounce(@[i]) THEN AfterAnnounce(@[i]) ELSE @[i]]]
    /\ sub' = [sub EXCEPT ![n] = [i \in DOMAIN @ |->
                  IF ShouldAnnounce(@[i]) THEN AfterAnnounce(@[i]) ELSE @[i]]]
    /\ UNCHANGED <<lastId, lst, todo, sent>>

(***************************************************************************)
(* Operator commands (daemon/cmd.c).  publish and subscribe refuse a name  *)
(* already registered; "peer ADDR ping" publishes PingName without that   *)
(* check.                                                                 *)
(***************************************************************************)
Refused(c) ==
    /\ c.op \in {"publish", "subscribe"}
    /\ Registered(c.node, c.name)
    /\ UNCHANGED <<lastId, pub, sub, lst>>

PublishService(c) ==
    /\ \/ c.op = "publish" /\ ~Registered(c.node, c.name)
       \/ c.op = "ping" /\ c.name = PingName
    /\ LET n == c.node
           id == IncreaseNonZeroId(lastId[n])
       IN  /\ lastId' = [lastId EXCEPT ![n] = id]
           /\ pub' = [pub EXCEPT ![n] = Append(@, NewPublished(c.name,
                         IF c.op = "publish" THEN "PUBLISH_BOTH" ELSE "PUBLISH_UNSOLICITED", id))]
           /\ lst' = [lst EXCEPT ![n] = AddEventListener(@, "EVENT_RECEIVE", c.name, "receive")]
    /\ UNCHANGED sub

SubscribeService(c) ==
    /\ c.op = "subscribe"
    /\ ~Registered(c.node, c.name)
    /\ LET n == c.node
           id == IncreaseNonZeroId(lastId[n])
       IN  /\ lastId' = [lastId EXCEPT ![n] = id]
           /\ sub' = [sub EXCEPT ![n] = Append(@, NewSubscribed(c.name, "SUBSCRIBE_PASSIVE", id))]
           /\ lst' = [lst EXCEPT ![n] = AddEventListener(@, "EVENT_DISCOVERY_RESULT", c.name, "discovery")]
    /\ UNCHANGED pub

Command(c) ==
    /\ c \in todo
    /\ todo' = todo \ {c}
    /\ Refused(c) \/ PublishService(c) \/ SubscribeService(c)
    /\ UNCHANGED <<fbuf, inbox, ph, sent>>

\* Every device's DW is over and every frame of it handled.
NextRound ==
    /\ \A n \in Node : ph[n] = "done" /\ \A s \in Node : inbox[n][s] = <<>>
    /\ ph' = [n \in Node |-> "wait"]
    /\ UNCHANGED <<lastId, pub, sub, lst, fbuf, inbox, todo, sent>>

Next ==
    \/ \E c \in todo : Command(c)
    \/ \E n \in Node : DiscoveryWindow(n) \/ \E s \in Node : RxServiceDiscovery(n, s)
    \/ NextRound

\* The DW timer always fires and every frame heard is handled; the
\* operator may give a command or not.
Fairness ==
    /\ \A n \in Node : WF_vars(DiscoveryWindow(n)) /\ \A s \in Node : WF_vars(RxServiceDiscovery(n, s))
    /\ WF_vars(NextRound)

Spec == Init /\ [][Next]_vars /\ Fairness

-----------------------------------------------------------------------------
Service ==
    [type : {"PUBLISHED"}, name : Names, id : 1 .. 255,
     ptype : {"PUBLISH_UNSOLICITED", "PUBLISH_SOLICITED", "PUBLISH_BOTH"},
     do_publish : BOOLEAN, ttl : {-1}]
    \cup
    [type : {"SUBSCRIBED"}, name : Names, id : 1 .. 255,
     stype : {"SUBSCRIBE_PASSIVE", "SUBSCRIBE_ACTIVE"},
     is_subscribed : BOOLEAN, ttl : {-1}]

TypeOK ==
    /\ lastId \in [Node -> 0 .. 255]
    /\ \A n \in Node :
          /\ \A i \in DOMAIN pub[n] : pub[n][i] \in Service /\ pub[n][i].type = "PUBLISHED"
          /\ \A i \in DOMAIN sub[n] : sub[n][i] \in Service /\ sub[n][i].type = "SUBSCRIBED"
          /\ Len(fbuf[n]) <= BufCap
    /\ ph \in [Node -> {"wait", "done"}]
    /\ todo \subseteq Commands

\* A subscription follows up on a discovered publication once: the
\* discovery handler (cmd.c:238-261) transmits and then removes its
\* listener, so no service of a device ever sends two follow-ups.
FollowUpOnce ==
    \A n \in Node : \A id \in BagToSet(sent[n]) : CopiesIn(id, sent[n]) <= 1

\* The instance ids of a list of services, and the instance ids the
\* follow-ups of frame f ask for (their requestor instance id).
Ids(seq) == {seq[i].id : i \in DOMAIN seq}
Requested(f) == {f.descs[i].req : i \in {j \in DOMAIN f.descs : f.descs[j].ctype = "FOLLOW_UP"}}

\* A follow-up ends only the service it is addressed to: when a device
\* handles a frame (nan_rx_service_discovery), every service that its
\* receive handler (cmd.c:192-215) cancels has the instance id that one of
\* the frame's follow-ups names as requestor, as spec scenario S4 has the
\* RECEIVE event carry the publisher's instance id.  The code matches the
\* follow-up by service id instead (service.c:322, subscriptions first), so
\* a device that subscribes to a name and pings it breaks this property;
\* no run of the project includes that pair of commands on one device.
FollowUpCancelsAddressed ==
    [][\A n, s \in Node :
          inbox[n][s] # <<>> /\ inbox'[n][s] = Tail(inbox[n][s]) =>
             (Ids(pub[n]) \cup Ids(sub[n])) \ (Ids(pub'[n]) \cup Ids(sub'[n]))
                 \subseteq Requested(Head(inbox[n][s]))]_vars

Published(n, x) == \E i \in DOMAIN pub[n] : pub[n][i].name = x
Subscribed(n, x) == \E i \in DOMAIN sub[n] : SidOf[sub[n][i].name] = SidOf[x]

\* Publish -> discover -> follow-up (spec scenario S4): once a device
\* publishes a service another device subscribes to, the subscriber's
\* follow-up eventually reaches the publisher, whose receive handler
\* (cmd.c:192-215) cancels the publication.
PublicationAnswered ==
    \A a, b \in Node, x \in Names :
        a # b => [](Published(a, x) /\ Subscribed(b, x) => <>~Published(a, x))
=============================================================================
