----------------------------- MODULE NanFrames -----------------------------
(***************************************************************************)
(* The frame codec of opennan: how the daemon writes beacons and service   *)
(* discovery frames (src/src/tx.c, src/src/ieee80211.c) and how nan_rx     *)
(* (src/src/rx.c) takes a received frame apart, down to the bytes, over    *)
(* the cursor buffer of NanWire.                                           *)
(*                                                                         *)
(* A frame travels once: a device builds it (Transmit), the medium or the  *)
(* receiving driver may alter it (Alter), the receiver parses it           *)
(* (Receive).  The parse is modelled up to the point where rx.c hands its  *)
(* results on: the peer setter calls of a beacon's attributes (whose       *)
(* effect on synchronisation NanCluster models) and the service            *)
(* descriptors passed to nan_handle_received_service_discovery (whose      *)
(* effect NanServices models).                                             *)
(***************************************************************************)
EXTENDS Integers, Sequences, SequencesExt, Bitwise, NanWire

CONSTANTS
    Self,          \* the receiver's own address (state->self_address)
    Messages,      \* what the devices may send: beacon, sdf and follow-up records
    Cuts,          \* how many bytes a truncating medium may cut off the end
    UnsetFlags,    \* values an uninitialised radiotap flags byte may hold
    UnsetLengths   \* values an uninitialised attribute length may hold

VARIABLES
    phase,     \* "idle", then "sent", then "received"
    sent,      \* the message the sender built a frame from
    frame,     \* the bytes that reach the receiver
    fault,     \* how the frame was altered on the way
    outcome    \* what nan_rx made of it

vars == <<phase, sent, frame, fault, outcome>>

-----------------------------------------------------------------------------
(* Constants of the daemon's headers.                                      *)

BufMaxLength == 65535                       \* wire.h BUF_MAX_LENGTH
NanOui == <<\h50, \h6f, \h9a>>        \* 50:6F:9A
OuiTypeBeacon == \h13
OuiTypeAction == \h18
OuiTypeServiceDiscovery == \h13
FtypeMgmtBeacon == \h80
FtypeMgmtAction == \hD0
RadiotapFlagsBit == 1
RadiotapRateBit == 2
RadiotapAntSignalBit == 5
FlagFcs == \h10                           \* IEEE80211_RADIOTAP_F_FCS
FlagBadFcs == \h40                        \* IEEE80211_RADIOTAP_F_BADFCS
SyncIntervalTu == 512
DiscoveryIntervalTu == 100
MasterIndicationId == 0
ClusterId == 1
SdaId == 3
SdeaId == \h0e
DeviceCapabilityId == \h0f
AvailabilityId == \h12
ControlPublish == 0
ControlSubscribe == 1
ControlFollowUp == 2

\* rx.h enum rx_result
RX_OK == 0
RX_IGNORE == 1
RX_IGNORE_FROM_SELF == 2
RX_IGNORE_FAILED_CRC == 4
RX_IGNORE_OUI == 7
RX_TOO_SHORT == -1
RX_UNEXPECTED_FORMAT == -2
RX_UNEXPECTED_TYPE == -3

\* Bit i of the integer x.
BitSet(x, i) == (x \div 2^i) % 2 = 1

\* Bit-field layouts of attributes.h: GCC fills a field's bytes from bit 0
\* up, in declaration order, and the target is little-endian.
\* struct nan_service_descriptor_control
SdaControlBit ==
    [matching_filter_present |-> 2, service_response_filter_present |-> 3,
     service_info_present |-> 4, binding_bitmap_present |-> 6]
\* struct nan_service_descriptor_extension_control
SdeaControlBit == [range_limit_present |-> 8, service_update_indicator_present |-> 9]

\* A struct ether_addr of the model's small address values.
EtherAddr(a) == <<a, 0, 0, 0, 0, 0>>

\* The FCS word.  No receive path reads it (nan_rx trusts the radiotap
\* BADFCS flag), so the model writes a fixed word where crc32 goes.
FcsWord == <<0, 0, 0, 0>>

-----------------------------------------------------------------------------
(* Building frames (tx.c, ieee80211.c).                                    *)

\* ieee80211_add_radiotap_header: FLAGS (F_FCS) when fcs is on, RATE 2,
\* and the antenna-signal placeholder 200; it_len covers the fields.
RadiotapHeader(fcs) ==
    LET fields  == (IF fcs THEN <<FlagFcs>> ELSE <<>>) \o <<2, 200>>
        present == (IF fcs THEN 2^RadiotapFlagsBit ELSE 0)
                   + 2^RadiotapRateBit + 2^RadiotapAntSignalBit
    IN  <<0, 0>> \o LeBytes(8 + Len(fields), 2) \o LeBytes(present, 4) \o fields

\* ieee80211_add_nan_header: frame control, duration 0, addr1 = dst,
\* addr2 = src, addr3 = bssid, sequence number shifted left by 4.
NanHeader(src, dst, bssid, seq, type) ==
    LeBytes(type, 2) \o <<0, 0>> \o EtherAddr(dst) \o EtherAddr(src)
    \o EtherAddr(bssid) \o LeBytes(seq * 16, 2)

\* A NAN attribute: id, little-endian length, value (the header written
\* through struct nan_attribute_header with the length filled in last).
Attribute(id, body) == <<id>> \o LeBytes(Len(body), 2) \o body

\* nan_add_master_indication_attribute
MasterIndicationAttribute(m) == Attribute(MasterIndicationId, <<m.mp, m.rf>>)

\* nan_add_cluster_attribute
ClusterAttribute(m) ==
    Attribute(ClusterId, LeBytes(m.amr, 8) \o <<m.hop>> \o LeBytes(m.ambtt, 4))

\* nan_add_beacon_header, with the vendor element length that
\* nan_build_beacon_frame adds the attributes to (a uint8_t sum).
BeaconHeader(m, attributesLength) ==
    LeBytes(m.ts, 8)
    \o LeBytes(IF m.btype = "sync" THEN SyncIntervalTu ELSE DiscoveryIntervalTu, 2)
    \o LeBytes(\h0420, 2) \o <<\hdd, (4 + attributesLength) % 256>>
    \o NanOui \o <<OuiTypeBeacon>>

\* nan_build_beacon_frame: the parts written one after another.
BeaconParts(m) ==
    LET attrs == MasterIndicationAttribute(m) \o ClusterAttribute(m)
    IN  <<RadiotapHeader(TRUE),
          NanHeader(m.src, m.dst, m.cid, m.seq, FtypeMgmtBeacon),
          BeaconHeader(m, Len(attrs)), attrs, FcsWord>>
\* nan_add_service_discovery_header: public action, vendor specific, the
\* NAN OUI and OUI type 0x13.
SdfHeader(m) ==
    RadiotapHeader(TRUE) \o NanHeader(m.src, m.dst, m.cid, m.seq, FtypeMgmtAction)
    \o <<4, 9>> \o NanOui \o <<OuiTypeServiceDiscovery>>

\* struct nan_device_capability_attribute after its header: map_id, the
\* committed DW info (2 bytes, dw_2_4_ghz in bits 0-2), the supported bands
\* (band_2_4_ghz is bit 2), the operation mode, both antenna counts in one
\* byte, max_channel_switch_time (2 bytes) and the capabilities.
DeviceCapabilityBody(dw24, bands) ==
    <<0>> \o LeBytes(dw24, 2) \o <<bands, 0, 0>> \o LeBytes(0, 2) \o <<0>>

\* nan_add_device_capability_attribute: the struct zeroed, then committed
\* dw_2_4_ghz = 1 and band_2_4_ghz set.
DeviceCapabilityAttribute == Attribute(DeviceCapabilityId, DeviceCapabilityBody(1, 2^2))

\* enum nan_availability_type
AVAILABILITY_COMITTED == 1

\* struct nan_availability_attribute_control: map_id in bits 0-3 of 2 bytes.
AvailabilityAttributeControl(mapId) == LeBytes(mapId, 2)

\* struct nan_availability_entry_control: availability_type in bits 0-2,
\* time_bitmap_present in bit 12; struct nan_availability_time_bitmap_control
\* is 2 bytes, zero here.
AvailabilityEntryControl(type) == LeBytes(type, 2)
TimeBitmapControl == LeBytes(0, 2)

\* nan_add_availability_attribute: sequence id 0, map id 1, one committed
\* entry of length 5 without a time bitmap.
AvailabilityAttribute ==
    Attribute(AvailabilityId, <<0>> \o AvailabilityAttributeControl(1) \o LeBytes(5, 2)
                              \o AvailabilityEntryControl(AVAILABILITY_COMITTED)
                              \o TimeBitmapControl \o <<0>>)

\* A service's info travels in the descriptor when it is shorter than 256
\* bytes, in the extension otherwise; hasInfo is FALSE for a NULL info.
SmallInfo(hasInfo, info) == hasInfo /\ Len(info) < 256
LargeInfo(hasInfo, info) == hasInfo /\ Len(info) >= 256

\* nan_add_service_descriptor_attribute: the control byte carries the
\* type in bits 0-1 and service_info_present in bit 4.
SdaAttribute(s, controlType, requestor, hasInfo, info) ==
    Attribute(SdaId,
        s.sid \o <<s.iid, requestor,
                   controlType + (IF SmallInfo(hasInfo, info)
                                  THEN 2^SdaControlBit.service_info_present ELSE 0)>>
        \o (IF SmallInfo(hasInfo, info) THEN <<Len(info)>> \o info ELSE <<>>))

\* nan_add_service_descriptor_extension_attribute: the control word has
\* service_update_indicator_present (bit 9) for a published service; a
\* large info is written as its length and its bytes.
SdeaAttribute(s, hasInfo, info) ==
    Attribute(SdeaId,
        <<s.iid>> \o LeBytes(IF s.type = "published"
                            THEN 2^SdeaControlBit.service_update_indicator_present ELSE 0, 2)
        \o (IF s.type = "published" THEN <<s.sui>> ELSE <<>>)
        \o (IF LargeInfo(hasInfo, info) THEN LeBytes(Len(info), 2) \o info ELSE <<>>))

\* nan_build_service_discovery_frame: capability, availability, then a
\* descriptor and an extension for every announced service.
SdfParts(m) ==
    <<SdfHeader(m), DeviceCapabilityAttribute, AvailabilityAttribute>>
    \o [i \in 1..Len(m.services) |->
          LET s == m.services[i]
          IN  SdaAttribute(s, IF s.type = "subscribed" THEN ControlSubscribe
                                                       ELSE ControlPublish,
                           0, s.hasInfo, s.info)
              \o SdeaAttribute(s, s.hasInfo, s.info)]
    \o <<FcsWord>>

\* nan_transmit: a follow-up descriptor, an extension only for a large
\* info.
FollowUpParts(m) ==
    <<SdfHeader(m), SdaAttribute(m.service, ControlFollowUp, m.requestor, m.hasInfo, m.info)>>
    \o (IF LargeInfo(m.hasInfo, m.info)
        THEN <<SdeaAttribute(m.service, m.hasInfo, m.info)>> ELSE <<>>)
    \o <<FcsWord>>

\* The buffer of BUF_MAX_LENGTH bytes the daemon builds a frame in
\* (nan_send_beacon, nan_send_service_discovery_frame, nan_transmit).
Build(m) ==
    LET parts == CASE m.kind = "beacon"   -> BeaconParts(m)
                   [] m.kind = "sdf"      -> SdfParts(m)
                   [] m.kind = "followup" -> FollowUpParts(m)
    IN  FoldLeft(WriteBytes, BufNewOwned(BufMaxLength), parts)
-----------------------------------------------------------------------------
(* Parsing (rx.c).  A parser threads the cursor through its reads in the   *)
(* order of the code; what it hands on is its "out" sequence.              *)

\* The result of a parser that failed or had nothing to hand on.
Failed(res) == [res |-> res, out |-> <<>>]

\* nan_parse_master_indication_attribute: preference and random factor,
\* then nan_peer_set_master_indication.
ParseMasterIndication(b) ==
    LET mp == ReadLe(b, 1)
        rf == ReadLe(mp.buf, 1)
    IN  IF rf.buf.err # 0 THEN Failed(RX_TOO_SHORT)
        ELSE [res |-> RX_OK,
              out |-> <<[set |-> "master_indication", mp |-> mp.val, rf |-> rf.val]>>]

\* nan_parse_cluster_attribute: rank (le64), hop count, AMBTT (le32), then
\* nan_peer_set_anchor_master_information.
ParseCluster(b) ==
    LET amr   == ReadLe(b, 8)
        hop   == ReadLe(amr.buf, 1)
        ambtt == ReadLe(hop.buf, 4)
    IN  IF ambtt.buf.err # 0 THEN Failed(RX_TOO_SHORT)
        ELSE [res |-> RX_OK,
              out |-> <<[set |-> "anchor_master", amr |-> amr.val,
                         hop |-> hop.val, ambtt |-> ambtt.val]>>]

\* nan_parse_sda: the fixed fields, then the optional ones the control
\* byte announces (binding bitmap bit 6, matching filter bit 2, service
\* response filter bit 3, service info bit 4).  When the control read
\* fails the code tests bits of uninitialised memory; every access after
\* it fails too (nothing is left), so the value does not matter.
ParseSda(b) ==
    LET sid  == ReadBytes(b, 6)
        iid  == ReadLe(sid.buf, 1)
        req  == ReadLe(iid.buf, 1)
        ctl  == ReadLe(req.buf, 1)
        c    == ctl.val
        bb   == IF BitSet(c, SdaControlBit.binding_bitmap_present) THEN BufAdvance(ctl.buf, 2) ELSE ctl.buf
        mfl  == ReadLe(bb, 1)
        mf   == IF BitSet(c, SdaControlBit.matching_filter_present) THEN BufAdvance(mfl.buf, mfl.val) ELSE bb
        srfl == ReadLe(mf, 1)
        srf  == IF BitSet(c, SdaControlBit.service_response_filter_present) THEN BufAdvance(srfl.buf, srfl.val) ELSE mf
        il   == ReadLe(srf, 1)
        info == IF BitSet(c, SdaControlBit.service_info_present) THEN ReadBytes(il.buf, il.val)
                ELSE [buf |-> srf, val |-> <<>>]
    IN  IF info.buf.err # 0 THEN Failed(RX_TOO_SHORT)
        ELSE [res |-> RX_OK,
              out |-> <<[sid |-> sid.val, iid |-> iid.val, requestor |-> req.val,
                         type |-> c % 4, hasInfo |-> BitSet(c, SdaControlBit.service_info_present), info |-> info.val]>>]

\* nan_parse_sdea: instance, control word, range limit (bit 8), update
\* indicator (bit 9), then a large info when more than two bytes are left:
\* length, OUI, protocol type and length - 4 bytes.  A length below 4
\* makes the size_t count wrap; read_bytes compares it as a negative int,
\* succeeds, and moves the cursor back, as ReadBytes does with a negative n.
ParseSdea(b, length) ==
    LET iid == ReadLe(b, 1)
        ctl == ReadLe(iid.buf, 2)
        rl  == IF BitSet(ctl.val, SdeaControlBit.range_limit_present) THEN BufAdvance(ctl.buf, 4) ELSE ctl.buf
        sui == IF BitSet(ctl.val, SdeaControlBit.service_update_indicator_present) THEN ReadLe(rl, 1) ELSE [buf |-> rl, val |-> 0]
        big == sui.buf.pos + 2 < length
        len == ReadLe(sui.buf, 2)
        oui == ReadBytes(len.buf, 3)
        ssi == ReadBytes(BufAdvance(oui.buf, 1), len.val - 4)
        end == IF big THEN ssi.buf ELSE sui.buf
    IN  IF end.err # 0 THEN Failed(RX_TOO_SHORT)
        ELSE [res |-> RX_OK,
              out |-> <<[extension |-> iid.val, sui |-> sui.val,
                         hasInfo |-> big, info |-> IF big THEN ssi.val ELSE <<>>]>>]

\* The switch in the body of NAN_ITERATE_ATTRIBUTES in nan_rx_beacon; any
\* other id is RX_IGNORE.
HandleBeaconAttribute(id, b) ==
    CASE id = MasterIndicationId -> ParseMasterIndication(b)
      [] id = ClusterId          -> ParseCluster(b)
      [] OTHER                   -> Failed(RX_IGNORE)

\* The same switch in nan_rx_service_discovery.
HandleSdfAttribute(id, b, length) ==
    CASE id = SdaId  -> ParseSda(b)
      [] id = SdeaId -> ParseSdea(b, length)
      [] OTHER       -> Failed(RX_IGNORE)

\* The handle argument of NAN_ITERATE_ATTRIBUTES, run on the attribute
\* buffer of each attribute read.
Handle(kind, id, b, length) ==
    IF kind = "beacon" THEN HandleBeaconAttribute(id, b)
    ELSE HandleSdfAttribute(id, b, length)

\* The attribute header read with a big-endian length.
ReadNextBigEndian(b, prevLen) ==
    LET id  == ReadLe(b, 1)
        len == IF BufRest(id.buf) < 2
               THEN [buf |-> [id.buf EXCEPT !.err = -1], val |-> prevLen]
               ELSE LET r == ReadBytes(id.buf, 2)
                    IN  [buf |-> r.buf, val |-> 256 * r.val[1] + r.val[2]]
        val == ReadBytes(len.buf, len.val)
    IN  [buf |-> val.buf, id |-> id.val, length |-> len.val, body |-> val.val,
         n |-> IF val.buf.err < 0 THEN RX_TOO_SHORT ELSE 3 + len.val]

\* nan_attribute_read_next: id, length, value.  When the length read fails
\* the variable keeps what it held: the previous attribute's length, or
\* whatever was on the stack before the first one (prevLen).
ReadNext(b, prevLen) ==
    LET id  == ReadLe(b, 1)
        len == IF BufRest(id.buf) < 2
               THEN [buf |-> [id.buf EXCEPT !.err = -1], val |-> prevLen]
               ELSE ReadLe(id.buf, 2)
        val == ReadBytes(len.buf, len.val)
    IN  [buf |-> val.buf, id |-> id.val, length |-> len.val, body |-> val.val,
         n |-> IF val.buf.err < 0 THEN RX_TOO_SHORT ELSE 3 + len.val]

\* NAN_ITERATE_ATTRIBUTES: hand every attribute read to the handler and
\* stop at the first negative result; the loop ends when a read fails, and
\* then the frame is RX_OK if nothing is left after the cursor, else
\* RX_UNEXPECTED_FORMAT.  "handled" lists the attributes given to the
\* handler, "out" what the handlers handed on.
RECURSIVE Walk(_, _, _, _, _), WalkOn(_, _, _, _), WalkAfter(_, _, _, _, _)
Walk(kind, b, prevLen, handled, out) == WalkOn(kind, ReadNext(b, prevLen), handled, out)

\* One pass of the loop on the attribute a just read.
WalkOn(kind, a, handled, out) ==
    IF a.n > 0
    THEN WalkAfter(kind, a, Handle(kind, a.id, BufNewConst(a.body), a.length),
                   Append(handled, <<a.id, a.body>>), out)
    ELSE [res |-> IF BufRest(a.buf) > 0 THEN RX_UNEXPECTED_FORMAT ELSE RX_OK,
          handled |-> handled, out |-> out]

\* The handler's result h: break on a negative one, else read on.
WalkAfter(kind, a, h, seen, out) ==
    IF h.res < 0
    THEN [res |-> h.res, handled |-> seen, out |-> out]
    ELSE Walk(kind, a.buf, a.length, seen, out \o h.out)

\* nan_get_beacon_type (frame.c); "unknown" stands for its -1.
BeaconType(interval) ==
    CASE interval = DiscoveryIntervalTu -> "discovery"
      [] interval = SyncIntervalTu      -> "sync"
      [] OTHER                          -> "unknown"

\* nan_parse_beacon_header: timestamp, interval, capability, element id
\* and length, OUI and OUI type; then the OUI check and the beacon type.
ParseBeaconHeader(b) ==
    LET ts  == ReadLe(b, 8)
        bi  == ReadLe(ts.buf, 2)
        cap == ReadLe(bi.buf, 2)
        eid == ReadLe(cap.buf, 1)
        len == ReadLe(eid.buf, 1)
        oui == ReadBytes(len.buf, 3)
        ot  == ReadLe(oui.buf, 1)
    IN  [buf |-> ot.buf, ts |-> ts.val, btype |-> BeaconType(bi.val),
         res |-> IF ot.buf.err # 0 THEN RX_TOO_SHORT
                 ELSE IF oui.val # NanOui \/ ot.val # OuiTypeBeacon THEN RX_IGNORE_OUI
                 ELSE IF BeaconType(bi.val) = "unknown" THEN RX_UNEXPECTED_TYPE
                 ELSE RX_OK]

\* What nan_rx reports for a frame: the result code, the addresses of the
\* 802.11 header, whether nan_peer_add ran (refreshing the sender's
\* last_update), the beacon type and timestamp, what the attribute
\* handlers handed on ("calls": peer setter calls of a beacon, the service
\* descriptors delivered from a service discovery frame), and, for a frame
\* whose attributes were walked, the bytes walked and what was handled.
NoOutcome ==
    [res |-> RX_OK, src |-> <<>>, dst |-> <<>>, cid |-> <<>>, peer |-> FALSE,
     btype |-> "none", ts |-> 0, calls |-> <<>>, walked |-> FALSE,
     attrs |-> <<>>, handled |-> <<>>]

\* The bytes from the cursor to the end of the window.
Window(b) == SubSeq(b.data, b.pos + 1, b.end)

\* nan_rx_beacon up to its attribute walk; what follows it
\* (nan_peer_set_beacon_information, the master preference, candidate and
\* anchor master logic) is the beacon handling of NanCluster.
BeaconDelivered(h, w, o) ==
    [o EXCEPT !.res = w.res, !.peer = TRUE, !.btype = h.btype,
              !.ts = h.ts, !.calls = w.out, !.walked = TRUE,
              !.attrs = Window(h.buf), !.handled = w.handled]

\* After the beacon header h: stop on its result, else walk the attributes.
BeaconWalked(h, o, unsetLen) ==
    IF h.res # RX_OK THEN [o EXCEPT !.res = h.res]
    ELSE BeaconDelivered(h, Walk("beacon", h.buf, unsetLen, <<>>, <<>>), o)

RxBeacon(b, o, unsetLen) == BeaconWalked(ParseBeaconHeader(b), o, unsetLen)

\* nan_rx_service_discovery without the forwarding of the desync
\* experiment: the descriptors are delivered only when the walk succeeded;
\* the extensions are parsed and dropped.
SdfDelivered(w, attrs, o) ==
    [o EXCEPT !.res = w.res,
              !.calls = IF w.res < 0 THEN <<>>
                        ELSE SelectSeq(w.out, LAMBDA x : "sid" \in DOMAIN x),
              !.walked = TRUE, !.attrs = attrs, !.handled = w.handled]

RxServiceDiscovery(b, o, unsetLen) ==
    SdfDelivered(Walk("sdf", b, unsetLen, <<>>, <<>>), Window(b), o)

\* nan_rx_action: at least a struct nan_action_frame (7 bytes), the NAN
\* OUI, nan_peer_add, then service discovery (OUI type 0x13, 6 bytes of
\* header) or a NAN action frame (0x18), anything else ignored.
RxAction(b, o, unsetLen) ==
    LET af == SubSeq(b.data, b.pos + 1, b.pos + 7)
        op == [o EXCEPT !.peer = TRUE]
    IN  IF BufRest(b) < 7 THEN [o EXCEPT !.res = RX_TOO_SHORT]
        ELSE IF SubSeq(af, 3, 5) # NanOui THEN [o EXCEPT !.res = RX_IGNORE_OUI]
        ELSE IF af[6] = OuiTypeServiceDiscovery
             THEN RxServiceDiscovery(BufAdvance(b, 6), op, unsetLen)
        ELSE IF af[6] # OuiTypeAction THEN [op EXCEPT !.res = RX_IGNORE]
        ELSE op

\* ieee80211_parse_radiotap_header with the radiotap iterator library
\* (not part of this repository) for the one-byte fields FLAGS, RATE and
\* DBM_ANTSIGNAL, the only ones in the frames modelled: the header must be
\* version 0 and fit, the fields must fit in it_len.
RadiotapValid(b) ==
    LET hdr     == SubSeq(b.data, b.pos + 1, b.pos + 8)
        present == LeValue(SubSeq(hdr, 5, 8))
        fields  == SelectSeq(<<RadiotapFlagsBit, RadiotapRateBit, RadiotapAntSignalBit>>,
                             LAMBDA i : BitSet(present, i))
    IN  /\ BufRest(b) >= 8
        /\ hdr[1] = 0
        /\ LeValue(SubSeq(hdr, 3, 4)) <= BufRest(b)
        /\ 8 + Len(fields) <= LeValue(SubSeq(hdr, 3, 4))

\* The cursor after the radiotap header (buf_advance by it_len), and the
\* flags byte; without a FLAGS field nan_rx's flags variable stays
\* uninitialised (unsetFlags).
RadiotapLength(b) == LeValue(SubSeq(b.data, b.pos + 3, b.pos + 4))
RadiotapFlags(b, unsetFlags) ==
    IF BitSet(LeValue(SubSeq(b.data, b.pos + 5, b.pos + 8)), RadiotapFlagsBit)
    THEN b.data[b.pos + 9] ELSE unsetFlags

\* ieee80211_parse_fcs: a BADFCS flag fails, an FCS flag takes the 4
\* trailing bytes off the window (failing when fewer are left).
ParseFcs(b, flags) ==
    IF (flags & FlagBadFcs) # 0 THEN [res |-> -1, buf |-> b]
    ELSE IF (flags & FlagFcs) # 0
         THEN LET t == BufTake(b, 4)
              IN  [res |-> IF t.err # 0 THEN -1 ELSE 4, buf |-> t]
    ELSE [res |-> 0, buf |-> b]

\* nan_rx: radiotap, FCS, the 802.11 header (24 bytes), the own-frame
\* check, then the beacon or action path by frame control type/subtype.
NanRx(bytes, unsetFlags, unsetLen) ==
    LET b0   == BufNewConst(bytes)
        fcs  == ParseFcs(BufAdvance(b0, RadiotapLength(b0)), RadiotapFlags(b0, unsetFlags))
        b    == fcs.buf
        hdr  == SubSeq(b.data, b.pos + 1, b.pos + 24)
        o    == [NoOutcome EXCEPT !.dst = SubSeq(hdr, 5, 10),
                     !.src = SubSeq(hdr, 11, 16), !.cid = SubSeq(hdr, 17, 22)]
        fc   == LeValue(SubSeq(hdr, 1, 2)) & \hFC
        rest == BufAdvance(b, 24)
    IN  IF ~RadiotapValid(b0) THEN [NoOutcome EXCEPT !.res = RX_UNEXPECTED_FORMAT]
        ELSE IF fcs.res < 0 THEN [NoOutcome EXCEPT !.res = RX_IGNORE_FAILED_CRC]
        ELSE IF BufRest(b) < 24 THEN [NoOutcome EXCEPT !.res = RX_TOO_SHORT]
        ELSE IF o.src = EtherAddr(Self) THEN [o EXCEPT !.res = RX_IGNORE_FROM_SELF]
        ELSE IF fc = FtypeMgmtBeacon THEN RxBeacon(rest, o, unsetLen)
        ELSE IF fc = FtypeMgmtAction THEN RxAction(rest, o, unsetLen)
        ELSE [o EXCEPT !.res = RX_UNEXPECTED_TYPE]
-----------------------------------------------------------------------------
(* The specification: one frame built, perhaps altered, and received.      *)

Byte == 0..255

\* How a frame can reach nan_rx other than as built: cut short by k bytes
\* with its radiotap header intact, flagged by the driver as failing its
\* CRC, or delivered by a driver that reports no FLAGS field and has
\* already removed the FCS.
Faults == {[kind |-> k, cut |-> 0] : k \in {"none", "badfcs", "noflags"}}
          \cup {[kind |-> "cut", cut |-> k] : k \in Cuts}

Intact == [kind |-> "none", cut |-> 0]

Init ==
    /\ phase = "idle"
    /\ sent = [kind |-> "none"]
    /\ frame = <<>>
    /\ fault = Intact
    /\ outcome = NoOutcome

\* nan_send_beacon, nan_send_service_discovery_frame, nan_transmit: build
\* the frame in a fresh buffer and hand buf_position bytes to the driver;
\* nan_send_beacon drops a beacon whose buffer reports an error.
Transmit ==
    /\ phase = "idle"
    /\ \E m \in Messages :
          LET w == Build(m)
          IN  /\ m.kind = "beacon" => w.err = 0
              /\ sent' = m
              /\ frame' = Written(w)
    /\ phase' = "sent"
    /\ UNCHANGED <<fault, outcome>>

\* The medium or the receiving driver alters the frame once.
Alter ==
    /\ phase = "sent" /\ fault = Intact
    /\ \E f \in Faults \ {Intact} :
          /\ fault' = f
          /\ frame' =
               CASE f.kind = "badfcs"  -> [frame EXCEPT ![9] = FlagFcs + FlagBadFcs]
                 [] f.kind = "noflags" -> RadiotapHeader(FALSE)
                                          \o SubSeq(frame, 12, Len(frame) - 4)
                 [] f.kind = "cut"     -> SubSeq(frame, 1, Len(frame) - f.cut)
    /\ UNCHANGED <<phase, sent, outcome>>

\* nan_receive_frame: nan_rx on the captured bytes.  The values of the
\* variables the code reads uninitialised are chosen here.
Receive ==
    /\ phase = "sent"
    /\ \E f \in UnsetFlags, u \in UnsetLengths : outcome' = NanRx(frame, f, u)
    /\ phase' = "received"
    /\ UNCHANGED <<sent, frame, fault>>

Next == Transmit \/ Alter \/ Receive

Spec == Init /\ [][Next]_vars
-----------------------------------------------------------------------------
(* Reference definitions and properties.                                   *)

\* The attribute grammar of the specification (section 4.1): an attribute
\* is an id, a little-endian length and that many bytes.  CompleteTlvs is
\* the longest run of whole attributes at the front of p.
RECURSIVE CompleteTlvs(_)
CompleteTlvs(p) ==
    IF Len(p) < 3 THEN <<>>
    ELSE LET n == LeValue(SubSeq(p, 2, 3))
         IN  IF Len(p) < 3 + n THEN <<>>
             ELSE <<<<p[1], SubSeq(p, 4, 3 + n)>>>> \o CompleteTlvs(SubSeq(p, 4 + n, Len(p)))

\* p consists of whole attributes and nothing else.
RECURSIVE IsTlvStream(_)
IsTlvStream(p) ==
    \/ p = <<>>
    \/ /\ Len(p) >= 3
       /\ Len(p) >= 3 + LeValue(SubSeq(p, 2, 3))
       /\ IsTlvStream(SubSeq(p, 4 + LeValue(SubSeq(p, 2, 3)), Len(p)))

\* What a receiver must make of a message that arrives as it was sent: the
\* addresses, and for a frame of another device the beacon's timestamp
\* and attribute values, or the service descriptors with their info.
Descriptor(s, type, requestor, hasInfo, info) ==
    [sid |-> s.sid, iid |-> s.iid, requestor |-> requestor, type |-> type,
     hasInfo |-> hasInfo, info |-> info]

Expected(m) ==
    LET o == [NoOutcome EXCEPT !.src = EtherAddr(m.src), !.dst = EtherAddr(m.dst),
                               !.cid = EtherAddr(m.cid)]
    IN  IF m.src = Self THEN [o EXCEPT !.res = RX_IGNORE_FROM_SELF]
        ELSE CASE m.kind = "beacon" ->
                    [o EXCEPT !.peer = TRUE, !.btype = m.btype, !.ts = m.ts,
                      !.calls = <<[set |-> "master_indication", mp |-> m.mp, rf |-> m.rf],
                                  [set |-> "anchor_master", amr |-> m.amr,
                                   hop |-> m.hop, ambtt |-> m.ambtt]>>]
               [] m.kind = "sdf" ->
                    [o EXCEPT !.peer = TRUE,
                      !.calls = [i \in 1..Len(m.services) |->
                                   LET s == m.services[i]
                                   IN  Descriptor(s, IF s.type = "subscribed"
                                                     THEN ControlSubscribe ELSE ControlPublish,
                                                  0, s.hasInfo, s.info)]]
               [] m.kind = "followup" ->
                    [o EXCEPT !.peer = TRUE,
                      !.calls = <<Descriptor(m.service, ControlFollowUp, m.requestor, m.hasInfo, m.info)>>]

\* The part of an outcome a receiver acts on.
Delivered(o) ==
    [res |-> o.res, src |-> o.src, dst |-> o.dst, cid |-> o.cid, peer |-> o.peer,
     btype |-> o.btype, ts |-> o.ts, calls |-> o.calls]

TypeOK ==
    /\ phase \in {"idle", "sent", "received"}
    /\ sent \in Messages \cup {[kind |-> "none"]}
    /\ frame \in Seq(Byte)
    /\ fault \in Faults
    /\ outcome.res \in -7..8
    /\ outcome.walked \in BOOLEAN /\ outcome.peer \in BOOLEAN

\* Round trip: a frame that nan_rx receives as the daemon's own builders
\* wrote it (tx.c, ieee80211.c) is decoded into exactly the values it was
\* built from, or ignored as the receiver's own frame.  The code breaks it
\* for a service info of 256 bytes or more, which tx.c:127 sends without
\* the OUI the parser expects; no run of the project includes such a
\* message, so no run checks this property.
RoundTrip ==
    phase = "received" /\ fault = Intact => Delivered(outcome) = Delivered(Expected(sent))

\* The attribute walk (NAN_ITERATE_ATTRIBUTES with nan_attribute_read_next)
\* hands the handlers the attributes of the grammar, in order and none
\* other: a prefix of the whole attributes at the front of the bytes, and
\* all of them unless a handler failed.
WalkFollowsGrammar ==
    phase = "received" /\ outcome.walked =>
        /\ IsPrefix(outcome.handled, CompleteTlvs(outcome.attrs))
        /\ outcome.res \in {RX_OK, RX_UNEXPECTED_FORMAT} =>
              outcome.handled = CompleteTlvs(outcome.attrs)

\* Specification section 4.1: a read past the end fails the parse.  So a
\* frame whose attribute bytes are not whole attributes is never RX_OK.
TruncatedAttributesRejected ==
    phase = "received" /\ outcome.walked /\ outcome.res = RX_OK =>
        IsTlvStream(outcome.attrs)
=============================================================================
