----------------------------- MODULE WireFormat -----------------------------
(***************************************************************************)
(* The messages of the client protocol and their form on the wire:         *)
(* upk_protocol.[ch], upk_v0_protocol.c, upk_v0_protocol_serializer.c and  *)
(* upk_protocol_serializer.c.  What the create, serial and deserial        *)
(* functions do, field by field and in their order, is a table for each    *)
(* family of functions.                                                    *)
(*                                                                         *)
(* A buffer is a sequence of cells.  A 32 bit number takes a Word of two   *)
(* cells (digits of base 4096), a bool and a character one: widths differ, *)
(* as 4 and 1 bytes do.  The assumption that strings are shorter than      *)
(* UPK_MAX_STRING_LEN is the one the fixed arrays of the structs make.     *)
(***************************************************************************)
EXTENDS Integers, Sequences, SequencesExt

Base == 4096
WordLen == 2
Cell == 0 .. Base - 1
UInt32 == 0 .. Base * Base - 1
Word(n) == <<n \div Base, n % Base>>
Number(w) == w[1] * Base + w[2]

(* The n cells at offset at of a buffer; memory behind it reads as zero.   *)
Cells(buf, at, n) ==
  [i \in 1 .. n |-> IF at + i <= Len(buf) THEN buf[at + i] ELSE 0]

(* The members of a struct: the kind tells how one is put and fetched.  An *)
(* enum is put as a number.  L is the <name>_len that belongs to a string. *)
U(name) == [kind |-> "number", name |-> name]
E(name) == U(name)
B(name) == [kind |-> "bool", name |-> name]
L(name) == [kind |-> "length", name |-> name]
S(name) == [kind |-> "string", name |-> name]
Id == E("msgtype")

PktTypes == [request |-> 1, reply |-> 2, pubmsg |-> 3]
PktLimit == 4

ReqTypes == <<"req_preamble", "req_seq_start", "req_seq_end", "req_action",
  "req_signal", "req_list", "req_status", "req_subscribe", "req_unsubscribe",
  "req_disconnect">>
ReplTypes == <<"repl_preamble", "repl_seq_start", "repl_seq_end", "repl_result",
  "repl_listing", "repl_svcinfo", "repl_ack", "repl_error">>
PubTypes == <<"pub_publication", "pub_cancelation">>

(* UPK_REQ_ORIGIN, UPK_REPL_ORIGIN, UPK_PUB_ORIGIN *)
Origin == [request |-> 1, reply |-> 4096, pubmsg |-> 8192]
Family == [request |-> ReqTypes, reply |-> ReplTypes, pubmsg |-> PubTypes]

(* The family of a type, and its value: the types of a family are numbered *)
(* from its origin.                                                        *)
PktOf(t) == CHOOSE p \in DOMAIN Family : t \in Range(Family[p])
MsgCode(t) ==
  Origin[PktOf(t)] +
    (CHOOSE i \in DOMAIN Family[PktOf(t)] : Family[PktOf(t)][i] = t) - 1

(* UPK_MSGTYPE_IDX: the _LIMIT of a family is two past its last type, and  *)
(* the families are numbered one after the other.                          *)
MsgtypeIdx(code) ==
  LET Limit(p) == Origin[p] + Len(Family[p]) + 1
      Size(p) == Limit(p) - Origin[p] - 1
  IN CASE code < Limit("request") -> code - Origin.request
       [] code >= Limit("request") /\ code < Limit("reply") ->
            (code - Origin.reply) + Size("request")
       [] OTHER -> (code - Origin.pubmsg) + Size("request") + Size("reply")

(* Mutant: rows of the table in another order than the enumeration. *)
MutantMsgSizes == <<"req_preamble", "req_seq_start", "req_seq_end", "req_action",
  "req_list", "req_signal", "req_status", "req_subscribe", "req_unsubscribe",
  "req_disconnect", "repl_preamble", "repl_seq_start", "repl_seq_end",
  "repl_result", "repl_listing", "repl_svcinfo", "repl_ack", "repl_error",
  "pub_publication", "pub_cancelation">>

(* upk_get_msgsize: the struct whose size is copied for an index. *)
MsgSizes == <<"req_preamble", "req_seq_start", "req_seq_end", "req_action",
  "req_signal", "req_list", "req_status", "req_subscribe", "req_unsubscribe",
  "req_disconnect", "repl_preamble", "repl_seq_start", "repl_seq_end",
  "repl_result", "repl_listing", "repl_svcinfo", "repl_ack", "repl_error",
  "pub_publication", "pub_cancelation">>
-----------------------------------------------------------------------------
(* What the v0_create_* functions fill in, each field adding its length    *)
(* (a string adds a number for its length as well).                        *)
CreateReq ==
  [req_seq_start |-> <<Id, E("msg_seq_type"), U("msg_seq_count")>>,
   req_seq_end |-> <<Id, B("commit")>>,
   req_action |-> <<Id, S("svc_id"), S("action")>>,
   req_signal |-> <<Id, E("signal"), B("signal_sid"), B("signal_pgrp"), S("svc_id")>>,
   req_list |-> <<Id>>,
   req_status |-> <<Id, S("svc_id"), U("restart_window_seconds")>>,
   req_subscribe |-> <<Id, B("all_svcs"), S("svc_id")>>,
   req_unsubscribe |-> <<Id, B("all_svcs"), S("svc_id")>>,
   req_disconnect |-> <<Id>>]

CreateRepl ==
  [repl_seq_start |-> <<Id, E("msg_seq_type"), U("msg_seq_count")>>,
   repl_seq_end |-> <<Id, B("commit")>>,
   repl_result |-> <<Id, B("successful"), S("msg")>>,
   repl_listing |-> <<Id, S("svc_id")>>,
   repl_svcinfo |-> <<Id, S("svcinfo"), S("svc_id")>>,
   repl_ack |-> <<Id>>,
   repl_error |-> <<Id, E("errlevel"), E("uerrno"), S("msg"), S("svc_id")>>]

CreatePub == [pub_publication |-> <<Id>>, pub_cancelation |-> <<Id>>]

CreatePreamble ==
  [req_preamble |-> <<Id, U("min_supported_ver"), U("max_supported_ver"),
                      S("client_name")>>,
   repl_preamble |-> <<Id, U("best_version")>>]

Fields(t) ==
  CASE t \in DOMAIN CreatePreamble -> CreatePreamble[t]
    [] t \in DOMAIN CreateReq -> CreateReq[t]
    [] t \in DOMAIN CreateRepl -> CreateRepl[t]
    [] t \in DOMAIN CreatePub -> CreatePub[t]

Names(fs) == {fs[i].name : i \in DOMAIN fs}

(* The members of an upk_svcinfo_t. *)
SvcinfoMembers ==
  <<U("last_action_time"), U("last_action_status"), S("last_action_name"),
    U("last_signal_time"), U("last_signal_status"), E("last_signal_name"),
    U("buddy_pid"), U("proc_pid"), E("current_state"), E("prior_state"),
    U("n_recorded_restarts")>>

(* get_svcinfo_len: the size of the struct with its name array cut to the  *)
(* name's length: eleven numbers and the name.                             *)
SvcinfoLen(info) == 11 * WordLen + Len(info.last_action_name)
Size(args, name) ==
  IF name = "svcinfo" THEN SvcinfoLen(args.svcinfo) ELSE Len(args[name])

(* What the parameters of upk_create_<type> may be: a uint32_t or an enum,  *)
(* a bool, a C string that fits the arrays of max bytes, an svcinfo.       *)
Fits(v, f, max) ==
  CASE f.kind = "number" -> v \in UInt32
    [] f.kind = "bool" -> v \in {0, 1}
    [] f.kind = "string" -> v \in Seq(Cell \ {0}) /\ Len(v) < max
IsSvcinfo(info, max) ==
  /\ info = [name \in Names(SvcinfoMembers) |-> info[name]]
  /\ \A i \in DOMAIN SvcinfoMembers :
       Fits(info[SvcinfoMembers[i].name], SvcinfoMembers[i], max)
IsCall(type, args, max) ==
  /\ \E p \in DOMAIN Family : type \in Range(Family[p])
  /\ \A i \in DOMAIN Fields(type) :
       LET f == Fields(type)[i]
       IN CASE f.name = "msgtype" -> TRUE
            [] f.name = "svcinfo" -> IsSvcinfo(args.svcinfo, max)
            [] OTHER -> Fits(args[f.name], f, max)

(* The UPK_HELPER_ macros: what a member adds to UPK_DATA_LEN.             *)
HelperLen(args, f) ==
  CASE f.kind = "number" -> WordLen
    [] f.kind = "bool" -> 1
    [] f.kind = "string" -> Size(args, f.name) + WordLen

(* The struct they fill: the values of its members, and the <name>_len of  *)
(* those that have a length; so has the name in a svcinfo.                 *)
Sized(fs) == {fs[i].name : i \in {j \in DOMAIN fs : fs[j].kind = "string"}}
SvcinfoStruct(info) ==
  [val |-> info, len |-> [last_action_name |-> Len(info.last_action_name)]]
Struct(type, args) ==
  [val |-> [name \in Names(Fields(type)) |->
              CASE name = "msgtype" -> MsgCode(type)
                [] name = "svcinfo" -> SvcinfoStruct(args.svcinfo)
                [] OTHER -> args[name]],
   len |-> [name \in Sized(Fields(type)) |-> Size(args, name)]]

Total(n) ==
  LET sum[i \in 0 .. Len(n)] == IF i = 0 THEN 0 ELSE sum[i - 1] + n[i]
  IN sum[Len(n)]

(* UPK_INIT_HELPER to UPK_END_HELPER and upk_create_pkt: every member in   *)
(* turn, and the packet around the struct.                                 *)
Packet(type, args) ==
  LET fs == Fields(type)
  IN [type |-> type,
      pkttype |-> PktOf(type),
      payload_len |-> Total([i \in 1 .. Len(fs) |-> HelperLen(args, fs[i])]),
      payload |-> Struct(type, args)]

(* upk_create_<type>(handle, args): the version of the handle selects the  *)
(* functions; there is no other than 0, and any other gives NULL (<<>>).   *)
CreatePkt(version, type, args) ==
  IF version = 0 THEN <<Packet(type, args)>> ELSE <<>>
-----------------------------------------------------------------------------
(* The serial_* functions: the order in which fields are put.              *)
PutPreamble ==
  [req_preamble |-> <<Id, U("min_supported_ver"), U("max_supported_ver"),
                      L("client_name"), S("client_name")>>,
   repl_preamble |-> <<Id, U("best_version")>>]

PutReq ==
  [req_seq_start |-> <<Id, E("msg_seq_type"), U("msg_seq_count")>>,
   req_seq_end |-> <<Id, B("commit")>>,
   req_action |-> <<Id, L("svc_id"), S("svc_id"), L("action"), S("action")>>,
   req_signal |-> <<Id, E("signal"), B("signal_sid"), B("signal_pgrp"),
                    L("svc_id"), S("svc_id")>>,
   req_list |-> <<Id>>,
   req_status |-> <<Id, L("svc_id"), S("svc_id"), U("restart_window_seconds")>>,
   req_subscribe |-> <<Id, B("all_svcs"), L("svc_id"), S("svc_id")>>,
   req_unsubscribe |-> <<Id, B("all_svcs"), L("svc_id"), S("svc_id")>>,
   req_disconnect |-> <<Id>>]

PutRepl ==
  [repl_seq_start |-> <<Id, E("msg_seq_type"), U("msg_seq_count")>>,
   repl_seq_end |-> <<Id, B("commit")>>,
   repl_result |-> <<Id, B("successful"), L("msg"), S("msg")>>,
   repl_listing |-> <<Id, L("svc_id"), S("svc_id")>>,
   repl_svcinfo |-> <<Id, L("svcinfo"), S("svcinfo"), L("svc_id"), S("svc_id")>>,
   repl_ack |-> <<Id>>,
   repl_error |-> <<Id, E("errlevel"), E("uerrno"), L("msg"), S("msg"),
                    L("svc_id"), S("svc_id")>>]

PutPub == [pub_publication |-> <<Id>>, pub_cancelation |-> <<Id>>]

PutSvcinfo ==
  <<U("last_action_time"), U("last_action_status"), L("last_action_name"),
    S("last_action_name"), U("last_signal_time"),
    U("last_signal_status"), E("last_signal_name"), U("buddy_pid"), U("proc_pid"),
    E("current_state"), E("prior_state"), U("n_recorded_restarts")>>

(* The UPK_PUT_ macros.                                                    *)
PutField(data, f) ==
  CASE f.kind = "number" -> Word(data.val[f.name])
    [] f.kind = "bool" -> <<data.val[f.name]>>
    [] f.kind = "length" -> Word(data.len[f.name])
    [] f.kind = "string" -> data.val[f.name]

(* calloc(1, n) filled from its start; what does not fit is not part of    *)
(* the n cells that are sent.                                              *)
Buffer(data, fs, n) ==
  Cells(FlattenSeq([i \in 1 .. Len(fs) |-> PutField(data, fs[i])]), 0, n)

(* serial_pkt_dispatch and the tables it leads to.                         *)
SerialDispatch(t) ==
  CASE t \in DOMAIN PutPreamble -> PutPreamble[t]
    [] t \in DOMAIN PutReq -> PutReq[t]
    [] t \in DOMAIN PutRepl -> PutRepl[t]
    [] t \in DOMAIN PutPub -> PutPub[t]

(* serial_repl_svcinfo serialises the svcinfo first, into a buffer of its  *)
(* own; all of the buffer is put.                                          *)
Serial(type, data) ==
  IF type # "repl_svcinfo" THEN data
  ELSE [data EXCEPT !.val.svcinfo = Buffer(@, PutSvcinfo, data.len.svcinfo)]

SerializePayload(pkt) ==
  Buffer(Serial(pkt.type, pkt.payload), SerialDispatch(pkt.type), pkt.payload_len)

(* upk_crc32 starts at 0 and ends with a complement.  A remainder of       *)
(* another polynomial, of the size of a number.                            *)
Crc32(block) ==
  LET crc[i \in 0 .. Len(block)] ==
        IF i = 0 THEN 0 ELSE (crc[i - 1] * 31 + block[i]) % (Base * Base)
  IN (Base * Base - 1) - crc[Len(block)]

SerializePacket(pkt) ==
  LET buf == SerializePayload(pkt)
  IN Word(pkt.payload_len) \o Word(0) \o Word(0) \o Word(PktTypes[pkt.pkttype])
       \o buf \o Word(Crc32(buf))
-----------------------------------------------------------------------------
(* The deserial_* functions: the order in which fields are fetched.        *)
FetchPreamble ==
  [req_preamble |-> <<Id, U("min_supported_ver"), U("max_supported_ver"),
                      L("client_name"), S("client_name")>>,
   repl_preamble |-> <<Id, U("best_version")>>]

FetchReq ==
  [req_seq_start |-> <<Id, E("msg_seq_type"), U("msg_seq_count")>>,
   req_seq_end |-> <<Id, B("commit")>>,
   req_action |-> <<Id, L("svc_id"), S("svc_id"), L("action"), S("action")>>,
   req_signal |-> <<Id, E("signal"), B("signal_sid"), B("signal_pgrp"),
                    L("svc_id"), S("svc_id")>>,
   req_list |-> <<Id>>,
   req_status |-> <<Id, L("svc_id"), S("svc_id"), U("restart_window_seconds")>>,
   req_subscribe |-> <<Id, B("all_svcs"), L("svc_id"), S("svc_id")>>,
   req_unsubscribe |-> <<Id, B("all_svcs"), L("svc_id"), S("svc_id")>>,
   req_disconnect |-> <<Id>>]

FetchRepl ==
  [repl_seq_start |-> <<Id, E("msg_seq_type"), U("msg_seq_count")>>,
   repl_seq_end |-> <<Id, B("commit")>>,
   repl_result |-> <<Id, B("successful"), L("msg"), S("msg")>>,
   repl_listing |-> <<Id, L("svc_id"), S("svc_id")>>,
   repl_svcinfo |-> <<Id, L("svcinfo"), S("svcinfo"), L("svc_id"), S("svc_id")>>,
   repl_ack |-> <<Id>>,
   repl_error |-> <<Id, E("errlevel"), E("uerrno"), L("msg"), S("msg"),
                    L("svc_id"), S("svc_id")>>]

FetchPub == [pub_publication |-> <<Id>>, pub_cancelation |-> <<Id>>]

FetchSvcinfo ==
  <<U("last_action_time"), U("last_action_status"), L("last_action_name"),
    S("last_action_name"), U("last_signal_time"),
    U("last_signal_status"), E("last_signal_name"), U("buddy_pid"), U("proc_pid"),
    E("current_state"), E("prior_state"), U("n_recorded_restarts")>>

(* The UPK_FETCH_ macros, one after the other: at is UPK_BUF_PTR, the rest *)
(* is UPK_DATA, of which only what was fetched is looked at.               *)
With(f, name, v) == [x \in DOMAIN f \cup {name} |-> IF x = name THEN v ELSE f[x]]
Fetch(buf, st, f) ==
  LET n == CASE f.kind \in {"number", "length"} -> WordLen
             [] f.kind = "bool" -> 1
             [] f.kind = "string" -> st.len[f.name]
      c == Cells(buf, st.at, n)
      v == CASE f.kind \in {"number", "length"} -> Number(c)
             [] f.kind = "bool" -> c[1]
             [] f.kind = "string" -> c
  IN [at |-> st.at + n,
      val |-> IF f.kind = "length" THEN st.val ELSE With(st.val, f.name, v),
      len |-> IF f.kind = "length" THEN With(st.len, f.name, v) ELSE st.len]
FetchFields(buf, fs) ==
  LET st[i \in 0 .. Len(fs)] ==
        IF i = 0 THEN [at |-> 0, val |-> <<>>, len |-> <<>>]
        ELSE Fetch(buf, st[i - 1], fs[i])
  IN [val |-> st[Len(fs)].val, len |-> st[Len(fs)].len]

DeserialDispatch(t) ==
  CASE t \in DOMAIN FetchPreamble -> FetchPreamble[t]
    [] t \in DOMAIN FetchReq -> FetchReq[t]
    [] t \in DOMAIN FetchRepl -> FetchRepl[t]
    [] t \in DOMAIN FetchPub -> FetchPub[t]

(* deserial_repl_svcinfo: the svcinfo is fetched from the buffer that was  *)
(* fetched for it.                                                         *)
Deserial(type, data) ==
  IF type # "repl_svcinfo" THEN data
  ELSE [data EXCEPT !.val.svcinfo = FetchFields(@, FetchSvcinfo)]

(* v0_deserialize_payload: the packet type selects a family, the message   *)
(* type, asserted to be in range, a function of it.  <<>> where the process*)
(* is ended: an assertion, or the empty first row of the table.            *)
DeserializePayload(buf, pkttype) ==
  LET fam == {p \in DOMAIN PktTypes : PktTypes[p] = pkttype}
      p == CHOOSE p \in fam : TRUE
      i == Number(Cells(buf, 0, WordLen)) - Origin[p] + 1
      t == Family[p][i]
  IN IF fam = {} \/ i \notin DOMAIN Family[p] THEN <<>>
     ELSE <<[type |-> t,
             payload |-> Deserial(t, FetchFields(buf, DeserialDispatch(t)))]>>

(* Mutant: the checksum is not verified.                                   *)
MutantDeserializePacket(buf, maxPacket) ==
  LET Num(i) == Number(Cells(buf, (i - 1) * WordLen, WordLen))
      len == Num(1)
      data == Cells(buf, 4 * WordLen, len)
  IN IF len > maxPacket \/ Num(2) # 0 \/ Num(4) >= PktLimit THEN <<>>
     ELSE DeserializePayload(data, Num(4))

(* upk_deserialize_packet: <<>> where it finds an error.  It then returns  *)
(* the packet that it has freed, with no payload, which the caller follows:*)
(* the process ends.                                                       *)
DeserializePacket(buf, maxPacket) ==
  LET Num(i) == Number(Cells(buf, (i - 1) * WordLen, WordLen))
      len == Num(1)
      data == Cells(buf, 4 * WordLen, len)
      crc32 == Number(Cells(buf, 4 * WordLen + len, WordLen))
  IN IF len > maxPacket \/ Num(2) # 0 \/ Num(4) >= PktLimit \/ Crc32(data) # crc32
     THEN <<>>
     ELSE DeserializePayload(data, Num(4))
=============================================================================
