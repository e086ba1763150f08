-------------------------------- MODULE Wire --------------------------------
(***************************************************************************)
(* How a message becomes bytes and fields again: Packet (packet.cpp), the  *)
(* framing of SCTP messages in a byte stream (network.cpp), datagrams      *)
(* (udp_client.cpp, udp_server.cpp, tun.cpp), and what each program        *)
(* appends to and extracts from each of its messages.                      *)
(*                                                                         *)
(* A message is a program of packet operations, the sender's, a transfer   *)
(* and the receiver's.  One packet goes through all of them, and is used   *)
(* for the next message as it was left.  A byte is named by the item it    *)
(* belongs to and its place in it.                                         *)
(***************************************************************************)
EXTENDS Integers, Sequences

CONSTANTS
  Messages,      \* the messages a run exchanges, of DOMAIN Program
  StrLens,       \* the lengths of strings: addresses in dotted notation
  PayloadLens,   \* the lengths of user packets
  MaxSegments    \* bound: pieces the stream may deliver one message in

BUF_SIZE == 1024
TAIListSize == 1      \* elements of the MME's tai_list
hmac_len == 20

VARIABLES
  msg,      \* the message under way
  pc,       \* the operation of its program that is next
  pkt,      \* the packet
  sent,     \* the pieces put in: their widths, and values where one is read
  hdr,      \* the header taken off last
  got,      \* the pieces taken out
  out,      \* what write_stream has still to write
  stream,   \* what is written and not read
  cuts,     \* the writes of the message that were short
  rem,      \* what read_stream has still to read
  reading,  \* "len", then "body", while read_sctp_pkt runs; else "no"
  closed    \* the sender's end of the connection is gone

link == <<out, stream, cuts, rem, reading, closed>>
wireVars == <<msg, pc, pkt, sent, hdr, got, link>>
-----------------------------------------------------------------------------
(* Packet: data up to the last byte written, data_ptr and len.  The rest   *)
(* of the BUF_SIZE bytes is zero.                                          *)
Zero == <<0, 0>>
Header == -1
LenOf(n) == -2 - n    \* what prepend_len puts before n bytes
Bytes(k, w) == [j \in 1 .. w |-> <<k, j>>]
At(p, j) == IF j <= Len(p.data) THEN p.data[j] ELSE Zero
Upto(p, n) == [j \in 1 .. n |-> At(p, j)]
Peek(p, n) == [j \in 1 .. n |-> At(p, p.data_ptr + j)]

(* Faulty variant: the position is left where it was.                      *)
stale_pkt(p) == [p EXCEPT !.data = <<>>, !.len = 0]

clear_pkt(p) == [data |-> <<>>, data_ptr |-> 0, len |-> 0]

append_item(p, bs) ==
  [data     |-> Upto(p, p.data_ptr) \o bs \o
                SubSeq(p.data, p.data_ptr + Len(bs) + 1, Len(p.data)),
   data_ptr |-> p.data_ptr + Len(bs),
   len      |-> p.len + Len(bs)]

prepend_item(p, bs) ==
  [data |-> bs \o Upto(p, p.len), data_ptr |-> p.data_ptr + Len(bs),
   len |-> p.len + Len(bs)]

extract_item(p, n) == [p EXCEPT !.data_ptr = @ + n]

truncate(p) ==
  [data |-> Peek(p, p.len - p.data_ptr), data_ptr |-> 0, len |-> p.len - p.data_ptr]

(* A packet passed by value: len bytes are copied.                         *)
copied(p) == [p EXCEPT !.data = Upto(p, p.len)]

(* What recvfrom and the reading of a tun device leave.                    *)
received(bs) ==
  LET n == IF Len(bs) < BUF_SIZE THEN Len(bs) ELSE BUF_SIZE
  IN [data |-> SubSeq(bs, 1, n), data_ptr |-> 0, len |-> n]
-----------------------------------------------------------------------------
(* The types of items and the headers, with their sizes.                   *)
Width == [bool |-> 1, u8 |-> 1, u16 |-> 2, u32 |-> 4, int |-> 4, u64 |-> 8,
          vec |-> 8 * TAIListSize]
HDR_LEN == [s1ap |-> 12, gtp |-> 16, diameter |-> 4]

(* A dotted address has 15 characters at most, and a user packet leaves    *)
(* room for a tunnel's header (iperf3 -M 500).                             *)
ASSUME LengthsAssumption ==
  StrLens \subseteq 0 .. 15 /\ PayloadLens \subseteq 0 .. BUF_SIZE - HDR_LEN.gtp

(* What each program appends to the body of each message it sends ...      *)
RanAppends ==
  [attach_req |-> <<"u64", "u64", "u64", "u16">>, autn_res |-> <<"u64">>,
   sec_complete |-> <<"bool">>, attach_complete |-> <<"u8", "u32">>,
   detach_req |-> <<"u64", "u64", "u64">>,
   ho_required |-> <<"int", "u16", "u16", "u32", "u32">>, ho_ack |-> <<"u32">>,
   ho_complete |-> <<>>, teardown |-> <<"u32">>]

MmeAppends ==
  [autninfo_req |-> <<"u64", "u16", "u64", "u16">>, autn_req |-> <<"u64", "u64", "u64">>,
   sec_cmd |-> <<"u64", "u16", "u64", "u64">>, loc_update |-> <<"u64", "u32">>,
   s11_create |-> <<"u32", "u64", "u8", "str", "int", "u64", "u64">>,
   attach_accept |-> <<"u64", "u8", "u8", "u32", "u64", "u16", "int", "vec", "u64",
                       "str", "str", "int", "bool">>,
   s11_modify |-> <<"u8", "u32", "str", "int">>, s11_detach |-> <<"u8", "u64">>,
   detach_accept |-> <<"bool">>, ho_request |-> <<"u16", "u32", "u32", "u32">>,
   s11_setup |-> <<"u32">>, ho_tunnel |-> <<"u32">>, s11_complete |-> <<"int">>,
   ho_done |-> <<"bool">>, s11_teardown |-> <<"u32">>]

HssAppends == [autninfo_ans |-> <<"u64", "u64", "u64", "u64">>, loc_ans |-> <<"u64">>]

SgwAppends ==
  [s5_create |-> <<"u32", "u64", "u8", "u32", "u64", "u64">>,
   s11_created |-> <<"u32", "str", "u32", "u32", "u32">>, s11_modified |-> <<"bool">>,
   s5_detach |-> <<"u8", "u64">>, s11_detached |-> <<"bool">>,
   s11_set_up |-> <<"bool", "u32">>, s11_completed |-> <<"bool">>,
   s11_torn_down |-> <<"bool">>]

PgwAppends == [s5_created |-> <<"u32", "u8", "u32", "str">>, s5_detached |-> <<"bool">>]

(* ... and what the program that receives it extracts.                     *)
MmeExtracts ==
  [attach_req |-> <<"u64", "u64", "u64", "u16">>, autn_res |-> <<"u64">>,
   sec_complete |-> <<"bool">>, attach_complete |-> <<"u8", "u32">>,
   detach_req |-> <<"u64", "u64", "u64">>,
   ho_required |-> <<"int", "u16", "u16", "u32", "u32">>, ho_ack |-> <<"u32">>,
   ho_complete |-> <<>>, teardown |-> <<"u32">>,
   autninfo_ans |-> <<"u64", "u64", "u64", "u64">>, loc_ans |-> <<"u64">>,
   s11_created |-> <<"u32", "str", "u32", "u32", "u32">>, s11_modified |-> <<"bool">>,
   s11_detached |-> <<"bool">>, s11_set_up |-> <<"bool", "u32">>,
   s11_completed |-> <<"bool">>, s11_torn_down |-> <<"bool">>]

RanExtracts ==
  [autn_req |-> <<"u64", "u64", "u64">>,
   sec_cmd |-> <<"hmac", "u64", "u16", "u64", "u64">>,
   attach_accept |-> <<"u64", "u8", "u8", "u32", "u64", "u16", "int", "vec", "u64",
                       "str", "str", "int", "bool">>,
   detach_accept |-> <<"bool">>, ho_request |-> <<"u16", "u32", "u32", "u32">>,
   ho_tunnel |-> <<"u32">>, ho_done |-> <<>>]

HssExtracts == [autninfo_req |-> <<"u64", "u16", "u64", "u16">>, loc_update |-> <<"u64", "u32">>]

SgwExtracts ==
  [s11_create |-> <<"u32", "u64", "u8", "str", "int", "u64", "u64">>,
   s11_modify |-> <<"u8", "u32", "str", "int">>, s11_detach |-> <<"u8", "u64">>,
   s11_setup |-> <<"u32">>, s11_complete |-> <<>>, s11_teardown |-> <<"u32">>,
   s5_created |-> <<"u32", "u8", "u32", "str">>, s5_detached |-> <<"bool">>]

PgwExtracts == [s5_create |-> <<"u32", "u64", "u8", "u32", "u64", "u64">>,
                s5_detach |-> <<"u8", "u64">>]
-----------------------------------------------------------------------------
(* The program of a message.                                               *)
Appends(ts) == [k \in DOMAIN ts |-> <<"append", ts[k]>>]
Extracts(ts) == [k \in DOMAIN ts |-> <<"extract", ts[k]>>]

S11Answers == {"s11_created", "s11_modified", "s11_detached", "s11_set_up",
               "s11_completed", "s11_torn_down"}
RanServed == {"ho_request", "ho_tunnel", "ho_done"}

Signals == DOMAIN RanAppends \cup DOMAIN MmeAppends \cup DOMAIN HssAppends
           \cup DOMAIN SgwAppends \cup DOMAIN PgwAppends

Appended(m) ==
  CASE m \in DOMAIN RanAppends -> RanAppends[m]
    [] m \in DOMAIN MmeAppends -> MmeAppends[m]
    [] m \in DOMAIN HssAppends -> HssAppends[m]
    [] m \in DOMAIN SgwAppends -> SgwAppends[m]
    [] OTHER -> PgwAppends[m]

Extracted(m) ==
  CASE m \in DOMAIN MmeExtracts -> MmeExtracts[m]
    [] m \in DOMAIN RanExtracts -> RanExtracts[m]
    [] m \in DOMAIN HssExtracts -> HssExtracts[m]
    [] m \in DOMAIN SgwExtracts -> SgwExtracts[m]
    [] OTHER -> PgwExtracts[m]

HeaderOf(m) ==
  CASE m \in DOMAIN RanAppends \cup DOMAIN RanExtracts -> "s1ap"
    [] m \in DOMAIN HssAppends \cup DOMAIN HssExtracts -> "diameter"
    [] OTHER -> "gtp"

TransportOf(m) == IF HeaderOf(m) = "gtp" THEN "udp" ELSE "sctp"

(* The receiver is a server whose handler takes the packet by value; the   *)
(* HSS's take a reference, and an answer is read in place.                 *)
Handled == DOMAIN RanAppends \cup RanServed \cup DOMAIN PgwExtracts
           \cup (DOMAIN MmeAppends \cap DOMAIN SgwExtracts)

Exchange(m) ==
  <<<<"clear">>>> \o Appends(Appended(m))
  \o <<<<"prepend", HeaderOf(m)>>, <<TransportOf(m)>>, <<"header", HeaderOf(m)>>>>
  \o (IF m \in Handled THEN <<<<"call">>>> ELSE <<>>) \o Extracts(Extracted(m))

(* A user packet: from a tun device through three tunnels' ends to another. *)
Retunnel == <<<<"header", "gtp">>, <<"call">>, <<"truncate">>, <<"prepend", "gtp">>, <<"udp">>>>
Untunnel == <<<<"header", "gtp">>, <<"truncate">>>>

UserData ==
  [uplink |-> <<<<"tun">>, <<"prepend", "gtp">>, <<"udp">>>> \o Retunnel
              \o <<<<"header", "gtp">>, <<"call">>, <<"truncate">>, <<"udp">>, <<"deliver">>>>,
   downlink |-> <<<<"tun">>, <<"udp">>, <<"call">>, <<"prepend", "gtp">>, <<"udp">>>>
                \o Retunnel \o Untunnel \o <<<<"deliver">>>>]

Program ==
  [m \in Signals \cup DOMAIN UserData |->
     IF m \in Signals THEN Exchange(m) ELSE UserData[m]]

ASSUME MessagesAssumption == Messages \subseteq DOMAIN Program

(* Who does not look at pkt.len after a read: handle_mme_conn of the RAN,  *)
(* and the MME when it waits for the HSS.                                  *)
Unchecked == RanServed \cup DOMAIN HssAppends
-----------------------------------------------------------------------------
WireInit ==
  /\ msg = "none" /\ pc = 1
  /\ pkt = [data |-> <<>>, data_ptr |-> 0, len |-> 0]
  /\ sent = <<>> /\ hdr = <<>> /\ got = <<>>
  /\ out = <<>> /\ stream = <<>> /\ cuts = 0 /\ rem = 0 /\ reading = "no"
  /\ closed = FALSE

Done == msg # "none" => pc > Len(Program[msg])

Begin(m) ==
  /\ Done
  /\ msg' = m /\ pc' = 1 /\ sent' = <<>> /\ hdr' = <<>> /\ got' = <<>>
  /\ cuts' = 0 /\ closed' = FALSE
  /\ UNCHANGED <<pkt, out, stream, rem, reading>>

(* The next operation of the program; it does p to the packet.             *)
Op(name) ==
  /\ ~Done /\ msg # "none" /\ reading = "no"
  /\ Program[msg][pc][1] = name

Arg == Program[msg][pc][2]

Turn(p) == pkt' = p /\ pc' = pc + 1 /\ UNCHANGED <<msg, link>>

ClearPkt == Op("clear") /\ Turn(clear_pkt(pkt)) /\ UNCHANGED <<sent, hdr, got>>

Call == Op("call") /\ Turn(copied(pkt)) /\ UNCHANGED <<sent, hdr, got>>

Truncate == Op("truncate") /\ Turn(truncate(pkt)) /\ UNCHANGED <<sent, hdr, got>>

Datagram == Op("udp") /\ Turn(received(Upto(pkt, pkt.len))) /\ UNCHANGED <<sent, hdr, got>>

TunRcv ==
  /\ Op("tun")
  /\ \E n \in PayloadLens :
       Turn(received(Bytes(1, n))) /\ sent' = <<[w |-> n, v |-> 0]>>
  /\ UNCHANGED <<hdr, got>>

TunSnd ==
  /\ Op("deliver")
  /\ Turn(pkt) /\ got' = <<Upto(pkt, pkt.len)>>
  /\ UNCHANGED <<sent, hdr>>

(* A string is two items, its length and its characters.                  *)
AppendItem ==
  /\ Op("append")
  /\ LET next == Len(sent) + 1 IN
     \/ /\ Arg = "str"
        /\ \E l \in StrLens :
             /\ Turn(append_item(append_item(pkt, Bytes(next, 4)), Bytes(next + 1, l)))
             /\ sent' = sent \o <<[w |-> 4, v |-> l], [w |-> l, v |-> 0]>>
     \/ /\ Arg # "str"
        /\ Turn(append_item(pkt, Bytes(next, Width[Arg])))
        /\ sent' = Append(sent, [w |-> Width[Arg], v |-> TAIListSize])
  /\ UNCHANGED <<hdr, got>>

PrependHdr ==
  /\ Op("prepend")
  /\ Turn(prepend_item(pkt, Bytes(Header, HDR_LEN[Arg])))
  /\ UNCHANGED <<sent, hdr, got>>

ExtractHdr ==
  /\ Op("header")
  /\ Turn(extract_item(pkt, HDR_LEN[Arg]))
  /\ hdr' = Peek(pkt, HDR_LEN[Arg])
  /\ UNCHANGED <<sent, got>>

(* The value of the four bytes at the position, if they are an integer.    *)
IntAt(p) ==
  LET k == At(p, p.data_ptr + 1)[1] IN
  IF Peek(p, 4) # Bytes(k, 4) THEN 0
  ELSE IF k <= LenOf(0) THEN -2 - k
  ELSE IF k \in DOMAIN sent THEN sent[k].v ELSE 0

(* extract_item, and rem_hmac, which takes hmac_len bytes out of the way.  *)
ExtractItem ==
  /\ Op("extract")
  /\ LET after == extract_item(pkt, 4)
         n == CASE Arg = "str" -> IntAt(pkt)
                [] Arg = "vec" -> 8 * sent[Len(got)].v
                [] Arg = "hmac" -> hmac_len
                [] OTHER -> Width[Arg]
     IN CASE Arg = "hmac" -> Turn(truncate(extract_item(pkt, n))) /\ UNCHANGED got
          [] Arg = "str" -> /\ Turn(extract_item(after, n))
                            /\ got' = got \o <<Peek(pkt, 4), Peek(after, n)>>
          [] OTHER -> Turn(extract_item(pkt, n)) /\ got' = Append(got, Peek(pkt, n))
  /\ UNCHANGED <<sent, hdr>>
-----------------------------------------------------------------------------
(* SCTP sockets of type SOCK_STREAM.                                       *)

(* write_sctp_pkt and, at the other end, read_sctp_pkt begin.              *)
SctpSnd ==
  /\ Op("sctp")
  /\ out' = prepend_item(pkt, Bytes(LenOf(pkt.len), 4)).data
  /\ pkt' = clear_pkt(pkt) /\ rem' = 4 /\ reading' = "len"
  /\ UNCHANGED <<msg, pc, sent, hdr, got, stream, cuts, closed>>

(* One turn of write_stream.                                               *)
WriteStream(n) ==
  /\ n <= Len(out)
  /\ n < Len(out) => cuts + 1 < MaxSegments
  /\ out' = SubSeq(out, n + 1, Len(out))
  /\ stream' = stream \o SubSeq(out, 1, n)
  /\ cuts' = IF n < Len(out) THEN cuts + 1 ELSE cuts
  /\ UNCHANGED <<msg, pc, pkt, sent, hdr, got, rem, reading, closed>>

(* The sender's process ends with the message half written.                *)
Break ==
  /\ out # <<>> /\ out' = <<>> /\ closed' = TRUE
  /\ UNCHANGED <<msg, pc, pkt, sent, hdr, got, stream, cuts, rem, reading>>

(* One turn of read_stream.                                                *)
Available == IF Len(stream) < rem THEN Len(stream) ELSE rem
Buffer == pkt.data \o SubSeq(stream, 1, Available)

(* Faulty variant: what one read returns is taken for all of it.           *)
OneRead ==
  /\ reading # "no" /\ stream # <<>>
  /\ stream' = SubSeq(stream, Available + 1, Len(stream))
  /\ IF reading = "len"
     THEN /\ pkt' = clear_pkt(pkt) /\ rem' = IntAt(received(Buffer)) /\ reading' = "body"
          /\ UNCHANGED pc
     ELSE pkt' = received(Buffer) /\ rem' = 0 /\ reading' = "no" /\ pc' = pc + 1
  /\ UNCHANGED <<msg, sent, hdr, got, out, cuts, closed>>

ReadStream ==
  /\ reading # "no" /\ stream # <<>>
  /\ stream' = SubSeq(stream, Available + 1, Len(stream))
  /\ \/ /\ Available < rem
        /\ rem' = rem - Available /\ pkt' = [pkt EXCEPT !.data = Buffer]
        /\ UNCHANGED <<pc, reading>>
     \/ /\ Available = rem /\ reading = "len"
        /\ pkt' = clear_pkt(pkt) /\ rem' = IntAt(received(Buffer)) /\ reading' = "body"
        /\ UNCHANGED pc
     \/ /\ Available = rem /\ reading = "body"
        /\ pkt' = received(Buffer) /\ rem' = 0 /\ reading' = "no" /\ pc' = pc + 1
  /\ UNCHANGED <<msg, sent, hdr, got, out, cuts, closed>>

(* read returns 0: pkt.len is 0, and the bytes that came stay in data.     *)
ReadEnd ==
  /\ reading # "no" /\ stream = <<>> /\ closed
  /\ pkt' = [pkt EXCEPT !.len = 0] /\ rem' = 0 /\ reading' = "no"
  /\ pc' = IF msg \in Unchecked THEN pc + 1 ELSE Len(Program[msg]) + 1
  /\ UNCHANGED <<msg, sent, hdr, got, out, stream, cuts, closed>>

WireNext ==
  \/ \E m \in Messages : Begin(m)
  \/ ClearPkt \/ Call \/ Truncate \/ Datagram \/ TunRcv \/ TunSnd
  \/ AppendItem \/ PrependHdr \/ ExtractHdr \/ ExtractItem
  \/ SctpSnd \/ (\E n \in 1 .. Len(out) : WriteStream(n)) \/ Break \/ ReadStream \/ ReadEnd

WireSpec == WireInit /\ [][WireNext]_wireVars
-----------------------------------------------------------------------------
(* The receiver works on half a message: only for those who do not look.   *)
HalfMessage == closed /\ msg \in Unchecked

(* Field by field, what a program extracts is what the other appended: the *)
(* two lists are written out by hand in two programs, packets are used     *)
(* again, and a stream delivers a message in pieces or not to its end      *)
(* (append_item, extract_item, read_sctp_pkt).                             *)
FieldsAgree ==
  HalfMessage \/
  /\ hdr # <<>> => hdr = Bytes(Header, Len(hdr))
  /\ \A k \in DOMAIN got : k \in DOMAIN sent /\ got[k] = Bytes(k, sent[k].w)

(* No operation leaves the buffer's BUF_SIZE bytes, and nothing is read    *)
(* past the message's end, in whatever state the packet was left by the    *)
(* message before (pc = 1); data, data_ptr and len are kept in step by     *)
(* hand (every operation of Packet).                                       *)
InBuffer ==
  /\ pkt.len <= BUF_SIZE /\ Len(pkt.data) <= BUF_SIZE
  /\ HalfMessage \/ pc = 1 \/ pkt.data_ptr <= pkt.len
=============================================================================
