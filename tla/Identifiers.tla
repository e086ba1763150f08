----------------------------- MODULE Identifiers -----------------------------
(***************************************************************************)
(* The identifiers a subscriber gets in the four programs: decimal numbers *)
(* put together in telecom.cpp, taken apart in mme.cpp, and counted        *)
(* through in pgw.cpp, which fills its address table before it serves.     *)
(*                                                                         *)
(* A number is the sequence of its decimal digits; n is the number the RAN *)
(* gives a subscriber, below 10^9.                                         *)
(***************************************************************************)
EXTENDS Integers, Sequences

CONSTANT MAX_UE_COUNT

ASSUME MaxUeCountAssumption == MAX_UE_COUNT \in Nat

VARIABLES i, subnet, host, ip_addrs

idVars == <<i, subnet, host, ip_addrs>>
-----------------------------------------------------------------------------
(* set_ip_addrs: ip_addrs, by the number i that is added to 119000000000.  *)
NoAddress == <<0, 0>>

IdInit ==
  /\ i = 0 /\ subnet = 1 /\ host = 3
  /\ ip_addrs = [n \in 0 .. MAX_UE_COUNT - 1 |-> NoAddress]

(* Faulty variant: the next subnet begins one address late.                *)
LateWrap ==
  IF host = 255 THEN subnet' = subnet + 1 /\ host' = 3
  ELSE subnet' = subnet /\ host' = host + 1

NextAddress ==
  IF host = 254 THEN subnet' = subnet + 1 /\ host' = 3
  ELSE subnet' = subnet /\ host' = host + 1

IdNext ==
  /\ i < MAX_UE_COUNT
  /\ ip_addrs' = [ip_addrs EXCEPT ![i] = <<subnet, host>>]
  /\ i' = i + 1
  /\ NextAddress

IdSpec == IdInit /\ [][IdNext]_idVars
-----------------------------------------------------------------------------
(* telecom.cpp: the decimal representations one after the other.           *)
get_plmn_id(mcc, mnc) == mcc \o mnc
get_mmei(mmegi, mmec) == mmegi \o mmec
get_gummei(plmn_id, mmei) == plmn_id \o mmei
get_imsi(plmn_id, msisdn) == plmn_id \o msisdn

get_guti(gummei, m_tmsi) == gummei \o m_tmsi

(* The nine digits that tell subscribers apart, and back.                  *)
Nine(n) ==
  LET upto[k \in 0 .. 9] == IF k = 9 THEN n ELSE upto[k + 1] \div 10
  IN [k \in 1 .. 9 |-> upto[k] % 10]

Number(s) ==
  LET upto[k \in 0 .. Len(s)] == IF k = 0 THEN 0 ELSE 10 * upto[k - 1] + s[k]
  IN upto[Len(s)]

(* The constructors of RanContext and MmeIds: every code is 1.             *)
plmn_id == get_plmn_id(<<1>>, <<1>>)
gummei == get_gummei(plmn_id, get_mmei(<<1>>, <<1>>))

(* RanContext::init: the MSISDN is 9000000000 + n.                         *)
RanImsi(n) == get_imsi(plmn_id, <<9>> \o Nine(n))

(* The key of set_ip_addrs: 119000000000 + n.                              *)
PgwImsi(n) == <<1, 1, 9>> \o Nine(n)

(* Faulty variant: eight digits are taken.                                 *)
short_s11cteidmme(guti) == Number(SubSeq(guti, 8, 15))

get_s11cteidmme(guti) == Number(SubSeq(guti, 8, Len(guti)))
-----------------------------------------------------------------------------
(* The loop counts through 3 .. 254 in one subnet after the other, so that *)
(* the number of an address can be read off it (set_ip_addrs).             *)
AddressOf(n, a) == a[1] \in Nat /\ a[2] \in 3 .. 254 /\ n = 252 * (a[1] - 1) + (a[2] - 3)

IdInv ==
  /\ i \in 0 .. MAX_UE_COUNT
  /\ subnet \in Nat /\ host \in Nat /\ AddressOf(i, <<subnet, host>>)
  /\ ip_addrs \in [0 .. MAX_UE_COUNT - 1 -> Nat \X Nat]
  /\ \A n \in 0 .. i - 1 : AddressOf(n, ip_addrs[n])

(* No two subscribers have the same address, nobody has a host part the    *)
(* subnet cannot hold: PgwIsolation rests on it (set_ip_addrs).            *)
AddressesDistinct ==
  \A m, n \in 0 .. i - 1 : /\ ip_addrs[n][2] \in 1 .. 254
                           /\ m # n => ip_addrs[m] # ip_addrs[n]

(* The programs agree on who is who without ever exchanging n: the IMSI    *)
(* the RAN puts together is the PGW's key for the n-th address, and the    *)
(* MME gets n, the S11 TEID, back out of the GUTI it builds from the IMSI  *)
(* (RanContext::init, set_ip_addrs, get_s11cteidmme).                      *)
SameSubscriber ==
  \A n \in 0 .. i - 1 : /\ RanImsi(n) = PgwImsi(n)
                        /\ get_s11cteidmme(get_guti(gummei, RanImsi(n))) = n
=============================================================================
