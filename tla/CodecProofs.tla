---------------------------- MODULE CodecProofs ----------------------------
(***************************************************************************)
(* Proofs about messages and identifiers: for every set of messages, every *)
(* length of strings and of user packets that fits, every way in which the *)
(* stream cuts a message, and every number of subscribers.                 *)
(***************************************************************************)
EXTENDS Wire, Identifiers, TLAPS, SequenceTheorems

-----------------------------------------------------------------------------
(* A concatenation, part by part.                                          *)
LEMMA Concat ==
  ASSUME NEW S, NEW p \in Seq(S), NEW q \in Seq(S), NEW r, r = p \o q
  PROVE  /\ r \in Seq(S) /\ Len(r) = Len(p) + Len(q)
         /\ \A k \in 1 .. Len(p) : r[k] = p[k]
         /\ \A k \in 1 .. Len(q) : r[Len(p) + k] = q[k]
<1>1. Len(p) \in Nat /\ Len(q) \in Nat
  OBVIOUS
<1>2. \A k \in 1 .. Len(p) + Len(q) : r[k] = IF k <= Len(p) THEN p[k] ELSE q[k - Len(p)]
  BY ConcatProperties
<1>3. r \in Seq(S) /\ Len(r) = Len(p) + Len(q)
  BY ConcatProperties
<1>4. ASSUME NEW k \in 1 .. Len(p) PROVE r[k] = p[k]
  <2>1. k \in 1 .. Len(p) + Len(q) /\ k <= Len(p)
    BY <1>1
  <2> QED
    BY <1>2, <2>1
<1>5. ASSUME NEW k \in 1 .. Len(q) PROVE r[Len(p) + k] = q[k]
  <2>1. /\ Len(p) + k \in 1 .. Len(p) + Len(q) /\ ~(Len(p) + k <= Len(p))
        /\ Len(p) + k - Len(p) = k
    BY <1>1
  <2> QED
    BY <1>2, <2>1
<1> QED
  BY <1>3, <1>4, <1>5

-----------------------------------------------------------------------------
(* Identifiers: the address table, for every MAX_UE_COUNT.                 *)

(* The loop's counters and its table stay in step (set_ip_addrs).          *)
THEOREM IdInvariant == IdSpec => []IdInv
<1>1. IdInit => IdInv
  BY MaxUeCountAssumption DEF IdInit, IdInv, AddressOf, NoAddress
<1>2. IdInv /\ [IdNext]_idVars => IdInv'
  <2> SUFFICES ASSUME IdInv, [IdNext]_idVars PROVE IdInv'
    OBVIOUS
  <2> USE MaxUeCountAssumption
  <2>1. CASE UNCHANGED idVars
    BY <2>1 DEF IdInv, idVars, AddressOf
  <2>2. CASE IdNext
    <3>1. i \in 0 .. MAX_UE_COUNT - 1 /\ i' = i + 1
      BY <2>2 DEF IdNext, IdInv
    <3>2. subnet' \in Nat /\ host' \in Nat /\ AddressOf(i', <<subnet', host'>>)
      <4>1. subnet \in Nat /\ host \in 3 .. 254 /\ i = 252 * (subnet - 1) + (host - 3)
        BY DEF IdInv, AddressOf
      <4>2. CASE host = 254
        <5>1. subnet' = subnet + 1 /\ host' = 3
          BY <4>2, <2>2 DEF IdNext, NextAddress
        <5> QED
          BY <4>1, <4>2, <5>1, <3>1 DEF AddressOf
      <4>3. CASE host # 254
        <5>1. subnet' = subnet /\ host' = host + 1
          BY <4>3, <2>2 DEF IdNext, NextAddress
        <5> QED
          BY <4>1, <4>3, <5>1, <3>1 DEF AddressOf
      <4> QED
        BY <4>2, <4>3
    <3>3. <<subnet, host>> \in Nat \X Nat /\ AddressOf(i, <<subnet, host>>)
      BY DEF IdInv
    <3>4. ip_addrs' = [ip_addrs EXCEPT ![i] = <<subnet, host>>]
      BY <2>2 DEF IdNext
    <3>5. ip_addrs' \in [0 .. MAX_UE_COUNT - 1 -> Nat \X Nat]
      BY <3>1, <3>3, <3>4 DEF IdInv
    <3>6. ASSUME NEW n \in 0 .. i' - 1 PROVE AddressOf(n, ip_addrs'[n])
      <4>1. CASE n = i
        BY <4>1, <3>1, <3>3, <3>4 DEF IdInv
      <4>2. CASE n # i
        <5>1. n \in 0 .. i - 1 /\ n \in 0 .. MAX_UE_COUNT - 1
          BY <4>2, <3>1
        <5>2. ip_addrs'[n] = ip_addrs[n]
          BY <5>1, <4>2, <3>1, <3>4 DEF IdInv
        <5> QED
          BY <5>1, <5>2 DEF IdInv
      <4> QED
        BY <4>1, <4>2
    <3> QED
      BY <3>1, <3>2, <3>5, <3>6 DEF IdInv
  <2> QED
    BY <2>1, <2>2
<1> QED
  BY <1>1, <1>2, PTL DEF IdSpec

(* An address has one number only.                                         *)
LEMMA OneNumber ==
  ASSUME NEW m \in Nat, NEW n \in Nat, NEW a, AddressOf(m, a), AddressOf(n, a)
  PROVE  m = n
BY DEF AddressOf

(* No two of the MAX_UE_COUNT subscribers have the same address            *)
(* (set_ip_addrs).                                                         *)
THEOREM NoSharedAddress == IdSpec => []AddressesDistinct
<1>1. IdInv => AddressesDistinct
  <2> SUFFICES ASSUME IdInv, NEW m \in 0 .. i - 1, NEW n \in 0 .. i - 1
               PROVE  /\ ip_addrs[n][2] \in 1 .. 254
                      /\ m # n => ip_addrs[m] # ip_addrs[n]
    BY DEF AddressesDistinct
  <2>1. AddressOf(m, ip_addrs[m]) /\ AddressOf(n, ip_addrs[n])
    BY DEF IdInv
  <2>2. m \in Nat /\ n \in Nat
    BY DEF IdInv
  <2>3. ip_addrs[n][2] \in 1 .. 254
    BY <2>1 DEF AddressOf
  <2>4. ip_addrs[m] = ip_addrs[n] => m = n
    BY <2>1, <2>2, OneNumber
  <2> QED
    BY <2>3, <2>4
<1> QED
  BY <1>1, IdInvariant, PTL

(* A number put together from its digits from left to right: g holds what  *)
(* the loop has after each digit.                                          *)
LEMMA NumberOf ==
  ASSUME NEW s, Len(s) = 9, NEW g,
         g = [k \in 0 .. 9 |-> IF k = 0 THEN 0 ELSE 10 * g[k - 1] + s[k]]
  PROVE  \E h : /\ h = [k \in 0 .. 9 |-> IF k = 0 THEN 0 ELSE 10 * h[k - 1] + s[k]]
                /\ Number(s) = h[9]
<1> DEFINE Step(f) == [k \in 0 .. Len(s) |-> IF k = 0 THEN 0 ELSE 10 * f[k - 1] + s[k]]
           h == CHOOSE f : f = Step(f)
<1>1. g = Step(g)
  OBVIOUS
<1>2. h = Step(h)
  BY <1>1
<1>3. Number(s) = h[Len(s)]
  BY DEF Number
<1> QED
  BY <1>2, <1>3

(* The nine digits of a number are its quotients by 10, from left to       *)
(* right.                                                                  *)
LEMMA DigitsOf ==
  ASSUME NEW n \in Nat
  PROVE  \E h : /\ h = [k \in 0 .. 9 |-> IF k = 9 THEN n ELSE h[k + 1] \div 10]
                /\ Nine(n) = [k \in 1 .. 9 |-> h[k] % 10]
<1> DEFINE Step(f) == [k \in 0 .. 9 |-> IF k = 9 THEN n ELSE f[k + 1] \div 10]
           h == CHOOSE f : f = Step(f)
           a == n \div 10
           b == a \div 10
           c == b \div 10
           d == c \div 10
           e == d \div 10
           x == e \div 10
           y == x \div 10
           z == y \div 10
           g == [k \in 0 .. 9 |->
                   CASE k = 9 -> n [] k = 8 -> a [] k = 7 -> b [] k = 6 -> c [] k = 5 -> d
                     [] k = 4 -> e [] k = 3 -> x [] k = 2 -> y [] k = 1 -> z
                     [] OTHER -> z \div 10]
<1>1. g = Step(g)
  <2> HIDE DEF a, b, c, d, e, x, y, z
  <2>1. /\ g[9] = n /\ g[8] = a /\ g[7] = b /\ g[6] = c /\ g[5] = d /\ g[4] = e
        /\ g[3] = x /\ g[2] = y /\ g[1] = z /\ g[0] = z \div 10
    OBVIOUS
  <2>2. \A k \in 0 .. 9 : g[k] = IF k = 9 THEN n ELSE g[k + 1] \div 10
    <3> HIDE DEF g
    <3> QED
      BY <2>1 DEF a, b, c, d, e, x, y, z
  <2> QED
    BY <2>2
<1>2. h = Step(h)
  <2> HIDE DEF g
  <2> QED
    BY <1>1
<1> QED
  BY <1>2 DEF Nine

(* A number of nine digits is what its digits say (get_imsi, then stoull). *)
LEMMA NineDigits ==
  ASSUME NEW n \in Nat, n < 1000 * 1000 * 1000
  PROVE  /\ Nine(n) \in Seq(Nat) /\ Len(Nine(n)) = 9
         /\ Number(Nine(n)) = n
<1>1. PICK g : /\ g = [k \in 0 .. 9 |-> IF k = 9 THEN n ELSE g[k + 1] \div 10]
               /\ Nine(n) = [k \in 1 .. 9 |-> g[k] % 10]
  BY DigitsOf
<1>2. g[9] = n /\ \A k \in 0 .. 8 : g[k] = g[k + 1] \div 10
  BY <1>1
<1>3. \A k \in 0 .. 9 : g[k] \in Nat
  BY <1>2
<1>4. g[0] = 0
  <2>1. g[6] < 1000 * 1000
    BY <1>2, <1>3
  <2>2. g[3] < 1000
    BY <1>2, <1>3, <2>1
  <2> QED
    BY <1>2, <1>3, <2>2
<1> DEFINE s == Nine(n)
<1>5. s \in Seq(Nat) /\ Len(s) = 9 /\ \A k \in 1 .. 9 : s[k] = g[k] % 10
  <2>1. \A k \in 1 .. 9 : g[k] % 10 \in Nat
    BY <1>3
  <2> QED
    BY <1>1, <2>1
<1> HIDE DEF s
<1>6. \A k \in 1 .. 9 : g[k] = 10 * g[k - 1] + s[k]
  <2> SUFFICES ASSUME NEW k \in 1 .. 9 PROVE g[k] = 10 * g[k - 1] + s[k]
    OBVIOUS
  <2>1. g[k - 1] = g[k] \div 10
    BY <1>2
  <2>2. s[k] = g[k] % 10 /\ g[k] \in Nat
    <3>1. \A j \in 1 .. 9 : s[j] = g[j] % 10
      BY <1>5
    <3> QED
      BY <1>3, <3>1
  <2>3. ASSUME NEW a \in Nat PROVE a = 10 * (a \div 10) + (a % 10)
    OBVIOUS
  <2> QED
    BY <2>1, <2>2, <2>3
<1>7. g = [k \in 0 .. 9 |-> IF k = 0 THEN 0 ELSE 10 * g[k - 1] + s[k]]
  BY <1>1, <1>4, <1>6
<1>8. PICK h : /\ h = [k \in 0 .. 9 |-> IF k = 0 THEN 0 ELSE 10 * h[k - 1] + s[k]]
               /\ Number(s) = h[9]
  <2>1. Len(s) = 9
    BY <1>5
  <2> QED
    BY <1>7, <2>1, NumberOf
<1>9. h[0] = g[0] /\ \A k \in 1 .. 9 : h[k] = 10 * h[k - 1] + s[k]
  BY <1>4, <1>8
<1>10. h[9] = n
  BY <1>2, <1>6, <1>9
<1> QED
  BY <1>5, <1>8, <1>10 DEF s

(* What get_s11cteidmme reads, under a name of its own for the GUTI.       *)
LEMMA S11OfGuti ==
  ASSUME NEW g
  PROVE  get_s11cteidmme(g) = Number(SubSeq(g, 8, Len(g)))
BY DEF get_s11cteidmme

(* RAN, PGW and MME get the same subscriber out of n (get_imsi, get_guti,  *)
(* get_s11cteidmme).                                                       *)
LEMMA SameNumber ==
  ASSUME NEW n \in Nat, n < 1000 * 1000 * 1000
  PROVE  /\ RanImsi(n) = PgwImsi(n)
         /\ get_s11cteidmme(get_guti(gummei, RanImsi(n))) = n
<1> DEFINE s == Nine(n)
           o == <<9>>
           t == <<1, 1, 9>>
<1>1. s \in Seq(Nat) /\ plmn_id \in Seq(Nat) /\ o \in Seq(Nat) /\ t \in Seq(Nat)
  BY NineDigits DEF plmn_id, get_plmn_id
<1>2. Len(s) = 9
  BY NineDigits
<1>3. Len(plmn_id) = 2 /\ plmn_id[1] = 1 /\ plmn_id[2] = 1
  BY DEF plmn_id, get_plmn_id
<1>4. Len(o) = 1 /\ o[1] = 9 /\ Len(t) = 3 /\ t[1] = 1 /\ t[2] = 1 /\ t[3] = 9
  OBVIOUS
<1>5. gummei \in Seq(Nat)
  BY DEF gummei, get_gummei, get_mmei, plmn_id, get_plmn_id
<1>14. Len(gummei) = 4
  BY DEF gummei, get_gummei, get_mmei, plmn_id, get_plmn_id
<1> HIDE DEF s, o, t
<1> DEFINE q == o \o s
           ran == RanImsi(n)
           pgw == PgwImsi(n)
           guti == get_guti(gummei, RanImsi(n))
<1>6. q = o \o s /\ ran = plmn_id \o q /\ pgw = t \o s
  BY DEF RanImsi, PgwImsi, get_imsi, s, o, t
<1>19. guti = gummei \o ran
  BY DEF get_guti
<1> HIDE DEF q, ran, pgw, guti
<1>7. /\ q \in Seq(Nat) /\ Len(q) = Len(o) + Len(s)
      /\ \A k \in 1 .. Len(o) : q[k] = o[k]
      /\ \A k \in 1 .. Len(s) : q[Len(o) + k] = s[k]
  BY <1>1, <1>6, Concat
<1>8. /\ ran \in Seq(Nat) /\ Len(ran) = Len(plmn_id) + Len(q)
      /\ \A k \in 1 .. Len(plmn_id) : ran[k] = plmn_id[k]
      /\ \A k \in 1 .. Len(q) : ran[Len(plmn_id) + k] = q[k]
  BY <1>1, <1>6, <1>7, Concat
<1>9. /\ pgw \in Seq(Nat) /\ Len(pgw) = Len(t) + Len(s)
      /\ \A k \in 1 .. Len(t) : pgw[k] = t[k]
      /\ \A k \in 1 .. Len(s) : pgw[Len(t) + k] = s[k]
  BY <1>1, <1>6, Concat
<1>10. Len(q) = 10 /\ Len(ran) = 12 /\ Len(pgw) = 12
  BY <1>2, <1>3, <1>4, <1>7, <1>8, <1>9
<1>11. /\ q[1] = 9 /\ \A k \in 1 .. 9 : q[1 + k] = s[k]
       /\ ran[1] = 1 /\ ran[2] = 1 /\ \A k \in 1 .. 10 : ran[2 + k] = q[k]
       /\ pgw[1] = 1 /\ pgw[2] = 1 /\ pgw[3] = 9 /\ \A k \in 1 .. 9 : pgw[3 + k] = s[k]
  BY <1>2, <1>3, <1>4, <1>7, <1>8, <1>9, <1>10
<1>12. ran = pgw
  <2>1. ASSUME NEW k \in 1 .. 12 PROVE ran[k] = pgw[k]
    <3>1. CASE k \in 1 .. 2
      BY <3>1, <1>11
    <3>2. CASE k = 3
      <4>1. ran[2 + 1] = q[1]
        BY <1>11
      <4> QED
        BY <3>2, <4>1, <1>11
    <3>3. CASE k \in 4 .. 12
      <4> DEFINE j == k - 3
      <4>1. j \in 1 .. 9 /\ 1 + j \in 1 .. 10 /\ 2 + (1 + j) = k /\ 3 + j = k
        BY <3>3
      <4>2. ran[2 + (1 + j)] = q[1 + j] /\ q[1 + j] = s[j] /\ pgw[3 + j] = s[j]
        BY <4>1, <1>11
      <4> QED
        BY <4>1, <4>2
    <3> QED
      BY <3>1, <3>2, <3>3
  <2>2. Len(ran) = Len(pgw)
    BY <1>10
  <2>3. \A k \in 1 .. Len(ran) : ran[k] = pgw[k]
    BY <1>10, <2>1
  <2> QED
    <3>1. ran \in Seq(Nat) /\ pgw \in Seq(Nat)
      BY <1>8, <1>9
    <3> QED
      BY <2>2, <2>3, <3>1, SeqEqual
<1>13. /\ guti \in Seq(Nat) /\ Len(guti) = Len(gummei) + Len(pgw)
       /\ \A k \in 1 .. Len(pgw) : guti[Len(gummei) + k] = pgw[k]
  <2>1. pgw \in Seq(Nat)
    BY <1>9
  <2>2. guti = gummei \o pgw
    BY <1>12, <1>19
  <2> QED
    BY <1>5, <2>1, <2>2, Concat
<1>15. Len(guti) = 16 /\ \A k \in 1 .. 12 : guti[4 + k] = pgw[k]
  BY <1>10, <1>13, <1>14
<1> DEFINE u == SubSeq(guti, 8, 16)
<1>16. u = s
  <2>1. \A k \in 8 .. 16 : guti[k] \in Nat
    <3>1. ASSUME NEW k \in 1 .. Len(guti) PROVE guti[k] \in Nat
      BY <1>13, ElementOfSeq
    <3> QED
      BY <1>15, <3>1
  <2>2. u \in Seq(Nat) /\ Len(u) = 16 - 8 + 1 /\ \A k \in 1 .. 16 - 8 + 1 : u[k] = guti[8 + k - 1]
    BY <2>1, SubSeqProperties
  <2> HIDE DEF u
  <2>3. ASSUME NEW k \in 1 .. 9 PROVE u[k] = s[k]
    <3>1. k \in 1 .. 16 - 8 + 1 /\ 8 + k - 1 = 4 + (3 + k) /\ 3 + k \in 1 .. 12
      OBVIOUS
    <3>2. u[k] = guti[4 + (3 + k)]
      BY <2>2, <3>1
    <3> QED
      BY <1>11, <1>15, <3>1, <3>2
  <2>4. Len(u) = Len(s) /\ \A k \in 1 .. Len(u) : u[k] = s[k]
    BY <1>2, <2>2, <2>3
  <2> QED
    <3>1. u \in Seq(Nat) /\ s \in Seq(Nat)
      BY <1>1, <2>2
    <3> QED
      BY <2>4, <3>1, SeqEqual
<1>17. Number(s) = n
  BY NineDigits DEF s
<1>18. get_s11cteidmme(guti) = n
  <2>1. Len(guti) = 16
    BY <1>15
  <2>2. get_s11cteidmme(guti) = Number(SubSeq(guti, 8, Len(guti)))
    BY S11OfGuti
  <2>3. SubSeq(guti, 8, Len(guti)) = s
    BY <2>1, <1>16
  <2> QED
    BY <2>2, <2>3, <1>17
<1> QED
  BY <1>12, <1>18 DEF ran, pgw, guti

(* The four programs agree on who is who, as long as the numbers they      *)
(* count have nine digits: the RAN's IMSI is the key of the PGW's table,   *)
(* and the MME reads the number back out of its GUTI.  utils.h has 10000   *)
(* for MAX_UE_COUNT (RanContext::init, set_ip_addrs, get_s11cteidmme).     *)
THEOREM AlwaysSameSubscriber ==
  ASSUME MAX_UE_COUNT <= 1000 * 1000 * 1000
  PROVE  IdSpec => []SameSubscriber
<1>1. IdInv => SameSubscriber
  <2> SUFFICES ASSUME IdInv, NEW n \in 0 .. i - 1
               PROVE  /\ RanImsi(n) = PgwImsi(n)
                      /\ get_s11cteidmme(get_guti(gummei, RanImsi(n))) = n
    BY DEF SameSubscriber
  <2>1. n \in Nat /\ n < MAX_UE_COUNT
    BY MaxUeCountAssumption DEF IdInv
  <2>2. n < 1000 * 1000 * 1000
    BY <2>1, MaxUeCountAssumption
  <2> QED
    BY <2>1, <2>2, SameNumber
<1> QED
  BY <1>1, IdInvariant, PTL

-----------------------------------------------------------------------------
(* What append_item and extract_item have an overload for.                 *)
Items == {"bool", "u8", "u16", "u32", "int", "u64", "str", "vec"}

(* Each message is in the table of one sender only.                        *)
LEMMA Senders ==
  ASSUME NEW m
  PROVE  /\ m \in DOMAIN RanAppends =>
              m \notin DOMAIN MmeAppends \cup DOMAIN HssAppends
                       \cup DOMAIN SgwAppends \cup DOMAIN PgwAppends
         /\ m \in DOMAIN MmeAppends =>
              m \notin DOMAIN HssAppends \cup DOMAIN SgwAppends \cup DOMAIN PgwAppends
         /\ m \in DOMAIN HssAppends => m \notin DOMAIN SgwAppends \cup DOMAIN PgwAppends
         /\ m \in DOMAIN SgwAppends => m \notin DOMAIN PgwAppends
BY DEF RanAppends, MmeAppends, HssAppends, SgwAppends, PgwAppends

(* Each message is in the table of one receiver only.                      *)
LEMMA Receivers ==
  ASSUME NEW m
  PROVE  /\ m \in DOMAIN MmeExtracts =>
              m \notin DOMAIN RanExtracts \cup DOMAIN HssExtracts
                       \cup DOMAIN SgwExtracts \cup DOMAIN PgwExtracts
         /\ m \in DOMAIN RanExtracts =>
              m \notin DOMAIN HssExtracts \cup DOMAIN SgwExtracts \cup DOMAIN PgwExtracts
         /\ m \in DOMAIN HssExtracts => m \notin DOMAIN SgwExtracts \cup DOMAIN PgwExtracts
         /\ m \in DOMAIN SgwExtracts => m \notin DOMAIN PgwExtracts
BY DEF RanExtracts, MmeExtracts, HssExtracts, SgwExtracts, PgwExtracts

(* What a message carries is what its sender's table says.                 *)
LEMMA AppendedTables ==
  ASSUME NEW m
  PROVE  /\ m \in DOMAIN RanAppends => Appended(m) = RanAppends[m]
         /\ m \in DOMAIN MmeAppends => Appended(m) = MmeAppends[m]
         /\ m \in DOMAIN HssAppends => Appended(m) = HssAppends[m]
         /\ m \in DOMAIN SgwAppends => Appended(m) = SgwAppends[m]
         /\ m \in DOMAIN PgwAppends => Appended(m) = PgwAppends[m]
BY Senders DEF Appended

(* What is taken out of a message is what its receiver's table says.       *)
LEMMA ExtractedTables ==
  ASSUME NEW m
  PROVE  /\ m \in DOMAIN MmeExtracts => Extracted(m) = MmeExtracts[m]
         /\ m \in DOMAIN RanExtracts => Extracted(m) = RanExtracts[m]
         /\ m \in DOMAIN HssExtracts => Extracted(m) = HssExtracts[m]
         /\ m \in DOMAIN SgwExtracts => Extracted(m) = SgwExtracts[m]
         /\ m \in DOMAIN PgwExtracts => Extracted(m) = PgwExtracts[m]
BY Receivers DEF Extracted

(* What is appended is short, and the item before a vector is not a        *)
(* string, so that its value is known.                                     *)
Good(a) ==
  /\ a \in Seq(Items) /\ Len(a) <= 13
  /\ \A x \in 1 .. Len(a) : a[x] = "vec" => x > 1 /\ a[x - 1] # "str"

(* Every sender's list is Good: the longest is attach_accept's.            *)
LEMMA AppendsGood ==
  ASSUME NEW m \in Signals
  PROVE  Good(Appended(m))
<1>1. CASE m \in DOMAIN RanAppends
  <2>1. /\ Good(RanAppends["attach_req"])
        /\ Good(RanAppends["autn_res"])
        /\ Good(RanAppends["sec_complete"])
        /\ Good(RanAppends["attach_complete"])
        /\ Good(RanAppends["detach_req"])
        /\ Good(RanAppends["ho_required"])
        /\ Good(RanAppends["ho_ack"])
        /\ Good(RanAppends["ho_complete"])
        /\ Good(RanAppends["teardown"])
    BY DEF RanAppends, Good, Items
  <2>2. m \in {"attach_req", "autn_res", "sec_complete", "attach_complete",
             "detach_req", "ho_required", "ho_ack", "ho_complete", "teardown"}
    BY <1>1 DEF RanAppends
  <2>3. Good(RanAppends[m])
    BY <2>1, <2>2
  <2> QED
    BY <1>1, <2>3, AppendedTables
<1>2. CASE m \in DOMAIN MmeAppends
  <2>1. /\ Good(MmeAppends["autninfo_req"])
        /\ Good(MmeAppends["autn_req"])
        /\ Good(MmeAppends["sec_cmd"])
        /\ Good(MmeAppends["loc_update"])
        /\ Good(MmeAppends["s11_create"])
        /\ Good(MmeAppends["attach_accept"])
        /\ Good(MmeAppends["s11_modify"])
        /\ Good(MmeAppends["s11_detach"])
        /\ Good(MmeAppends["detach_accept"])
        /\ Good(MmeAppends["ho_request"])
        /\ Good(MmeAppends["s11_setup"])
        /\ Good(MmeAppends["ho_tunnel"])
        /\ Good(MmeAppends["s11_complete"])
        /\ Good(MmeAppends["ho_done"])
        /\ Good(MmeAppends["s11_teardown"])
    BY DEF MmeAppends, Good, Items
  <2>2. m \in {"autninfo_req", "autn_req", "sec_cmd", "loc_update", "s11_create",
             "attach_accept", "s11_modify", "s11_detach", "detach_accept", "ho_request",
             "s11_setup", "ho_tunnel", "s11_complete", "ho_done", "s11_teardown"}
    BY <1>2 DEF MmeAppends
  <2>3. Good(MmeAppends[m])
    BY <2>1, <2>2
  <2> QED
    BY <1>2, <2>3, AppendedTables
<1>3. CASE m \in DOMAIN HssAppends
  <2>1. /\ Good(HssAppends["autninfo_ans"])
        /\ Good(HssAppends["loc_ans"])
    BY DEF HssAppends, Good, Items
  <2>2. m \in {"autninfo_ans", "loc_ans"}
    BY <1>3 DEF HssAppends
  <2>3. Good(HssAppends[m])
    BY <2>1, <2>2
  <2> QED
    BY <1>3, <2>3, AppendedTables
<1>4. CASE m \in DOMAIN SgwAppends
  <2>1. /\ Good(SgwAppends["s5_create"])
        /\ Good(SgwAppends["s11_created"])
        /\ Good(SgwAppends["s11_modified"])
        /\ Good(SgwAppends["s5_detach"])
        /\ Good(SgwAppends["s11_detached"])
        /\ Good(SgwAppends["s11_set_up"])
        /\ Good(SgwAppends["s11_completed"])
        /\ Good(SgwAppends["s11_torn_down"])
    BY DEF SgwAppends, Good, Items
  <2>2. m \in {"s5_create", "s11_created", "s11_modified", "s5_detach",
             "s11_detached", "s11_set_up", "s11_completed", "s11_torn_down"}
    BY <1>4 DEF SgwAppends
  <2>3. Good(SgwAppends[m])
    BY <2>1, <2>2
  <2> QED
    BY <1>4, <2>3, AppendedTables
<1>5. CASE m \in DOMAIN PgwAppends
  <2>1. /\ Good(PgwAppends["s5_created"])
        /\ Good(PgwAppends["s5_detached"])
    BY DEF PgwAppends, Good, Items
  <2>2. m \in {"s5_created", "s5_detached"}
    BY <1>5 DEF PgwAppends
  <2>3. Good(PgwAppends[m])
    BY <2>1, <2>2
  <2> QED
    BY <1>5, <2>3, AppendedTables
<1> QED
  BY <1>1, <1>2, <1>3, <1>4, <1>5 DEF Signals

(* The receiver takes out what the sender puts in, or nothing at all.      *)
LEMMA FromRan ==
  ASSUME NEW m \in DOMAIN RanAppends
  PROVE  m \in DOMAIN MmeExtracts /\ MmeExtracts[m] = RanAppends[m]
BY SMTT(30) DEF RanAppends, MmeExtracts

(* The same for the HSS.                                                   *)
LEMMA FromHss ==
  ASSUME NEW m \in DOMAIN HssAppends
  PROVE  m \in DOMAIN MmeExtracts /\ MmeExtracts[m] = HssAppends[m]
BY SMTT(30) DEF HssAppends, MmeExtracts

(* The same for the PGW.                                                   *)
LEMMA FromPgw ==
  ASSUME NEW m \in DOMAIN PgwAppends
  PROVE  m \in DOMAIN SgwExtracts /\ SgwExtracts[m] = PgwAppends[m]
BY DEF PgwAppends, SgwExtracts

(* The same for the SGW.                                                   *)
LEMMA FromSgw ==
  ASSUME NEW m \in DOMAIN SgwAppends
  PROVE  \/ m \in DOMAIN MmeExtracts /\ MmeExtracts[m] = SgwAppends[m]
         \/ m \in DOMAIN PgwExtracts /\ PgwExtracts[m] = SgwAppends[m]
BY SMTT(30) DEF SgwAppends, MmeExtracts, PgwExtracts

(* The same for the MME.                                                   *)
LEMMA FromMme ==
  ASSUME NEW m \in DOMAIN MmeAppends \ {"sec_cmd"}
  PROVE  \/ m \in DOMAIN RanExtracts /\ RanExtracts[m] \in {MmeAppends[m], <<>>}
         \/ m \in DOMAIN HssExtracts /\ HssExtracts[m] = MmeAppends[m]
         \/ m \in DOMAIN SgwExtracts /\ SgwExtracts[m] \in {MmeAppends[m], <<>>}
<1>1. CASE m \in {"autninfo_req", "loc_update"}
  <2>1. m \in DOMAIN HssExtracts
    BY <1>1 DEF HssExtracts
  <2>2. HssExtracts[m] = MmeAppends[m]
    BY <1>1 DEF MmeAppends, HssExtracts
  <2> QED
    BY <2>1, <2>2
<1>2. CASE m \in {"autn_req", "attach_accept", "detach_accept", "ho_request", "ho_tunnel"}
  BY <1>2, SMTT(30) DEF MmeAppends, RanExtracts
<1>3. CASE m = "ho_done"
  BY <1>3 DEF RanExtracts
<1>4. CASE m \in {"s11_create", "s11_modify", "s11_detach", "s11_setup", "s11_teardown"}
  <2>1. m \in DOMAIN SgwExtracts
    BY <1>4 DEF SgwExtracts
  <2>2. /\ SgwExtracts["s11_create"] = MmeAppends["s11_create"]
        /\ SgwExtracts["s11_modify"] = MmeAppends["s11_modify"]
        /\ SgwExtracts["s11_detach"] = MmeAppends["s11_detach"]
        /\ SgwExtracts["s11_setup"] = MmeAppends["s11_setup"]
        /\ SgwExtracts["s11_teardown"] = MmeAppends["s11_teardown"]
    BY DEF MmeAppends, SgwExtracts
  <2> QED
    BY <2>1, <2>2, <1>4
<1>5. CASE m = "s11_complete"
  BY <1>5 DEF SgwExtracts
<1> QED
  BY <1>1, <1>2, <1>3, <1>4, <1>5 DEF MmeAppends

(* The five programs together.                                             *)
LEMMA ExtractsMatch ==
  ASSUME NEW m \in Signals, m # "sec_cmd"
  PROVE  Extracted(m) = Appended(m) \/ Extracted(m) = <<>>
BY FromRan, FromHss, FromPgw, FromSgw, FromMme, AppendedTables, ExtractedTables DEF Signals

(* Every signalling message has one of the three headers.                  *)
LEMMA HeaderTypes ==
  ASSUME NEW m \in Signals
  PROVE  HeaderOf(m) \in {"s1ap", "gtp", "diameter"}
BY DEF HeaderOf

Byte == Int \X Int

(* A packet that holds the bytes b and nothing else.                       *)
Pkt(b, ptr) == [data |-> b, data_ptr |-> ptr, len |-> Len(b)]

(* The bytes of a field, one by one.                                       *)
LEMMA BytesType ==
  ASSUME NEW k \in Int, NEW w \in Nat
  PROVE  /\ Bytes(k, w) \in Seq(Byte) /\ Len(Bytes(k, w)) = w
         /\ \A j \in 1 .. w : Bytes(k, w)[j] = <<k, j>>
<1>1. Bytes(k, w) = [j \in 1 .. w |-> <<k, j>>]
  BY DEF Bytes
<1>2. \A j \in 1 .. w : <<k, j>> \in Byte
  BY DEF Byte
<1> QED
  BY <1>1, <1>2

(* The first bytes of a packet, and its bytes from the position on.        *)
LEMMA UptoAll ==
  ASSUME NEW b \in Seq(Byte), NEW ptr
  PROVE  Upto(Pkt(b, ptr), Len(b)) = b
<1> DEFINE u == Upto(Pkt(b, ptr), Len(b))
<1>1. Len(b) \in Nat /\ \A j \in 1 .. Len(b) : b[j] \in Byte
  BY ElementOfSeq
<1>2. u = [j \in 1 .. Len(b) |-> b[j]]
  BY DEF Upto, At, Pkt
<1>3. u \in Seq(Byte) /\ Len(u) = Len(b) /\ \A j \in 1 .. Len(u) : u[j] = b[j]
  <2> HIDE DEF u
  <2> QED
    BY <1>1, <1>2
<1> QED
  BY <1>3, SeqEqual

(* Nothing is in front of the position 0.                                  *)
LEMMA UptoNone ==
  ASSUME NEW p
  PROVE  Upto(p, 0) = <<>>
BY DEF Upto

(* The n bytes from the position on, one by one.                           *)
LEMMA PeekAt ==
  ASSUME NEW b \in Seq(Byte), NEW ptr \in Nat, NEW n \in Nat, ptr + n <= Len(b),
         NEW c \in Seq(Byte), Len(c) = n, \A j \in 1 .. n : c[j] = b[ptr + j]
  PROVE  Peek(Pkt(b, ptr), n) = c
<1> DEFINE u == Peek(Pkt(b, ptr), n)
<1>1. \A j \in 1 .. n : ptr + j <= Len(b)
  OBVIOUS
<1>2. u = [j \in 1 .. n |-> b[ptr + j]]
  BY <1>1 DEF Peek, At, Pkt
<1>3. \A j \in 1 .. n : c[j] \in Byte
  BY ElementOfSeq
<1>4. u \in Seq(Byte) /\ Len(u) = n /\ \A j \in 1 .. n : u[j] = c[j]
  <2> HIDE DEF u
  <2> QED
    BY <1>2, <1>3
<1> QED
  BY <1>4, SeqEqual

(* What the operations of Packet do to a packet of that kind.              *)
LEMMA Appending ==
  ASSUME NEW b \in Seq(Byte), NEW bs \in Seq(Byte)
  PROVE  append_item(Pkt(b, Len(b)), bs) = Pkt(b \o bs, Len(b \o bs))
<1> DEFINE p == Pkt(b, Len(b))
<1>1. p.data = b /\ p.data_ptr = Len(b) /\ p.len = Len(b)
  BY DEF Pkt
<1>2. Upto(p, p.data_ptr) = b
  BY <1>1, UptoAll
<1>3. Len(b) \in Nat /\ Len(bs) \in Nat
  OBVIOUS
<1>4. Len(b) + Len(bs) + 1 \in Int /\ Len(b) < Len(b) + Len(bs) + 1
  BY <1>3
<1>5. SubSeq(b, Len(b) + Len(bs) + 1, Len(b)) = <<>>
  BY <1>3, <1>4, SubSeqEmpty
<1>6. b \o bs \in Seq(Byte) /\ Len(b \o bs) = Len(b) + Len(bs)
  BY ConcatProperties
<1>7. (b \o bs) \o <<>> = b \o bs
  BY <1>6, ConcatEmptySeq
<1> HIDE DEF p
<1>8. append_item(p, bs) =
        [data |-> b \o bs, data_ptr |-> Len(b) + Len(bs), len |-> Len(b) + Len(bs)]
  BY <1>1, <1>2, <1>5, <1>7 DEF append_item
<1> QED
  BY <1>6, <1>8 DEF Pkt, p

(* prepend_item: the bytes come first, and the position is behind all.     *)
LEMMA Prepending ==
  ASSUME NEW b \in Seq(Byte), NEW bs \in Seq(Byte), NEW ptr \in Nat
  PROVE  prepend_item(Pkt(b, ptr), bs) = Pkt(bs \o b, ptr + Len(bs))
<1>1. Upto(Pkt(b, ptr), Len(b)) = b
  BY UptoAll
<1>2. Len(bs \o b) = Len(b) + Len(bs)
  <2>1. Len(bs \o b) = Len(bs) + Len(b)
    BY ConcatProperties
  <2>2. Len(b) \in Nat /\ Len(bs) \in Nat
    OBVIOUS
  <2> QED
    BY <2>1, <2>2
<1> QED
  BY <1>1, <1>2 DEF prepend_item, Pkt

(* extract_item: the position moves on, the bytes stay.                    *)
LEMMA Extracting ==
  ASSUME NEW b, NEW ptr, NEW n
  PROVE  extract_item(Pkt(b, ptr), n) = Pkt(b, ptr + n)
BY DEF extract_item, Pkt

(* What read_stream and recvfrom put into the packet.                      *)
LEMMA Receiving ==
  ASSUME NEW b \in Seq(Byte), Len(b) <= BUF_SIZE
  PROVE  received(b) = Pkt(b, 0)
<1>1. (IF Len(b) < BUF_SIZE THEN Len(b) ELSE BUF_SIZE) = Len(b)
  <2>1. BUF_SIZE \in Nat
    BY DEF BUF_SIZE
  <2>2. Len(b) \in Nat
    OBVIOUS
  <2> QED
    BY <2>1, <2>2
<1>2. SubSeq(b, 1, Len(b)) = b
  BY SubSeqFull
<1> QED
  BY <1>1, <1>2 DEF received, Pkt

(* Packet's assignment, for a reader's buffer.                             *)
LEMMA Copying ==
  ASSUME NEW b \in Seq(Byte), NEW ptr
  PROVE  copied(Pkt(b, ptr)) = Pkt(b, ptr)
<1>1. Upto(Pkt(b, ptr), Len(b)) = b
  BY UptoAll
<1> QED
  BY <1>1 DEF copied, Pkt

(* truncate: the bytes that are passed go.                                 *)
LEMMA Truncating ==
  ASSUME NEW b \in Seq(Byte), NEW h \in Seq(Byte)
  PROVE  truncate(Pkt(h \o b, Len(h))) = Pkt(b, 0)
<1> DEFINE w == h \o b
<1>1. /\ w \in Seq(Byte) /\ Len(w) = Len(h) + Len(b)
      /\ \A j \in 1 .. Len(b) : w[Len(h) + j] = b[j]
  BY ConcatProperties
<1>2. Len(h) \in Nat /\ Len(b) \in Nat
  OBVIOUS
<1> HIDE DEF w
<1>3. Len(w) - Len(h) = Len(b) /\ Len(h) + Len(b) <= Len(w)
  BY <1>1, <1>2
<1>4. Peek(Pkt(w, Len(h)), Len(b)) = b
  BY <1>1, <1>2, <1>3, PeekAt, ZenonT(40)
<1> QED
  BY <1>3, <1>4 DEF truncate, Pkt, w

-----------------------------------------------------------------------------
(* The layout of a message: at the x-th type, at[x] pieces are in, and off *)
(* has the bytes in front of each piece.                                   *)
Piece == [w : Nat, v : Nat]

Laid(ps, b, off) ==
  /\ ps \in Seq(Piece) /\ b \in Seq(Byte)
  /\ off \in [0 .. Len(ps) -> 0 .. Len(b)]
  /\ off[0] = 0 /\ off[Len(ps)] = Len(b)
  /\ \A k \in 1 .. Len(ps) : off[k] = off[k - 1] + ps[k].w
  /\ \A k \in 1 .. Len(ps) : \A j \in 1 .. ps[k].w : b[off[k - 1] + j] = <<k, j>>

(* No pieces, no bytes.                                                    *)
LEMMA NoPieces == Laid(<<>>, <<>>, [k \in 0 .. 0 |-> 0])
<1>1. <<>> \in Seq(Piece) /\ <<>> \in Seq(Byte) /\ Len(<<>>) = 0
  OBVIOUS
<1> QED
  BY <1>1 DEF Laid

(* One more piece behind the others: the pieces in front stay where they   *)
(* are.                                                                    *)
LEMMA OnePiece ==
  ASSUME NEW ps, NEW b, NEW off, Laid(ps, b, off), NEW p \in Piece
  PROVE  \E off1 : Laid(Append(ps, p), b \o Bytes(Len(ps) + 1, p.w), off1)
<1> DEFINE l == Len(ps)
           bs == Bytes(l + 1, p.w)
           ps1 == Append(ps, p)
           b1 == b \o bs
           off1 == [k \in 0 .. l + 1 |-> IF k = l + 1 THEN Len(b) + p.w ELSE off[k]]
<1>1. l \in Nat /\ p.w \in Nat /\ Len(b) \in Nat /\ ps \in Seq(Piece) /\ b \in Seq(Byte)
  BY DEF Laid, Piece
<1>2. bs \in Seq(Byte) /\ Len(bs) = p.w /\ \A j \in 1 .. p.w : bs[j] = <<l + 1, j>>
  <2>1. l + 1 \in Int
    BY <1>1
  <2> QED
    BY <1>1, <2>1, BytesType
<1> HIDE DEF bs
<1>3. /\ b1 \in Seq(Byte) /\ Len(b1) = Len(b) + Len(bs)
      /\ \A j \in 1 .. Len(b) + Len(bs) : b1[j] = IF j <= Len(b) THEN b[j] ELSE bs[j - Len(b)]
  BY <1>1, <1>2, ConcatProperties
<1>4. /\ ps1 \in Seq(Piece) /\ Len(ps1) = l + 1
      /\ \A k \in 1 .. l : ps1[k] = ps[k]
      /\ ps1[l + 1] = p
  BY <1>1
<1> HIDE DEF b1, ps1
<1>5. Len(b1) = Len(b) + p.w
  BY <1>2, <1>3
<1>6. /\ off \in [0 .. l -> 0 .. Len(b)] /\ off[0] = 0 /\ off[l] = Len(b)
      /\ \A k \in 1 .. l : off[k] = off[k - 1] + ps[k].w
      /\ \A k \in 1 .. l : \A j \in 1 .. ps[k].w : b[off[k - 1] + j] = <<k, j>>
  BY DEF Laid
<1> HIDE DEF l
<1>7. /\ off1 \in [0 .. l + 1 -> 0 .. Len(b1)]
      /\ \A k \in 0 .. l : off1[k] = off[k]
      /\ off1[l + 1] = Len(b1)
  BY <1>1, <1>5, <1>6
<1> HIDE DEF off1
<1>8. ASSUME NEW k \in 1 .. l + 1 PROVE off1[k] = off1[k - 1] + ps1[k].w
  <2>1. CASE k = l + 1
    <3>1. off1[k - 1] = Len(b) /\ ps1[k] = p
      BY <2>1, <1>1, <1>4, <1>6, <1>7
    <3> QED
      BY <2>1, <3>1, <1>5, <1>7
  <2>2. CASE k # l + 1
    <3>1. k \in 1 .. l /\ k - 1 \in 0 .. l /\ k \in 0 .. l
      BY <2>2, <1>1
    <3> QED
      BY <3>1, <1>4, <1>6, <1>7
  <2> QED
    BY <2>1, <2>2
<1>9. ASSUME NEW k \in 1 .. l + 1, NEW j \in 1 .. ps1[k].w
      PROVE  b1[off1[k - 1] + j] = <<k, j>>
  <2>1. CASE k = l + 1
    <3>1. off1[k - 1] = Len(b) /\ ps1[k] = p
      BY <2>1, <1>1, <1>4, <1>6, <1>7
    <3>2. /\ Len(b) + j \in 1 .. Len(b) + Len(bs) /\ ~(Len(b) + j <= Len(b))
          /\ Len(b) + j - Len(b) = j /\ j \in 1 .. p.w
      BY <3>1, <1>1, <1>2
    <3>3. b1[Len(b) + j] = bs[j]
      BY <3>2, <1>3
    <3> QED
      BY <2>1, <3>1, <3>2, <3>3, <1>2
  <2>2. CASE k # l + 1
    <3>1. k \in 1 .. l /\ k - 1 \in 0 .. l /\ k \in 0 .. l
      BY <2>2, <1>1
    <3>2. ps1[k] = ps[k] /\ off1[k - 1] = off[k - 1] /\ ps[k].w \in Nat
      <4>1. ps[k] \in Piece
        BY <3>1, <1>1, ElementOfSeq DEF l
      <4> QED
        BY <3>1, <4>1, <1>4, <1>7 DEF Piece
    <3>3. off[k - 1] \in 0 .. Len(b) /\ off[k] \in 0 .. Len(b) /\ off[k] = off[k - 1] + ps[k].w
      BY <3>1, <1>6
    <3>4. off[k - 1] + j \in 1 .. Len(b)
      <4>1. PICK w : w = ps[k].w
        OBVIOUS
      <4>2. PICK x, y : x = off[k - 1] /\ y = off[k]
        OBVIOUS
      <4>3. w \in Nat /\ j \in 1 .. w
        BY <3>2, <4>1
      <4>4. x \in 0 .. Len(b) /\ y \in 0 .. Len(b) /\ y = x + w
        BY <3>3, <4>1, <4>2
      <4>5. Len(b) \in Nat
        BY <1>1
      <4>6. x + j \in 1 .. Len(b)
        BY <4>3, <4>4, <4>5
      <4> QED
        BY <4>2, <4>6
    <3>5. off[k - 1] + j \in 1 .. Len(b) + Len(bs) /\ off[k - 1] + j <= Len(b)
      BY <3>4, <1>1, <1>2
    <3>6. b[off[k - 1] + j] = <<k, j>>
      BY <3>1, <3>2, <1>6
    <3> QED
      BY <3>2, <3>5, <3>6, <1>3
  <2> QED
    BY <2>1, <2>2
<1>10. off1[0] = 0 /\ off1[l + 1] = Len(b1)
  BY <1>1, <1>6, <1>7
<1>11. Laid(ps1, b1, off1)
  BY <1>3, <1>4, <1>7, <1>8, <1>9, <1>10 DEF Laid
<1> QED
  BY <1>11 DEF ps1, b1, bs, l

(* Which pieces the types of a message become.                             *)
Item(t, k, l, ps) ==
  IF t = "str" THEN l = k + 2 /\ ps[k + 1].w = 4 /\ ps[k + 1].v = ps[k + 2].w
  ELSE l = k + 1 /\ ps[k + 1].w = Width[t] /\ ps[k + 1].v = TAIListSize

Itemized(ts, q, ps, at) ==
  /\ at \in [0 .. q -> 0 .. Len(ps)] /\ at[0] = 0 /\ at[q] = Len(ps)
  /\ \A x \in 1 .. q : Item(ts[x], at[x - 1], at[x], ps)

(* One more type: its pieces are the new ones, and the types in front stay *)
(* as they are.                                                            *)
LEMMA OneItem ==
  ASSUME NEW ts, NEW q \in Nat, NEW at, NEW ps \in Seq(Piece), Itemized(ts, q, ps, at),
         NEW ps1 \in Seq(Piece), Len(ps) <= Len(ps1),
         \A k \in 1 .. Len(ps) : ps1[k] = ps[k],
         Item(ts[q + 1], Len(ps), Len(ps1), ps1)
  PROVE  \E at1 : Itemized(ts, q + 1, ps1, at1)
<1> DEFINE at1 == [x \in 0 .. q + 1 |-> IF x = q + 1 THEN Len(ps1) ELSE at[x]]
<1>1. Len(ps) \in Nat /\ Len(ps1) \in Nat
  OBVIOUS
<1>2. /\ at \in [0 .. q -> 0 .. Len(ps)] /\ at[0] = 0 /\ at[q] = Len(ps)
      /\ \A x \in 1 .. q : Item(ts[x], at[x - 1], at[x], ps)
  BY DEF Itemized
<1>3. /\ at1 \in [0 .. q + 1 -> 0 .. Len(ps1)] /\ at1[0] = 0 /\ at1[q + 1] = Len(ps1)
      /\ \A x \in 0 .. q : at1[x] = at[x]
  BY <1>1, <1>2
<1> HIDE DEF at1
<1>4. ASSUME NEW x \in 1 .. q + 1 PROVE Item(ts[x], at1[x - 1], at1[x], ps1)
  <2>1. CASE x = q + 1
    <3>1. at1[x - 1] = Len(ps) /\ at1[x] = Len(ps1)
      BY <2>1, <1>2, <1>3
    <3> QED
      BY <2>1, <3>1
  <2>2. CASE x # q + 1
    <3>1. x \in 1 .. q /\ x - 1 \in 0 .. q /\ x \in 0 .. q
      BY <2>2
    <3>2. at1[x - 1] = at[x - 1] /\ at1[x] = at[x] /\ Item(ts[x], at[x - 1], at[x], ps)
      BY <3>1, <1>2, <1>3
    <3>3. at[x - 1] \in 0 .. Len(ps) /\ at[x] \in 0 .. Len(ps)
      BY <3>1, <1>2
    <3>4. CASE ts[x] = "str"
      <4>1. at[x] = at[x - 1] + 2
        BY <3>2, <3>4 DEF Item
      <4>2. at[x - 1] + 1 \in 1 .. Len(ps) /\ at[x - 1] + 2 \in 1 .. Len(ps)
        <5>1. PICK k, l, e : k = at[x - 1] /\ l = at[x] /\ e = Len(ps)
          OBVIOUS
        <5>2. k \in 0 .. e /\ l \in 0 .. e /\ l = k + 2 /\ e \in Nat
          BY <3>3, <4>1, <1>1, <5>1
        <5>3. k + 1 \in 1 .. e /\ k + 2 \in 1 .. e
          BY <5>2
        <5> QED
          BY <5>1, <5>3
      <4> QED
        BY <3>2, <3>4, <4>2 DEF Item
    <3>5. CASE ts[x] # "str"
      <4>1. at[x] = at[x - 1] + 1
        BY <3>2, <3>5 DEF Item
      <4>2. at[x - 1] + 1 \in 1 .. Len(ps)
        BY <3>3, <4>1, <1>1
      <4> QED
        BY <3>2, <3>5, <4>2 DEF Item
    <3> QED
      BY <3>4, <3>5
  <2> QED
    BY <2>1, <2>2
<1> QED
  BY <1>3, <1>4 DEF Itemized
(* What a program is made of.                                              *)
Words == Items \cup {"clear", "append", "prepend", "udp", "sctp", "header", "call", "extract",
                     "s1ap", "gtp", "diameter"}

Calls(m) == IF m \in Handled THEN 1 ELSE 0

Opened(m) == Len(Appended(m)) + 4 + Calls(m)

(* The program of a signalling message, word by word.                      *)
LEMMA ProgramOf ==
  ASSUME NEW m \in Signals, Appended(m) \in Seq(Items), Extracted(m) \in Seq(Items),
         HeaderOf(m) \in {"s1ap", "gtp", "diameter"}
  PROVE  /\ Len(Appended(m)) \in Nat /\ Len(Extracted(m)) \in Nat /\ Calls(m) \in 0 .. 1
         /\ Len(Program[m]) = Opened(m) + Len(Extracted(m))
         /\ Program[m][1] = <<"clear">>
         /\ \A x \in 1 .. Len(Appended(m)) : Program[m][1 + x] = <<"append", Appended(m)[x]>>
         /\ Program[m][Len(Appended(m)) + 2] = <<"prepend", HeaderOf(m)>>
         /\ Program[m][Len(Appended(m)) + 3] = <<TransportOf(m)>>
         /\ Program[m][Len(Appended(m)) + 4] = <<"header", HeaderOf(m)>>
         /\ Calls(m) = 1 => Program[m][Len(Appended(m)) + 5] = <<"call">>
         /\ \A x \in 1 .. Len(Extracted(m)) :
              Program[m][Opened(m) + x] = <<"extract", Extracted(m)[x]>>
<1> DEFINE S == Seq(Words)
           na == Len(Appended(m))
           ne == Len(Extracted(m))
           nc == Calls(m)
           s1 == <<<<"clear">>>>
           s2 == Appends(Appended(m))
           s3 == <<<<"prepend", HeaderOf(m)>>, <<TransportOf(m)>>, <<"header", HeaderOf(m)>>>>
           s4 == IF m \in Handled THEN <<<<"call">>>> ELSE <<>>
           s5 == Extracts(Extracted(m))
           q2 == s1 \o s2
           q3 == q2 \o s3
           q4 == q3 \o s4
           q5 == q4 \o s5
<1>1. Program[m] = q5
  BY DEF Program, Exchange
<1>2. na \in Nat /\ ne \in Nat /\ nc \in 0 .. 1
  BY DEF Calls
<1>3. s1 \in Seq(S)
  <2>1. <<"clear">> \in Seq(Words)
    BY DEF Words
  <2> QED
    BY <2>1
<1>4. s2 \in Seq(S) /\ Len(s2) = na /\ \A x \in 1 .. na : s2[x] = <<"append", Appended(m)[x]>>
  <2>1. \A x \in 1 .. na : Appended(m)[x] \in Items
    BY ElementOfSeq
  <2>2. \A x \in 1 .. na : <<"append", Appended(m)[x]>> \in S
    BY <2>1 DEF Words
  <2>3. s2 = [x \in 1 .. na |-> <<"append", Appended(m)[x]>>]
    BY DEF Appends
  <2> QED
    BY <1>2, <2>2, <2>3
<1>6. s3 \in Seq(S)
  <2>1. TransportOf(m) \in {"udp", "sctp"}
    BY DEF TransportOf
  <2>2. /\ <<"prepend", HeaderOf(m)>> \in Seq(Words) /\ <<TransportOf(m)>> \in Seq(Words)
        /\ <<"header", HeaderOf(m)>> \in Seq(Words)
    BY <2>1 DEF Words
  <2> QED
    BY <2>2
<1>7. s4 \in Seq(S) /\ Len(s4) = nc /\ (nc = 1 => s4[1] = <<"call">>)
  <2>1. <<"call">> \in Seq(Words)
    BY DEF Words
  <2>2. CASE m \in Handled
    BY <2>1, <2>2 DEF Calls
  <2>3. CASE m \notin Handled
    BY <2>3 DEF Calls
  <2> QED
    BY <2>2, <2>3
<1>8. s5 \in Seq(S) /\ Len(s5) = ne /\ \A x \in 1 .. ne : s5[x] = <<"extract", Extracted(m)[x]>>
  <2>1. \A x \in 1 .. ne : Extracted(m)[x] \in Items
    BY ElementOfSeq
  <2>2. \A x \in 1 .. ne : <<"extract", Extracted(m)[x]>> \in S
    BY <2>1 DEF Words
  <2>3. s5 = [x \in 1 .. ne |-> <<"extract", Extracted(m)[x]>>]
    BY DEF Extracts
  <2> QED
    BY <1>2, <2>2, <2>3
<1>24. s2 \in Seq(S) /\ s4 \in Seq(S) /\ s5 \in Seq(S)
  BY <1>4, <1>7, <1>8
<1>9. Len(s1) = 1 /\ s1[1] = <<"clear">>
  OBVIOUS
<1>10. /\ Len(s3) = 3 /\ s3[1] = <<"prepend", HeaderOf(m)>> /\ s3[2] = <<TransportOf(m)>>
       /\ s3[3] = <<"header", HeaderOf(m)>>
  OBVIOUS
<1> HIDE DEF S, na, ne, nc, s1, s2, s3, s4, s5
<1>11. /\ q2 \in Seq(S) /\ Len(q2) = Len(s1) + Len(s2)
       /\ \A k \in 1 .. Len(s1) : q2[k] = s1[k]
       /\ \A k \in 1 .. Len(s2) : q2[Len(s1) + k] = s2[k]
  BY <1>3, <1>24, Concat
<1>25. q2 \in Seq(S)
  BY <1>11
<1> HIDE DEF q2
<1>12. /\ q3 \in Seq(S) /\ Len(q3) = Len(q2) + Len(s3)
       /\ \A k \in 1 .. Len(q2) : q3[k] = q2[k]
       /\ \A k \in 1 .. Len(s3) : q3[Len(q2) + k] = s3[k]
  BY <1>6, <1>25, Concat
<1>26. q3 \in Seq(S)
  BY <1>12
<1> HIDE DEF q3
<1>13. /\ q4 \in Seq(S) /\ Len(q4) = Len(q3) + Len(s4)
       /\ \A k \in 1 .. Len(q3) : q4[k] = q3[k]
       /\ \A k \in 1 .. Len(s4) : q4[Len(q3) + k] = s4[k]
  BY <1>24, <1>26, Concat
<1>27. q4 \in Seq(S)
  BY <1>13
<1> HIDE DEF q4
<1>14. /\ q5 \in Seq(S) /\ Len(q5) = Len(q4) + Len(s5)
       /\ \A k \in 1 .. Len(q4) : q5[k] = q4[k]
       /\ \A k \in 1 .. Len(s5) : q5[Len(q4) + k] = s5[k]
  BY <1>24, <1>27, Concat
<1> HIDE DEF q5
<1>15. Len(q2) = na + 1 /\ Len(q3) = na + 4 /\ Len(q4) = na + 4 + nc /\ Len(q5) = na + 4 + nc + ne
  BY <1>2, <1>4, <1>7, <1>8, <1>9, <1>10, <1>11, <1>12, <1>13, <1>14
<1>16. ASSUME NEW k \in 1 .. na + 1 PROVE q5[k] = q2[k]
  <2>1. k \in 1 .. Len(q2) /\ k \in 1 .. Len(q3) /\ k \in 1 .. Len(q4)
    BY <1>2, <1>15
  <2>2. q3[k] = q2[k] /\ q4[k] = q3[k] /\ q5[k] = q4[k]
    BY <2>1, <1>12, <1>13, <1>14
  <2> QED
    BY <2>2
<1>17. ASSUME NEW k \in 1 .. na + 4 PROVE q5[k] = q3[k]
  <2>1. k \in 1 .. Len(q3) /\ k \in 1 .. Len(q4)
    BY <1>2, <1>15
  <2>2. q4[k] = q3[k] /\ q5[k] = q4[k]
    BY <2>1, <1>13, <1>14
  <2> QED
    BY <2>2
<1>18. q5[1] = <<"clear">>
  BY <1>2, <1>9, <1>11, <1>16
<1>19. ASSUME NEW x \in 1 .. na PROVE q5[1 + x] = <<"append", Appended(m)[x]>>
  <2>1. 1 + x \in 1 .. na + 1
    BY <1>2
  <2>2. q2[1 + x] = s2[x]
    BY <1>4, <1>9, <1>11
  <2> QED
    BY <2>1, <2>2, <1>4, <1>16
<1>20. ASSUME NEW x \in 1 .. 3 PROVE q5[na + 1 + x] = s3[x]
  <2>1. na + 1 + x \in 1 .. na + 4
    BY <1>2
  <2>2. q3[na + 1 + x] = s3[x]
    BY <1>10, <1>12, <1>15
  <2> QED
    BY <2>1, <2>2, <1>17
<1>21. /\ q5[na + 2] = <<"prepend", HeaderOf(m)>> /\ q5[na + 3] = <<TransportOf(m)>>
       /\ q5[na + 4] = <<"header", HeaderOf(m)>>
  <2>1. q5[na + 1 + 1] = s3[1] /\ q5[na + 1 + 2] = s3[2] /\ q5[na + 1 + 3] = s3[3]
    BY <1>20
  <2>2. na + 1 + 1 = na + 2 /\ na + 1 + 2 = na + 3 /\ na + 1 + 3 = na + 4
    BY <1>2
  <2> QED
    BY <2>1, <2>2, <1>10
<1>22. nc = 1 => q5[na + 5] = <<"call">>
  <2> SUFFICES ASSUME nc = 1 PROVE q5[na + 5] = <<"call">>
    OBVIOUS
  <2>1. q4[na + 4 + 1] = s4[1]
    BY <1>7, <1>13, <1>15
  <2>2. na + 4 + 1 = na + 5 /\ na + 5 \in 1 .. na + 4 + nc
    BY <1>2
  <2> QED
    BY <2>1, <2>2, <1>7, <1>14, <1>15
<1>23. ASSUME NEW x \in 1 .. ne PROVE q5[na + 4 + nc + x] = <<"extract", Extracted(m)[x]>>
  BY <1>8, <1>14, <1>15
<1> QED
  BY <1>1, <1>2, <1>15, <1>18, <1>19, <1>21, <1>22, <1>23 DEF na, ne, nc, Opened
(* What a message looks like between two operations.                       *)
Empty == reading = "no" /\ out = <<>> /\ stream = <<>>
Fresh == hdr = <<>> /\ got = <<>>
Small == pkt.len <= BUF_SIZE /\ Len(pkt.data) <= BUF_SIZE

Layout(m, q, b, at, off) ==
  Laid(sent, b, off) /\ Itemized(Appended(m), q, sent, at) /\ Len(b) <= 19 * q

Hd(m) == Bytes(Header, HDR_LEN[HeaderOf(m)])
Whole(m, b) == Hd(m) \o b

Start == pc = 1 /\ Empty /\ Fresh /\ Small /\ sent = <<>> /\ ~closed

Building(m) ==
  /\ pc \in 2 .. Len(Appended(m)) + 2 /\ Empty /\ Fresh /\ ~closed
  /\ \E b, at, off : Layout(m, pc - 2, b, at, off) /\ pkt = Pkt(b, Len(b))

Prepended(m) ==
  /\ pc = Len(Appended(m)) + 3 /\ Empty /\ Fresh /\ ~closed
  /\ \E b, at, off : /\ Layout(m, Len(Appended(m)), b, at, off)
                     /\ pkt = Pkt(Whole(m, b), Len(Whole(m, b)))

(* What the reader has, d, what is in the stream, s, and what the writer   *)
(* has left, o, are w, or its beginning when the writer is gone.           *)
Parts(w, d, s, o, c) ==
  /\ d \in Seq(Byte) /\ s \in Seq(Byte) /\ o \in Seq(Byte)
  /\ Len(d) + Len(s) + Len(o) <= Len(w)
  /\ ~c => Len(d) + Len(s) + Len(o) = Len(w)
  /\ c => o = <<>>
  /\ \A j \in 1 .. Len(d) : d[j] = w[j]
  /\ \A j \in 1 .. Len(s) : s[j] = w[Len(d) + j]
  /\ \A j \in 1 .. Len(o) : o[j] = w[Len(d) + Len(s) + j]

Reading(w, n) ==
  /\ pkt = [data |-> pkt.data, data_ptr |-> 0, len |-> 0]
  /\ rem = n - Len(pkt.data) /\ rem > 0
  /\ Parts(w, pkt.data, stream, out, closed)

Moving(w) ==
  \/ reading = "len" /\ Reading(Bytes(LenOf(Len(w)), 4) \o w, 4)
  \/ reading = "body" /\ Reading(w, Len(w))

InTransit(m) ==
  /\ pc = Len(Appended(m)) + 3 /\ Fresh
  /\ \E b, at, off : Layout(m, Len(Appended(m)), b, at, off) /\ Moving(Whole(m, b))

Arrived(m) ==
  /\ pc = Len(Appended(m)) + 4 /\ Empty /\ Fresh
  /\ \E b, at, off : /\ Layout(m, Len(Appended(m)), b, at, off)
                     /\ pkt = Pkt(Whole(m, b), 0)

(* What is out of the packet so far, of the pieces ps.                     *)
Got(ps, g) ==
  /\ g \in Seq(Seq(Byte)) /\ Len(g) <= Len(ps)
  /\ \A k \in 1 .. Len(g) : g[k] = Bytes(k, ps[k].w)

(* The receiver is past the header, with the first y types taken out.      *)
Taken(m) == IF pc <= Opened(m) THEN 0 ELSE pc - Opened(m) - 1

Unpacking(m) ==
  /\ pc \in Len(Appended(m)) + 5 .. Opened(m) + Len(Extracted(m)) + 1
  /\ Empty /\ hdr = Hd(m) /\ Got(sent, got)
  /\ \E b, at, off :
       /\ Layout(m, Len(Appended(m)), b, at, off)
       /\ pkt = Pkt(Whole(m, b), Len(Hd(m)) + off[at[Taken(m)]])
       /\ Len(got) = at[Taken(m)]

(* The receiver works on a packet that it did not read to the end, or has  *)
(* given up.                                                               *)
Half(m) ==
  /\ closed /\ m \in Unchecked /\ pc \in Len(Appended(m)) + 4 .. Len(Program[m]) + 1 /\ Empty
  /\ pkt.data \in Seq(Byte) /\ Len(pkt.data) <= BUF_SIZE
  /\ pkt = [data |-> pkt.data, data_ptr |-> pkt.data_ptr, len |-> 0]

Ended(m) ==
  /\ pc = Len(Program[m]) + 1 /\ Empty /\ Fresh
  /\ Len(pkt.data) <= BUF_SIZE /\ pkt.data_ptr = 0 /\ pkt.len = 0

SignalInv(m) ==
  Building(m) \/ Prepended(m) \/ InTransit(m) \/ Arrived(m) \/ Unpacking(m) \/ Half(m) \/ Ended(m)

(* A user packet is on its own, or behind a tunnel's header that is passed *)
(* or ahead.                                                               *)
Gtp == Bytes(Header, HDR_LEN.gtp)

Alone(n) == pkt = Pkt(Bytes(1, n), 0) /\ got = <<>>
Passed(n) == pkt = Pkt(Gtp \o Bytes(1, n), Len(Gtp)) /\ got = <<>>
Ahead(n) == pkt = Pkt(Gtp \o Bytes(1, n), 0) /\ got = <<>>
Delivered(n) == pkt = Pkt(Bytes(1, n), 0) /\ got = <<Bytes(1, n)>>

UserInv(m) ==
  /\ Empty /\ hdr \in {<<>>, Gtp}
  /\ \E n \in PayloadLens :
       /\ sent = <<[w |-> n, v |-> 0]>>
       /\ \/ Alone(n) /\ pc \in (IF m = "uplink" THEN {2, 7, 12, 13} ELSE {2, 3, 4, 9, 13})
          \/ Passed(n) /\ pc \in (IF m = "uplink" THEN {3, 5, 6, 8, 10, 11} ELSE {5, 7, 8, 10, 12})
          \/ Ahead(n) /\ pc \in (IF m = "uplink" THEN {4, 9} ELSE {6, 11})
          \/ Delivered(n) /\ pc = 14

WireInv ==
  /\ msg \in Messages \cup {"none"}
  /\ \/ Start
     \/ msg \in Signals /\ SignalInv(msg)
     \/ msg \in {"uplink", "downlink"} /\ UserInv(msg)

(* The operations as one: what the program of the message has next.        *)
LEMMA OneOp ==
  ASSUME Empty, ~Done, WireNext
  PROVE  /\ msg # "none" /\ reading = "no"
         /\ \/ ClearPkt \/ Call \/ Truncate \/ Datagram \/ TunRcv \/ TunSnd
            \/ AppendItem \/ PrependHdr \/ ExtractHdr \/ ExtractItem \/ SctpSnd
<1>1. ~(\E m \in Messages : Begin(m))
  BY DEF Begin
<1>2. ~ReadStream /\ ~ReadEnd /\ ~Break
  BY DEF Empty, ReadStream, ReadEnd, Break
<1>3. ~(\E n \in 1 .. Len(out) : WriteStream(n))
  <2>1. Len(out) = 0
    BY DEF Empty
  <2> QED
    BY <2>1
<1>4. msg # "none" /\ reading = "no"
  BY DEF Done, Empty
<1> QED
  BY <1>1, <1>2, <1>3, <1>4 DEF WireNext

(* The operation that the next word stands for, and what it does to the    *)
(* packet.                                                                 *)
LEMMA ByName ==
  ASSUME Empty, ~Done, WireNext, NEW x, Program[msg][pc][1] = x
  PROVE  /\ x = "clear" => ClearPkt
         /\ x = "append" => AppendItem
         /\ x = "prepend" => PrependHdr
         /\ x = "sctp" => SctpSnd
         /\ x = "udp" => Datagram
         /\ x = "header" => ExtractHdr
         /\ x = "call" => Call
         /\ x = "extract" => ExtractItem
         /\ x = "truncate" => Truncate
         /\ x = "tun" => TunRcv
         /\ x = "deliver" => TunSnd
<1>1. /\ ClearPkt => x = "clear"
      /\ AppendItem => x = "append"
      /\ PrependHdr => x = "prepend"
      /\ SctpSnd => x = "sctp"
      /\ Datagram => x = "udp"
      /\ ExtractHdr => x = "header"
      /\ Call => x = "call"
      /\ ExtractItem => x = "extract"
      /\ Truncate => x = "truncate"
      /\ TunRcv => x = "tun"
      /\ TunSnd => x = "deliver"
  BY DEF ClearPkt, AppendItem, PrependHdr, SctpSnd, Datagram, ExtractHdr, Call, ExtractItem,
         Truncate, TunRcv, TunSnd, Op
<1> QED
  BY <1>1, OneOp

(* A message that is over, and the next.                                   *)
LEMMA Over ==
  ASSUME Empty, Done, Small, WireNext
  PROVE  msg' \in Messages /\ Start'
<1>1. \E m \in Messages : Begin(m)
  <2>1. ~ReadStream /\ ~ReadEnd /\ ~Break
    BY DEF Empty, ReadStream, ReadEnd, Break
  <2>2. ~(\E n \in 1 .. Len(out) : WriteStream(n))
    <3>1. Len(out) = 0
      BY DEF Empty
    <3> QED
      BY <3>1
  <2>3. \A name : ~Op(name)
    BY DEF Op
  <2> QED
    BY <2>1, <2>2, <2>3 DEF WireNext, ClearPkt, AppendItem, PrependHdr, SctpSnd, Datagram,
         ExtractHdr, Call, ExtractItem, Truncate, TunRcv, TunSnd
<1>2. PICK m \in Messages : Begin(m)
  BY <1>1
<1> QED
  BY <1>2 DEF Begin, Start, Empty, Fresh, Small

(* Programs of signalling messages.                                        *)
LEMMA Signal ==
  ASSUME NEW m \in Signals, m # "sec_cmd"
  PROVE  /\ Good(Appended(m)) /\ Extracted(m) \in Seq(Items)
         /\ Len(Extracted(m)) <= Len(Appended(m))
         /\ \A x \in 1 .. Len(Extracted(m)) : Extracted(m)[x] = Appended(m)[x]
         /\ Hd(m) \in Seq(Byte) /\ Len(Hd(m)) \in {4, 12, 16}
         /\ Len(Hd(m)) = HDR_LEN[HeaderOf(m)]
<1>1. Good(Appended(m))
  BY AppendsGood
<1>2. Appended(m) \in Seq(Items) /\ Len(Appended(m)) \in Nat
  BY <1>1 DEF Good
<1>3. Extracted(m) = Appended(m) \/ Extracted(m) = <<>>
  BY ExtractsMatch
<1>4. Len(<<>>) = 0 /\ <<>> \in Seq(Items)
  OBVIOUS
<1>5. HDR_LEN[HeaderOf(m)] \in {4, 12, 16}
  BY HeaderTypes DEF HDR_LEN
<1>6. Hd(m) \in Seq(Byte) /\ Len(Hd(m)) = HDR_LEN[HeaderOf(m)]
  <2>1. Header \in Int /\ HDR_LEN[HeaderOf(m)] \in Nat
    BY <1>5 DEF Header
  <2> QED
    BY <2>1, BytesType DEF Hd
<1>7. Extracted(m) \in Seq(Items) /\ Len(Extracted(m)) <= Len(Appended(m))
  <2>1. CASE Extracted(m) = <<>>
    BY <2>1, <1>2, <1>4
  <2> QED
    BY <2>1, <1>2, <1>3
<1>8. \A x \in 1 .. Len(Extracted(m)) : Extracted(m)[x] = Appended(m)[x]
  <2>1. CASE Extracted(m) = <<>>
    <3>1. Len(Extracted(m)) = 0
      BY <2>1, <1>4
    <3> QED
      BY <3>1
  <2> QED
    BY <2>1, <1>3
<1> QED
  BY <1>1, <1>5, <1>6, <1>7, <1>8

(* The same, word by word, without the names of the parts.                 *)
LEMMA SignalProgram ==
  ASSUME NEW m \in Signals, m # "sec_cmd"
  PROVE  /\ Len(Appended(m)) \in Nat /\ Len(Extracted(m)) \in Nat /\ Calls(m) \in 0 .. 1
         /\ Len(Program[m]) = Opened(m) + Len(Extracted(m))
         /\ Program[m][1] = <<"clear">>
         /\ \A x \in 1 .. Len(Appended(m)) : Program[m][1 + x] = <<"append", Appended(m)[x]>>
         /\ Program[m][Len(Appended(m)) + 2] = <<"prepend", HeaderOf(m)>>
         /\ Program[m][Len(Appended(m)) + 3] = <<TransportOf(m)>>
         /\ Program[m][Len(Appended(m)) + 4] = <<"header", HeaderOf(m)>>
         /\ Calls(m) = 1 => Program[m][Len(Appended(m)) + 5] = <<"call">>
         /\ \A x \in 1 .. Len(Extracted(m)) :
              Program[m][Opened(m) + x] = <<"extract", Extracted(m)[x]>>
<1>1. Appended(m) \in Seq(Items) /\ Extracted(m) \in Seq(Items)
  BY Signal DEF Good
<1>2. HeaderOf(m) \in {"s1ap", "gtp", "diameter"}
  BY HeaderTypes
<1> QED
  BY <1>1, <1>2, ProgramOf

(* The operations, by the message's place.                                 *)
LEMMA StartSignal ==
  ASSUME NEW m, m = msg, m \in Signals, m # "sec_cmd", Start, WireNext
  PROVE  msg' = m /\ Building(m)'
<1>1. /\ Len(Appended(m)) \in Nat /\ Len(Extracted(m)) \in Nat /\ Calls(m) \in 0 .. 1
      /\ Len(Program[m]) = Opened(m) + Len(Extracted(m))
      /\ Program[m][1] = <<"clear">>
  BY SignalProgram
<1>2. m # "none"
  BY DEF Signals, RanAppends, MmeAppends, HssAppends, SgwAppends, PgwAppends
<1>3. ~Done
  <2>1. ~(1 > Len(Program[m]))
    BY <1>1 DEF Opened
  <2> QED
    BY <2>1, <1>2 DEF Start, Done
<1>4. ClearPkt
  <2>1. Program[msg][pc][1] = "clear"
    BY <1>1 DEF Start
  <2>2. Empty
    BY DEF Start
  <2> QED
    BY <1>3, <2>1, <2>2, ByName
<1>5. pkt' = Pkt(<<>>, 0) /\ pc' = 2 /\ UNCHANGED <<msg, link, sent, hdr, got>>
  BY <1>4 DEF ClearPkt, Turn, clear_pkt, Pkt, Start
<1>6. Empty' /\ Fresh' /\ ~closed' /\ sent' = <<>>
  BY <1>5 DEF Start, Empty, Fresh, link
<1> DEFINE off == [k \in 0 .. 0 |-> 0]
<1>7. Laid(sent', <<>>, off)
  BY <1>6, NoPieces
<1>8. Itemized(Appended(m), 0, sent', off)
  <2>1. Len(<<>>) = 0
    OBVIOUS
  <2> QED
    BY <1>6, <2>1 DEF Itemized
<1>9. Len(<<>>) <= 19 * 0
  OBVIOUS
<1>10. Layout(m, pc - 2, <<>>, off, off)'
  BY <1>5, <1>7, <1>8, <1>9 DEF Layout
<1>11. pkt' = Pkt(<<>>, Len(<<>>))
  BY <1>5
<1>12. pc' \in 2 .. Len(Appended(m)) + 2
  BY <1>1, <1>5
<1> QED
  BY <1>5, <1>6, <1>10, <1>11, <1>12 DEF Building

(* A sequence with one more element.                                       *)
LEMMA Appended1 ==
  ASSUME NEW S, NEW s \in Seq(S), NEW x \in S, NEW r, r = Append(s, x)
  PROVE  /\ r \in Seq(S) /\ Len(r) = Len(s) + 1
         /\ \A j \in 1 .. Len(s) : r[j] = s[j]
         /\ r[Len(s) + 1] = x
OBVIOUS

(* The packet p has n bytes at most for the first q types.                 *)
Grown(ts, q, ps, p, n) ==
  \E b, at, off : /\ Laid(ps, b, off) /\ Itemized(ts, q, ps, at)
                  /\ Len(b) <= n /\ Len(b) \in Nat /\ p = Pkt(b, Len(b))

(* A type that is one piece goes into the packet.                          *)
LEMMA ItemAppended ==
  ASSUME NEW ts, NEW q \in Nat, NEW ps, NEW b, NEW at, NEW off,
         Laid(ps, b, off), Itemized(ts, q, ps, at),
         NEW t, t = ts[q + 1], t \in Items, t # "str",
         NEW p, p = append_item(Pkt(b, Len(b)), Bytes(Len(ps) + 1, Width[t])),
         NEW ps1, ps1 = Append(ps, [w |-> Width[t], v |-> TAIListSize])
  PROVE  Grown(ts, q + 1, ps1, p, Len(b) + 19)
<1> DEFINE piece == [w |-> Width[t], v |-> TAIListSize]
           bs == Bytes(Len(ps) + 1, Width[t])
           b1 == b \o bs
<1>1. Width[t] \in 1 .. 8
  BY DEF Width, Items, TAIListSize
<1>2. piece \in Piece /\ piece.w = Width[t] /\ piece.v = TAIListSize
  BY <1>1 DEF Piece, TAIListSize
<1>3. ps \in Seq(Piece) /\ Len(ps) \in Nat /\ b \in Seq(Byte) /\ Len(b) \in Nat
  BY DEF Laid
<1>4. bs \in Seq(Byte) /\ Len(bs) = Width[t]
  <2>1. Len(ps) + 1 \in Int /\ Width[t] \in Nat
    BY <1>1, <1>3
  <2> QED
    BY <2>1, BytesType
<1> HIDE DEF piece
<1>5. PICK off1 : Laid(ps1, b1, off1)
  <2>1. \E off1 : Laid(Append(ps, piece), b \o Bytes(Len(ps) + 1, piece.w), off1)
    BY <1>2, OnePiece
  <2> QED
    BY <2>1, <1>2 DEF piece
<1> HIDE DEF bs
<1>6. /\ ps1 \in Seq(Piece) /\ Len(ps1) = Len(ps) + 1
      /\ \A j \in 1 .. Len(ps) : ps1[j] = ps[j]
      /\ ps1[Len(ps) + 1] = piece
  BY <1>2, <1>3 DEF piece
<1>7. PICK at1 : Itemized(ts, q + 1, ps1, at1)
  <2>1. Item(ts[q + 1], Len(ps), Len(ps1), ps1)
    BY <1>2, <1>6 DEF Item
  <2>2. Len(ps) <= Len(ps1)
    BY <1>3, <1>6
  <2> QED
    BY <2>1, <2>2, <1>3, <1>6, OneItem
<1>8. p = Pkt(b1, Len(b1))
  BY <1>3, <1>4, Appending DEF bs
<1>9. Len(b1) = Len(b) + Len(bs)
  BY <1>3, <1>4, ConcatProperties
<1>10. Len(b1) <= Len(b) + 19 /\ Len(b1) \in Nat
  <2>1. Len(b) \in Nat /\ Len(bs) \in 1 .. 8
    BY <1>1, <1>3, <1>4
  <2>2. PICK x, y, z : x = Len(b) /\ y = Len(bs) /\ z = Len(b1)
    OBVIOUS
  <2>3. x \in Nat /\ y \in 1 .. 8 /\ z = x + y
    BY <2>1, <2>2, <1>9
  <2>4. z <= x + 19 /\ z \in Nat
    BY <2>3
  <2> QED
    BY <2>2, <2>4
<1> QED
  BY <1>5, <1>7, <1>8, <1>10 DEF Grown

(* A string is two pieces: its length and its characters.                  *)
LEMMA TwoAppended ==
  ASSUME NEW ps \in Seq(Piece), NEW l \in 0 .. 15
  PROVE  ps \o <<[w |-> 4, v |-> l], [w |-> l, v |-> 0]>>
           = Append(Append(ps, [w |-> 4, v |-> l]), [w |-> l, v |-> 0])
<1>1. [w |-> 4, v |-> l] \in Piece /\ [w |-> l, v |-> 0] \in Piece
  BY DEF Piece
<1> QED
  BY <1>1

(* Two pieces behind the others, put down one after the other.             *)
LEMMA TwoPieces ==
  ASSUME NEW ps \in Seq(Piece), NEW one \in Piece, NEW two \in Piece,
         NEW qs, qs = Append(ps, one), NEW ps1, ps1 = Append(qs, two)
  PROVE  /\ ps1 \in Seq(Piece) /\ Len(ps1) = Len(ps) + 2
         /\ \A j \in 1 .. Len(ps) : ps1[j] = ps[j]
         /\ ps1[Len(ps) + 1] = one /\ ps1[Len(ps) + 2] = two
<1>1. /\ qs \in Seq(Piece) /\ Len(qs) = Len(ps) + 1
      /\ \A j \in 1 .. Len(ps) : qs[j] = ps[j]
      /\ qs[Len(ps) + 1] = one
  BY Appended1
<1>2. qs \in Seq(Piece)
  BY <1>1
<1>3. /\ ps1 \in Seq(Piece) /\ Len(ps1) = Len(qs) + 1
      /\ \A j \in 1 .. Len(qs) : ps1[j] = qs[j]
      /\ ps1[Len(qs) + 1] = two
  BY <1>2, Appended1
<1>4. Len(ps) \in Nat
  OBVIOUS
<1> QED
  BY <1>1, <1>3, <1>4

(* A string goes into the packet (append_item of a string).                *)
LEMMA StringAppended ==
  ASSUME NEW ts, NEW q \in Nat, NEW ps, NEW b, NEW at, NEW off,
         Laid(ps, b, off), Itemized(ts, q, ps, at), ts[q + 1] = "str", NEW l \in 0 .. 15,
         NEW p, p = append_item(append_item(Pkt(b, Len(b)), Bytes(Len(ps) + 1, 4)),
                                Bytes(Len(ps) + 1 + 1, l)),
         NEW ps1, ps1 = Append(Append(ps, [w |-> 4, v |-> l]), [w |-> l, v |-> 0])
  PROVE  Grown(ts, q + 1, ps1, p, Len(b) + 19)
<1> DEFINE one == [w |-> 4, v |-> l]
           two == [w |-> l, v |-> 0]
           bs == Bytes(Len(ps) + 1, 4)
           cs == Bytes(Len(ps) + 1 + 1, l)
           c1 == b \o bs
           b1 == c1 \o cs
           qs == Append(ps, one)
<1>1. one \in Piece /\ one.w = 4 /\ one.v = l /\ two \in Piece /\ two.w = l
  BY DEF Piece
<1>2. ps \in Seq(Piece) /\ Len(ps) \in Nat /\ b \in Seq(Byte) /\ Len(b) \in Nat
  BY DEF Laid
<1>3. bs \in Seq(Byte) /\ Len(bs) = 4 /\ cs \in Seq(Byte) /\ Len(cs) = l
  <2>1. Len(ps) + 1 \in Int /\ Len(ps) + 1 + 1 \in Int /\ l \in Nat /\ 4 \in Nat
    BY <1>2
  <2> QED
    BY <2>1, BytesType
<1>4. ps1 = Append(qs, two)
  OBVIOUS
<1> HIDE DEF one, two
<1>5. qs \in Seq(Piece) /\ Len(qs) = Len(ps) + 1
  BY <1>1, <1>2
<1>6. PICK off1 : Laid(ps1, b1, off1)
  <2>1. PICK off0 : Laid(qs, b \o Bytes(Len(ps) + 1, one.w), off0)
    BY <1>1, OnePiece
  <2>2. Laid(qs, c1, off0)
    BY <2>1, <1>1
  <2> HIDE DEF qs, c1
  <2>3. PICK off1 : Laid(Append(qs, two), c1 \o Bytes(Len(qs) + 1, two.w), off1)
    BY <2>2, <1>1, OnePiece
  <2> QED
    BY <2>3, <1>1, <1>4, <1>5
<1>7. /\ ps1 \in Seq(Piece) /\ Len(ps1) = Len(ps) + 2
      /\ \A j \in 1 .. Len(ps) : ps1[j] = ps[j]
      /\ ps1[Len(ps) + 1] = one /\ ps1[Len(ps) + 2] = two
  <2>1. one \in Piece /\ two \in Piece
    BY <1>1
  <2>2. qs = Append(ps, one)
    OBVIOUS
  <2> HIDE DEF qs
  <2> QED
    BY <2>1, <2>2, <1>2, <1>4, TwoPieces
<1> HIDE DEF bs, cs, qs
<1>8. PICK at1 : Itemized(ts, q + 1, ps1, at1)
  <2>1. Item(ts[q + 1], Len(ps), Len(ps1), ps1)
    BY <1>1, <1>7 DEF Item
  <2>2. Len(ps) <= Len(ps1)
    BY <1>2, <1>7
  <2> QED
    BY <2>1, <2>2, <1>2, <1>7, OneItem
<1>9. p = Pkt(b1, Len(b1))
  <2>1. append_item(Pkt(b, Len(b)), bs) = Pkt(c1, Len(c1))
    BY <1>2, <1>3, Appending
  <2>2. c1 \in Seq(Byte)
    BY <1>2, <1>3, ConcatProperties
  <2> HIDE DEF c1
  <2>3. append_item(Pkt(c1, Len(c1)), cs) = Pkt(b1, Len(b1))
    BY <1>3, <2>2, Appending
  <2> QED
    BY <2>1, <2>3 DEF bs, cs
<1>10. Len(b1) = Len(b) + Len(bs) + Len(cs)
  <2>1. c1 \in Seq(Byte) /\ Len(c1) = Len(b) + Len(bs)
    BY <1>2, <1>3, ConcatProperties
  <2> HIDE DEF c1
  <2>2. Len(b1) = Len(c1) + Len(cs)
    BY <2>1, <1>3, ConcatProperties
  <2> QED
    BY <2>1, <2>2
<1>11. Len(b1) <= Len(b) + 19 /\ Len(b1) \in Nat
  BY <1>2, <1>3, <1>10
<1> QED
  BY <1>6, <1>8, <1>9, <1>11 DEF Grown

(* The sender's next append_item, or its header in front of all.           *)
LEMMA BuildingStep ==
  ASSUME NEW m, m = msg, m \in Signals, m # "sec_cmd", Building(m), WireNext
  PROVE  msg' = m /\ (Building(m) \/ Prepended(m))'
<1> DEFINE ts == Appended(m)
           na == Len(ts)
<1>1. /\ na \in Nat /\ Len(Extracted(m)) \in Nat /\ Calls(m) \in 0 .. 1
      /\ Len(Program[m]) = Opened(m) + Len(Extracted(m))
      /\ \A x \in 1 .. na : Program[m][1 + x] = <<"append", ts[x]>>
      /\ Program[m][na + 2] = <<"prepend", HeaderOf(m)>>
  BY SignalProgram
<1>2. m # "none"
  BY DEF Signals, RanAppends, MmeAppends, HssAppends, SgwAppends, PgwAppends
<1> HIDE DEF na, ts
<1>3. pc \in 2 .. na + 2 /\ Empty /\ Fresh /\ ~closed
  BY DEF Building, na, ts
<1>4. ~Done
  <2>1. ~(pc > Len(Program[m]))
    BY <1>1, <1>3 DEF Opened, na, ts
  <2> QED
    BY <2>1, <1>2 DEF Done
<1>5. PICK b, at, off : Layout(m, pc - 2, b, at, off) /\ pkt = Pkt(b, Len(b))
  BY DEF Building
<1> DEFINE q == pc - 2
<1>6. Laid(sent, b, off) /\ Itemized(ts, q, sent, at) /\ Len(b) <= 19 * q
  BY <1>5 DEF Layout, ts
<1>7. sent \in Seq(Piece) /\ b \in Seq(Byte) /\ Len(sent) \in Nat /\ Len(b) \in Nat
  BY <1>6 DEF Laid
<1>8. CASE pc = na + 2
  <2>1. PrependHdr
    <3>1. Program[msg][pc][1] = "prepend"
      BY <1>1, <1>8
    <3> QED
      BY <1>3, <1>4, <3>1, ByName
  <2>2. Arg = HeaderOf(m)
    BY <1>1, <1>8 DEF Arg
  <2>3. /\ pkt' = prepend_item(pkt, Hd(m)) /\ pc' = pc + 1
        /\ UNCHANGED <<msg, link, sent, hdr, got>>
    BY <2>1, <2>2 DEF PrependHdr, Turn, Hd
  <2>4. Hd(m) \in Seq(Byte) /\ Len(Hd(m)) \in {4, 12, 16}
    BY Signal
  <2>5. pkt' = Pkt(Hd(m) \o b, Len(b) + Len(Hd(m)))
    <3>1. Hd(m) \in Seq(Byte)
      BY <2>4
    <3> QED
      BY <3>1, <2>3, <1>5, <1>7, Prepending
  <2>6. Len(Hd(m) \o b) = Len(b) + Len(Hd(m))
    <3>1. Hd(m) \in Seq(Byte)
      BY <2>4
    <3>2. Len(Hd(m) \o b) = Len(Hd(m)) + Len(b)
      BY <3>1, <1>7, ConcatProperties
    <3>3. Len(Hd(m)) \in Nat
      BY <3>1
    <3> QED
      BY <3>2, <3>3, <1>7
  <2>7. pkt' = Pkt(Whole(m, b), Len(Whole(m, b)))
    BY <2>5, <2>6 DEF Whole
  <2>8. Layout(m, na, b, at, off)'
    BY <1>1, <1>6, <1>8, <2>3 DEF Layout, ts
  <2>9. Empty' /\ Fresh' /\ ~closed' /\ pc' = na + 3
    BY <1>1, <1>3, <1>8, <2>3 DEF Empty, Fresh, link
  <2> QED
    BY <2>3, <2>7, <2>8, <2>9 DEF Prepended, na, ts
<1>9. CASE pc # na + 2
  <2>1. q + 1 \in 1 .. na /\ 1 + (q + 1) = pc /\ q \in Nat
    BY <1>1, <1>3, <1>9
  <2> DEFINE t == ts[q + 1]
  <2>2. Program[m][pc] = <<"append", t>>
    <3>1. Program[m][1 + (q + 1)] = <<"append", ts[q + 1]>>
      BY <1>1, <2>1
    <3> QED
      BY <2>1, <3>1
  <2>3. t \in Items
    <3>1. ts \in Seq(Items)
      BY Signal DEF Good, ts
    <3> QED
      BY <3>1, <2>1, ElementOfSeq DEF na
  <2> HIDE DEF t
  <2>4. AppendItem
    BY <1>3, <1>4, <2>2, ByName
  <2>5. Arg = t
    BY <2>2 DEF Arg
  <2> DEFINE k == Len(sent) + 1
  <2>6. pc' = pc + 1 /\ UNCHANGED <<msg, link, hdr, got>>
    BY <2>4 DEF AppendItem, Turn
  <2>7. Grown(ts, q + 1, sent', pkt', Len(b) + 19)
    <3>1. CASE t = "str"
      <4>1. PICK l \in StrLens :
              /\ pkt' = append_item(append_item(pkt, Bytes(k, 4)), Bytes(k + 1, l))
              /\ sent' = sent \o <<[w |-> 4, v |-> l], [w |-> l, v |-> 0]>>
        BY <2>4, <2>5, <3>1 DEF AppendItem, Turn
      <4>2. l \in 0 .. 15
        BY LengthsAssumption
      <4>4. sent' = Append(Append(sent, [w |-> 4, v |-> l]), [w |-> l, v |-> 0])
        BY <1>7, <4>1, <4>2, TwoAppended
      <4>3. /\ pkt' = append_item(append_item(Pkt(b, Len(b)), Bytes(Len(sent) + 1, 4)),
                                  Bytes(Len(sent) + 1 + 1, l))
            /\ ts[q + 1] = "str" /\ q \in Nat /\ Laid(sent, b, off) /\ Itemized(ts, q, sent, at)
        BY <1>5, <1>6, <2>1, <3>1, <4>1 DEF t
      <4> HIDE DEF q
      <4> QED
        BY <4>4, <4>2, <4>3, StringAppended
    <3>2. CASE t # "str"
      <4>1. /\ pkt' = append_item(pkt, Bytes(k, Width[t]))
            /\ sent' = Append(sent, [w |-> Width[t], v |-> TAIListSize])
        BY <2>4, <2>5, <3>2 DEF AppendItem, Turn
      <4>2. /\ pkt' = append_item(Pkt(b, Len(b)), Bytes(Len(sent) + 1, Width[t]))
            /\ t = ts[q + 1] /\ q \in Nat /\ Laid(sent, b, off) /\ Itemized(ts, q, sent, at)
        BY <1>5, <1>6, <2>1, <4>1 DEF t
      <4> HIDE DEF q
      <4> QED
        BY <2>3, <3>2, <4>1, <4>2, ItemAppended
    <3> QED
      BY <3>1, <3>2
  <2>8. PICK b1, at1, off1 : /\ Laid(sent', b1, off1) /\ Itemized(ts, q + 1, sent', at1)
                             /\ Len(b1) <= Len(b) + 19 /\ Len(b1) \in Nat
                             /\ pkt' = Pkt(b1, Len(b1))
    BY <2>7 DEF Grown
  <2>9. pc' - 2 = q + 1 /\ Len(b1) <= 19 * (q + 1) /\ pc' \in 2 .. na + 2
    BY <2>1, <2>6, <2>8, <1>1, <1>3, <1>6, <1>7, <1>9
  <2>10. Layout(m, pc - 2, b1, at1, off1)'
    BY <2>8, <2>9 DEF Layout, ts
  <2>11. Empty' /\ Fresh' /\ ~closed'
    BY <1>3, <2>6 DEF Empty, Fresh, link
  <2> QED
    BY <2>6, <2>8, <2>9, <2>10, <2>11 DEF Building, na, ts
<1> QED
  BY <1>8, <1>9

(* A message on its way: what is moved from the writer to the stream and   *)
(* from the stream to the reader stays in order.                           *)
LEMMA FirstPart ==
  ASSUME NEW S, NEW s \in Seq(S), NEW n \in 0 .. Len(s), NEW r, r = SubSeq(s, 1, n)
  PROVE  r \in Seq(S) /\ Len(r) = n /\ \A j \in 1 .. n : r[j] = s[j]
<1>1. Len(s) \in Nat /\ n \in Int /\ n >= 0 /\ n <= Len(s)
  OBVIOUS
<1>2. \A j \in 1 .. n : s[j] \in S
  BY <1>1, ElementOfSeq
<1>3. 1 \in Int
  OBVIOUS
<1>4. /\ r \in Seq(S) /\ Len(r) = IF 1 <= n THEN n - 1 + 1 ELSE 0
      /\ \A j \in 1 .. n - 1 + 1 : r[j] = s[1 + j - 1]
  BY <1>1, <1>2, <1>3, SubSeqProperties
<1>5. Len(r) = n
  BY <1>1, <1>4
<1>6. \A j \in 1 .. n : r[j] = s[j]
  BY <1>1, <1>4
<1> QED
  BY <1>4, <1>5, <1>6

(* The rest of a sequence, from n + 1 on.                                  *)
LEMMA LastPart ==
  ASSUME NEW S, NEW s \in Seq(S), NEW n \in 0 .. Len(s), NEW r, r = SubSeq(s, n + 1, Len(s))
  PROVE  r \in Seq(S) /\ Len(r) = Len(s) - n /\ \A j \in 1 .. Len(s) - n : r[j] = s[n + j]
<1>1. Len(s) \in Int /\ n + 1 \in Int /\ n >= 0 /\ n <= Len(s) /\ n \in Int
  OBVIOUS
<1>2. \A j \in n + 1 .. Len(s) : s[j] \in S
  BY <1>1, ElementOfSeq
<1>3. /\ r \in Seq(S) /\ Len(r) = IF n + 1 <= Len(s) THEN Len(s) - (n + 1) + 1 ELSE 0
      /\ \A j \in 1 .. Len(s) - (n + 1) + 1 : r[j] = s[n + 1 + j - 1]
  BY <1>1, <1>2, SubSeqProperties
<1>4. Len(r) = Len(s) - n
  BY <1>1, <1>3
<1>5. \A j \in 1 .. Len(s) - n : r[j] = s[n + j]
  BY <1>1, <1>3
<1> QED
  BY <1>3, <1>4, <1>5

(* The first n bytes of q go to the end of p, and the others remain.       *)
Joined(p, q, n, r) ==
  /\ r \in Seq(Byte) /\ Len(r) = Len(p) + n
  /\ \A k \in 1 .. Len(p) : r[k] = p[k]
  /\ \A k \in 1 .. n : r[Len(p) + k] = q[k]

Remaining(q, n, r) ==
  r \in Seq(Byte) /\ Len(r) = Len(q) - n /\ \A k \in 1 .. Len(q) - n : r[k] = q[n + k]

(* Moving the first n bytes of q to p keeps p \o q.                        *)
LEMMA Moved ==
  ASSUME NEW p \in Seq(Byte), NEW q \in Seq(Byte), NEW n \in 0 .. Len(q),
         NEW f, f = SubSeq(q, 1, n), NEW r, r = p \o f
  PROVE  Joined(p, q, n, r)
<1>1. f \in Seq(Byte) /\ Len(f) = n /\ \A j \in 1 .. n : f[j] = q[j]
  BY FirstPart
<1>2. f \in Seq(Byte)
  BY <1>1
<1>3. /\ r \in Seq(Byte) /\ Len(r) = Len(p) + Len(f)
      /\ \A k \in 1 .. Len(p) : r[k] = p[k]
      /\ \A k \in 1 .. Len(f) : r[Len(p) + k] = f[k]
  BY <1>2, Concat
<1> QED
  BY <1>1, <1>3 DEF Joined

(* write_stream moves n bytes to the stream: nothing is lost or changes    *)
(* place.                                                                  *)
LEMMA WrittenParts ==
  ASSUME NEW w \in Seq(Byte), NEW d, NEW s, NEW o, NEW c, Parts(w, d, s, o, c),
         NEW n \in 1 .. Len(o),
         NEW s1, Joined(s, o, n, s1), NEW o1, Remaining(o, n, o1)
  PROVE  Parts(w, d, s1, o1, c)
<1>1. d \in Seq(Byte) /\ s \in Seq(Byte) /\ o \in Seq(Byte)
  BY DEF Parts
<1>2. Len(d) \in Nat /\ Len(s) \in Nat /\ Len(o) \in Nat /\ Len(w) \in Nat
  BY <1>1
<1>3. /\ s1 \in Seq(Byte) /\ Len(s1) = Len(s) + n
      /\ \A k \in 1 .. Len(s) : s1[k] = s[k]
      /\ \A k \in 1 .. n : s1[Len(s) + k] = o[k]
  BY DEF Joined
<1>4. o1 \in Seq(Byte) /\ Len(o1) = Len(o) - n /\ \A j \in 1 .. Len(o) - n : o1[j] = o[n + j]
  BY DEF Remaining
<1>9. ~c
  <2>1. Len(<<>>) = 0
    OBVIOUS
  <2> QED
    BY <2>1, <1>2 DEF Parts
<1>10. Len(d) + Len(s) + Len(o) = Len(w)
  BY <1>9 DEF Parts
<1>11. Len(d) + Len(s1) + Len(o1) = Len(w)
  <2>1. PICK x, y, z, u, v : x = Len(d) /\ y = Len(s) /\ z = Len(o) /\ u = Len(s1) /\ v = Len(o1)
    OBVIOUS
  <2>2. x \in Nat /\ y \in Nat /\ z \in Nat /\ n \in Nat /\ u = y + n /\ v = z - n
    BY <2>1, <1>2, <1>3, <1>4
  <2>3. x + u + v = x + y + z
    BY <2>2
  <2> QED
    BY <2>1, <2>3, <1>10
<1>12. ASSUME NEW j \in 1 .. Len(s1) PROVE s1[j] = w[Len(d) + j]
  <2>1. CASE j <= Len(s)
    BY <2>1, <1>2, <1>3 DEF Parts
  <2>2. CASE ~(j <= Len(s))
    <3>1. PICK k \in 1 .. n : j = Len(s) + k
      <4>1. j - Len(s) \in 1 .. n /\ j = Len(s) + (j - Len(s))
        BY <2>2, <1>2, <1>3
      <4> QED
        BY <4>1
    <3>2. s1[j] = o[k]
      BY <3>1, <1>3
    <3>3. o[k] = w[Len(d) + Len(s) + k]
      BY <3>1, <1>2 DEF Parts
    <3>4. Len(d) + Len(s) + k = Len(d) + j
      BY <3>1, <1>2
    <3> QED
      BY <3>2, <3>3, <3>4
  <2> QED
    BY <2>1, <2>2
<1>13. ASSUME NEW j \in 1 .. Len(o1) PROVE o1[j] = w[Len(d) + Len(s1) + j]
  <2>1. n + j \in 1 .. Len(o) /\ j \in 1 .. Len(o) - n
    BY <1>2, <1>4
  <2>2. o1[j] = o[n + j]
    BY <2>1, <1>4
  <2>3. o[n + j] = w[Len(d) + Len(s) + (n + j)]
    BY <2>1 DEF Parts
  <2>4. Len(d) + Len(s) + (n + j) = Len(d) + Len(s1) + j
    BY <1>2, <1>3
  <2> QED
    BY <2>2, <2>3, <2>4
<1>14. \A j \in 1 .. Len(d) : d[j] = w[j]
  BY DEF Parts
<1>15. Len(d) + Len(s1) + Len(o1) <= Len(w)
  BY <1>11
<1> QED
  BY <1>1, <1>3, <1>4, <1>9, <1>11, <1>12, <1>13, <1>14, <1>15 DEF Parts

(* The same for the sequences that a step of write_stream leaves.          *)
LEMMA Written ==
  ASSUME NEW w \in Seq(Byte), NEW d, NEW s, NEW o, NEW c, Parts(w, d, s, o, c),
         NEW n \in 1 .. Len(o),
         NEW f, f = SubSeq(o, 1, n), NEW s1, s1 = s \o f, NEW o1, o1 = SubSeq(o, n + 1, Len(o))
  PROVE  Parts(w, d, s1, o1, c)
<1>1. s \in Seq(Byte) /\ o \in Seq(Byte)
  BY DEF Parts
<1>2. n \in 0 .. Len(o)
  BY <1>1
<1>3. Joined(s, o, n, s1)
  BY <1>1, <1>2, Moved
<1>4. Remaining(o, n, o1)
  BY <1>1, <1>2, LastPart DEF Remaining
<1> QED
  BY <1>3, <1>4, WrittenParts

(* A connection that is closed loses the end of what was under way, and    *)
(* nothing else.                                                           *)
LEMMA Cut ==
  ASSUME NEW w \in Seq(Byte), NEW d, NEW s, NEW o, NEW c, Parts(w, d, s, o, c)
  PROVE  Parts(w, d, s, <<>>, TRUE)
<1>1. d \in Seq(Byte) /\ s \in Seq(Byte) /\ o \in Seq(Byte)
  BY DEF Parts
<1>2. Len(d) \in Nat /\ Len(s) \in Nat /\ Len(o) \in Nat /\ Len(w) \in Nat
  BY <1>1
<1>3. Len(<<>>) = 0 /\ <<>> \in Seq(Byte)
  OBVIOUS
<1>4. Len(d) + Len(s) + Len(<<>>) <= Len(w)
  BY <1>2, <1>3 DEF Parts
<1>5. \A j \in 1 .. Len(<<>>) : <<>>[j] = w[Len(d) + Len(s) + j]
  BY <1>3
<1> QED
  BY <1>1, <1>3, <1>4, <1>5 DEF Parts

(* read_stream moves n bytes from the stream: nothing is lost or changes   *)
(* place.                                                                  *)
LEMMA ReceivedParts ==
  ASSUME NEW w \in Seq(Byte), NEW d, NEW s, NEW o, NEW c, Parts(w, d, s, o, c),
         NEW n \in 0 .. Len(s),
         NEW d1, Joined(d, s, n, d1), NEW s1, Remaining(s, n, s1)
  PROVE  Parts(w, d1, s1, o, c)
<1>1. d \in Seq(Byte) /\ s \in Seq(Byte) /\ o \in Seq(Byte)
  BY DEF Parts
<1>2. Len(d) \in Nat /\ Len(s) \in Nat /\ Len(o) \in Nat /\ Len(w) \in Nat
  BY <1>1
<1>3. /\ d1 \in Seq(Byte) /\ Len(d1) = Len(d) + n
      /\ \A k \in 1 .. Len(d) : d1[k] = d[k]
      /\ \A k \in 1 .. n : d1[Len(d) + k] = s[k]
  BY DEF Joined
<1>4. s1 \in Seq(Byte) /\ Len(s1) = Len(s) - n /\ \A j \in 1 .. Len(s) - n : s1[j] = s[n + j]
  BY DEF Remaining
<1>9. Len(d1) + Len(s1) = Len(d) + Len(s)
  BY <1>2, <1>3, <1>4
<1>10. ASSUME NEW j \in 1 .. Len(d1) PROVE d1[j] = w[j]
  <2>1. CASE j <= Len(d)
    BY <2>1, <1>2, <1>3 DEF Parts
  <2>2. CASE ~(j <= Len(d))
    <3>1. PICK k \in 1 .. n : j = Len(d) + k
      <4>1. j - Len(d) \in 1 .. n /\ j = Len(d) + (j - Len(d))
        BY <2>2, <1>2, <1>3
      <4> QED
        BY <4>1
    <3>2. d1[j] = s[k]
      BY <3>1, <1>3
    <3>3. s[k] = w[Len(d) + k]
      BY <1>2 DEF Parts
    <3> QED
      BY <3>1, <3>2, <3>3
  <2> QED
    BY <2>1, <2>2
<1>11. ASSUME NEW j \in 1 .. Len(s1) PROVE s1[j] = w[Len(d1) + j]
  <2>1. n + j \in 1 .. Len(s) /\ j \in 1 .. Len(s) - n
    BY <1>2, <1>4
  <2>2. s1[j] = s[n + j]
    BY <2>1, <1>4
  <2>3. s[n + j] = w[Len(d) + (n + j)]
    BY <2>1 DEF Parts
  <2>4. Len(d) + (n + j) = Len(d1) + j
    BY <1>2, <1>3
  <2> QED
    BY <2>2, <2>3, <2>4
<1>12. \A j \in 1 .. Len(o) : o[j] = w[Len(d1) + Len(s1) + j]
  BY <1>9 DEF Parts
<1>13. /\ Len(d1) + Len(s1) + Len(o) <= Len(w)
       /\ ~c => Len(d1) + Len(s1) + Len(o) = Len(w)
       /\ c => o = <<>>
  BY <1>9 DEF Parts
<1> QED
  BY <1>1, <1>3, <1>4, <1>10, <1>11, <1>12, <1>13 DEF Parts

(* The length that comes first is complete.                                *)
LEMMA Behind ==
  ASSUME NEW w \in Seq(Byte), NEW h \in Seq(Byte), NEW v, v = h \o w,
         NEW d, NEW s, NEW o, NEW c, Parts(v, d, s, o, c), Len(d) = Len(h)
  PROVE  d = h /\ Parts(w, <<>>, s, o, c)
<1>1. /\ v \in Seq(Byte) /\ Len(v) = Len(h) + Len(w)
      /\ \A k \in 1 .. Len(h) : v[k] = h[k]
      /\ \A k \in 1 .. Len(w) : v[Len(h) + k] = w[k]
  BY Concat
<1>2. d \in Seq(Byte) /\ s \in Seq(Byte) /\ o \in Seq(Byte)
  BY DEF Parts
<1>3. Len(d) \in Nat /\ Len(s) \in Nat /\ Len(o) \in Nat /\ Len(w) \in Nat /\ Len(h) \in Nat
  BY <1>2
<1>4. d = h
  <2>1. \A j \in 1 .. Len(d) : d[j] = h[j]
    BY <1>1 DEF Parts
  <2> QED
    BY <2>1, <1>2, SeqEqual
<1>5. Len(<<>>) = 0 /\ <<>> \in Seq(Byte)
  OBVIOUS
<1>6. Len(<<>>) + Len(s) + Len(o) = Len(s) + Len(o)
  BY <1>3, <1>5
<1>7. /\ Len(s) + Len(o) <= Len(w)
      /\ ~c => Len(s) + Len(o) = Len(w)
      /\ c => o = <<>>
  BY <1>1, <1>3 DEF Parts
<1>8. ASSUME NEW j \in 1 .. Len(s) PROVE s[j] = w[Len(<<>>) + j]
  <2>1. s[j] = v[Len(h) + j] /\ j \in 1 .. Len(w) /\ Len(<<>>) + j = j
    BY <1>3, <1>5, <1>7, SMTT(30) DEF Parts
  <2> QED
    BY <2>1, <1>1
<1>9. ASSUME NEW j \in 1 .. Len(o) PROVE o[j] = w[Len(<<>>) + Len(s) + j]
  <2>1. o[j] = v[Len(h) + Len(s) + j]
    BY DEF Parts
  <2>2. /\ Len(h) + Len(s) + j = Len(h) + (Len(s) + j) /\ Len(s) + j \in 1 .. Len(w)
        /\ Len(<<>>) + Len(s) + j = Len(s) + j
    BY <1>3, <1>5, <1>7
  <2>3. v[Len(h) + (Len(s) + j)] = w[Len(s) + j]
    BY <2>2, <1>1
  <2> QED
    BY <2>1, <2>2, <2>3
<1>10. \A j \in 1 .. Len(<<>>) : <<>>[j] = w[j]
  BY <1>5
<1> QED
  BY <1>2, <1>4, <1>5, <1>6, <1>7, <1>8, <1>9, <1>10 DEF Parts

(* A reader that has as many bytes as were sent has the bytes that were    *)
(* sent.                                                                   *)
LEMMA Complete ==
  ASSUME NEW w \in Seq(Byte), NEW d, NEW s, NEW o, NEW c, Parts(w, d, s, o, c), Len(d) = Len(w)
  PROVE  d = w /\ s = <<>> /\ o = <<>>
<1>1. d \in Seq(Byte) /\ s \in Seq(Byte) /\ o \in Seq(Byte)
  BY DEF Parts
<1>2. Len(d) \in Nat /\ Len(s) \in Nat /\ Len(o) \in Nat /\ Len(w) \in Nat
  BY <1>1
<1>3. \A j \in 1 .. Len(d) : d[j] = w[j]
  BY DEF Parts
<1>4. Len(s) = 0 /\ Len(o) = 0
  BY <1>2 DEF Parts
<1>5. d = w
  BY <1>1, <1>3, SeqEqual
<1> QED
  BY <1>1, <1>4, <1>5, EmptySeq

(* The message with its header is a sequence of bytes that fits the        *)
(* buffer.                                                                 *)
LEMMA WholeType ==
  ASSUME NEW m \in Signals, m # "sec_cmd", NEW b, NEW at, NEW off,
         Layout(m, Len(Appended(m)), b, at, off)
  PROVE  /\ b \in Seq(Byte) /\ Hd(m) \in Seq(Byte) /\ Whole(m, b) \in Seq(Byte)
         /\ Len(Whole(m, b)) = Len(Hd(m)) + Len(b)
         /\ Len(Whole(m, b)) \in 4 .. 263
<1>1. b \in Seq(Byte) /\ Hd(m) \in Seq(Byte)
  BY Signal DEF Layout, Laid
<1>2. Whole(m, b) \in Seq(Byte) /\ Len(Whole(m, b)) = Len(Hd(m)) + Len(b)
  BY <1>1, ConcatProperties DEF Whole
<1>3. Len(Hd(m)) \in {4, 12, 16}
  BY Signal
<1>4. Len(Appended(m)) \in Nat /\ Len(Appended(m)) <= 13 /\ Len(b) \in Nat
  BY <1>1, Signal DEF Good
<1>5. Len(b) <= 19 * Len(Appended(m))
  BY DEF Layout
<1>6. Len(Whole(m, b)) \in 4 .. 263
  <2>1. PICK x, y, z, a : /\ x = Len(Hd(m)) /\ y = Len(b) /\ z = Len(Whole(m, b))
                          /\ a = Len(Appended(m))
    OBVIOUS
  <2>2. x \in {4, 12, 16} /\ y \in Nat /\ z = x + y /\ a \in Nat /\ a <= 13 /\ y <= 19 * a
    BY <2>1, <1>2, <1>3, <1>4, <1>5
  <2>3. z \in 4 .. 263
    BY <2>2
  <2> QED
    BY <2>1, <2>3
<1> QED
  BY <1>1, <1>2, <1>6

(* The program goes on behind the items that are appended.                 *)
LEMMA NotDone ==
  ASSUME NEW m, m = msg, m \in Signals, m # "sec_cmd", pc \in Nat,
         pc <= Opened(m) \/ pc <= Opened(m) + Len(Extracted(m))
  PROVE  ~Done
<1>1. m # "none"
  BY DEF Signals, RanAppends, MmeAppends, HssAppends, SgwAppends, PgwAppends
<1>2. /\ Len(Program[m]) = Opened(m) + Len(Extracted(m)) /\ Len(Extracted(m)) \in Nat
      /\ Len(Appended(m)) \in Nat /\ Calls(m) \in 0 .. 1
  BY SignalProgram
<1>3. Opened(m) \in Nat
  BY <1>2 DEF Opened
<1>4. ~(pc > Len(Program[m]))
  BY <1>2, <1>3
<1> QED
  BY <1>1, <1>4 DEF Done

(* The message is handed to the stream with its length in front (snd), or  *)
(* to the socket.                                                          *)
LEMMA PrependedStep ==
  ASSUME NEW m, m = msg, m \in Signals, m # "sec_cmd", Prepended(m), WireNext
  PROVE  msg' = m /\ (InTransit(m) \/ Arrived(m))'
<1> DEFINE na == Len(Appended(m))
<1>1. /\ na \in Nat /\ Len(Extracted(m)) \in Nat /\ Calls(m) \in 0 .. 1
      /\ Program[m][na + 3] = <<TransportOf(m)>>
  BY SignalProgram
<1>2. pc = na + 3 /\ Empty /\ Fresh /\ ~closed
  BY DEF Prepended
<1>3. PICK b, at, off : Layout(m, na, b, at, off) /\ pkt = Pkt(Whole(m, b), Len(Whole(m, b)))
  BY DEF Prepended
<1> DEFINE w == Whole(m, b)
<1>4. w \in Seq(Byte) /\ Len(w) \in 4 .. 263
  BY <1>3, WholeType
<1>5. ~Done
  BY <1>1, <1>2, NotDone DEF Opened
<1> HIDE DEF na, w
<1>6. Program[msg][pc][1] = TransportOf(m)
  BY <1>1, <1>2
<1>7. CASE TransportOf(m) = "udp"
  <2>1. Datagram
    BY <1>2, <1>5, <1>6, <1>7, ByName
  <2>2. /\ pkt' = received(Upto(pkt, pkt.len)) /\ pc' = pc + 1
        /\ UNCHANGED <<msg, link, sent, hdr, got>>
    BY <2>1 DEF Datagram, Turn
  <2>3. Upto(pkt, pkt.len) = w
    <3>1. pkt = Pkt(w, Len(w)) /\ pkt.len = Len(w)
      BY <1>3 DEF w, Pkt
    <3>2. w \in Seq(Byte)
      BY <1>4
    <3>3. Upto(Pkt(w, Len(w)), Len(w)) = w
      BY <3>2, UptoAll
    <3> QED
      BY <3>1, <3>3
  <2>4. received(w) = Pkt(w, 0)
    <3>1. Len(w) <= BUF_SIZE
      <4>1. \A x \in 4 .. 263 : x <= BUF_SIZE
        BY DEF BUF_SIZE
      <4> QED
        BY <4>1, <1>4
    <3>2. w \in Seq(Byte)
      BY <1>4
    <3> QED
      BY <3>1, <3>2, Receiving
  <2>5. Empty' /\ Fresh' /\ pc' = na + 4
    BY <1>1, <1>2, <2>2 DEF Empty, Fresh, link
  <2>6. Layout(m, na, b, at, off)'
    BY <1>3, <2>2 DEF Layout, na
  <2>7. pkt' = Pkt(Whole(m, b), 0)
    BY <2>2, <2>3, <2>4 DEF w
  <2> QED
    BY <2>2, <2>5, <2>6, <2>7 DEF Arrived, na
<1>8. CASE TransportOf(m) = "sctp"
  <2>1. SctpSnd
    BY <1>2, <1>5, <1>6, <1>8, ByName
  <2>2. pkt.len = Len(w) /\ pkt = Pkt(w, Len(w))
    BY <1>3 DEF w, Pkt
  <2> DEFINE c == Bytes(LenOf(Len(w)), 4)
             v == c \o w
  <2>3. c \in Seq(Byte) /\ Len(c) = 4
    <3>1. LenOf(Len(w)) \in Int /\ 4 \in Nat
      <4>1. \A x \in Nat : LenOf(x) \in Int
        BY DEF LenOf
      <4>2. Len(w) \in Nat
        BY <1>4
      <4> QED
        BY <4>1, <4>2
    <3> QED
      BY <3>1, BytesType
  <2>4. out' = v /\ pkt' = Pkt(<<>>, 0) /\ rem' = 4 /\ reading' = "len"
        /\ UNCHANGED <<msg, pc, sent, hdr, got, stream, closed>>
    <3>1. prepend_item(Pkt(w, Len(w)), c) = Pkt(v, Len(w) + Len(c))
      <4>1. c \in Seq(Byte) /\ w \in Seq(Byte) /\ Len(w) \in Nat
        <5>1. w \in Seq(Byte)
          BY <1>4
        <5> QED
          BY <2>3, <5>1
      <4> HIDE DEF c
      <4> QED
        BY <4>1, Prepending
    <3>2. out' = prepend_item(pkt, Bytes(LenOf(pkt.len), 4)).data
      BY <2>1 DEF SctpSnd
    <3>3. out' = v
      <4>1. Bytes(LenOf(pkt.len), 4) = c
        BY <2>2
      <4>2. prepend_item(pkt, Bytes(LenOf(pkt.len), 4)) = Pkt(v, Len(w) + Len(c))
        BY <2>2, <3>1, <4>1
      <4>3. Pkt(v, Len(w) + Len(c)).data = v
        BY DEF Pkt
      <4> QED
        BY <3>2, <4>2, <4>3
    <3> QED
      BY <2>1, <3>3 DEF SctpSnd, clear_pkt, Pkt
  <2>5. v \in Seq(Byte)
    <3>1. c \in Seq(Byte) /\ w \in Seq(Byte)
      BY <1>4, <2>3
    <3> HIDE DEF c
    <3> QED
      BY <3>1, ConcatProperties
  <2> HIDE DEF v
  <2>6. Parts(v, <<>>, <<>>, v, closed)
    <3>1. <<>> \in Seq(Byte) /\ Len(<<>>) = 0
      OBVIOUS
    <3>2. Len(<<>>) + Len(<<>>) + Len(v) = Len(v)
      BY <2>5, <3>1
    <3>3. \A j \in 1 .. Len(v) : v[j] = v[Len(<<>>) + Len(<<>>) + j]
      BY <2>5, <3>1
    <3>4. Len(<<>>) + Len(<<>>) + Len(v) <= Len(v)
      BY <2>5, <3>2
    <3> QED
      BY <1>2, <2>5, <3>1, <3>2, <3>3, <3>4 DEF Parts
  <2>7. stream' = <<>> /\ pkt'.data = <<>> /\ pkt' = [data |-> pkt'.data, data_ptr |-> 0, len |-> 0]
    BY <1>2, <2>4 DEF Empty, Pkt
  <2>8. rem' = 4 - Len(pkt'.data) /\ rem' > 0
    BY <2>4, <2>7
  <2>9. Parts(v, pkt.data, stream, out, closed)'
    BY <2>4, <2>6, <2>7
  <2>10. Reading(v, 4)'
    BY <2>7, <2>8, <2>9 DEF Reading
  <2>11. Moving(w)'
    BY <2>4, <2>10 DEF Moving, v
  <2>12. Layout(m, na, b, at, off)'
    BY <1>3, <2>4 DEF Layout, na
  <2>13. pc' = na + 3 /\ Fresh'
    BY <1>2, <2>4 DEF Fresh
  <2> QED
    BY <2>4, <2>11, <2>12, <2>13 DEF InTransit, na, w
<1> QED
  BY <1>7, <1>8 DEF TransportOf

(* The stream.                                                             *)
LEMMA StreamOp ==
  ASSUME reading # "no", ~Done, WireNext
  PROVE  (\E n \in 1 .. Len(out) : WriteStream(n)) \/ Break \/ ReadStream \/ ReadEnd
<1>1. \A name : ~Op(name)
  BY DEF Op
<1>2. ~(\E m \in Messages : Begin(m))
  BY DEF Begin
<1> QED
  BY <1>1, <1>2 DEF WireNext, ClearPkt, AppendItem, PrependHdr, SctpSnd, Datagram,
       ExtractHdr, Call, ExtractItem, Truncate, TunRcv, TunSnd

(* A step of write_stream.                                                 *)
LEMMA WriterMoves ==
  ASSUME NEW v \in Seq(Byte), NEW n, Reading(v, n),
         (\E k \in 1 .. Len(out) : WriteStream(k)) \/ Break
  PROVE  Reading(v, n)' /\ UNCHANGED <<msg, pc, sent, hdr, got, reading>>
<1>1. Parts(v, pkt.data, stream, out, closed)
  BY DEF Reading
<1>2. CASE \E k \in 1 .. Len(out) : WriteStream(k)
  <2>1. PICK k \in 1 .. Len(out) : WriteStream(k)
    BY <1>2
  <2>2. /\ stream' = stream \o SubSeq(out, 1, k) /\ out' = SubSeq(out, k + 1, Len(out))
        /\ UNCHANGED <<msg, pc, pkt, sent, hdr, got, rem, reading, closed>>
    BY <2>1 DEF WriteStream
  <2>3. Parts(v, pkt.data, stream', out', closed)
    BY <1>1, <2>2, Written
  <2> QED
    BY <2>2, <2>3 DEF Reading
<1>3. CASE Break
  <2>1. /\ out' = <<>> /\ closed' = TRUE
        /\ UNCHANGED <<msg, pc, pkt, sent, hdr, got, stream, rem, reading>>
    BY <1>3 DEF Break
  <2>2. Parts(v, pkt.data, stream, <<>>, TRUE)
    BY <1>1, Cut
  <2> QED
    BY <2>1, <2>2 DEF Reading
<1> QED
  BY <1>2, <1>3

(* A step of read_stream.                                                  *)
LEMMA ReaderMoves ==
  ASSUME NEW v \in Seq(Byte), NEW n \in Nat, Reading(v, n), ReadStream
  PROVE  /\ Available \in 0 .. rem /\ rem \in Nat
         /\ Parts(v, Buffer, stream', out', closed') /\ Len(Buffer) = n - (rem - Available)
<1>1. Parts(v, pkt.data, stream, out, closed) /\ rem = n - Len(pkt.data) /\ rem > 0
  BY DEF Reading
<1>2. pkt.data \in Seq(Byte) /\ stream \in Seq(Byte)
  BY <1>1 DEF Parts
<1>3. Len(pkt.data) \in Nat /\ Len(stream) \in Nat
  BY <1>2
<1>4. rem \in Nat /\ Available \in 0 .. Len(stream) /\ Available \in 0 .. rem
  BY <1>1, <1>3 DEF Available
<1>5. stream' = SubSeq(stream, Available + 1, Len(stream)) /\ UNCHANGED <<out, closed>>
  BY DEF ReadStream
<1>6. Parts(v, Buffer, stream', out, closed) /\ Len(Buffer) = Len(pkt.data) + Available
  <2>1. PICK a, f, d, d1, s, s1 :
          /\ a = Available /\ f = SubSeq(stream, 1, a) /\ d = pkt.data /\ d1 = Buffer
          /\ s = stream /\ s1 = stream'
    OBVIOUS
  <2>2. f = SubSeq(s, 1, a) /\ d1 = d \o f /\ s1 = SubSeq(s, a + 1, Len(s))
    BY <1>5, <2>1 DEF Buffer
  <2>3. a \in 0 .. Len(s) /\ Parts(v, d, s, out, closed)
    BY <1>1, <1>4, <2>1
  <2>4. Parts(v, d1, s1, out, closed) /\ Len(d1) = Len(d) + a
    <3>1. d \in Seq(Byte) /\ s \in Seq(Byte)
      BY <1>2, <2>1
    <3>2. Joined(d, s, a, d1)
      BY <2>2, <2>3, <3>1, Moved
    <3>3. Remaining(s, a, s1)
      BY <2>2, <2>3, <3>1, LastPart DEF Remaining
    <3>4. Parts(v, d1, s1, out, closed)
      BY <2>3, <3>2, <3>3, ReceivedParts
    <3> QED
      BY <3>2, <3>4 DEF Joined
  <2> QED
    BY <2>1, <2>4
<1>7. Len(Buffer) = n - (rem - Available)
  <2>1. PICK x, y, a, e : x = Len(pkt.data) /\ y = Len(Buffer) /\ a = Available /\ e = rem
    OBVIOUS
  <2>2. x \in Nat /\ a \in Nat /\ e \in Nat /\ y = x + a /\ e = n - x
    BY <2>1, <1>1, <1>3, <1>4, <1>6
  <2>3. y = n - (e - a)
    BY <2>2
  <2> QED
    BY <2>1, <2>3
<1> QED
  BY <1>4, <1>5, <1>6, <1>7

(* The four bytes at the position p are the integer k's.                   *)
LEMMA IntRead ==
  ASSUME NEW n \in Nat, NEW h, h = Bytes(LenOf(n), 4)
  PROVE  IntAt(received(h)) = n
<1>1. h \in Seq(Byte) /\ Len(h) = 4 /\ h[1] = <<LenOf(n), 1>>
  <2>1. PICK k : k = LenOf(n)
    OBVIOUS
  <2>2. k \in Int /\ 4 \in Nat
    BY <2>1 DEF LenOf
  <2>3. /\ Bytes(k, 4) \in Seq(Byte) /\ Len(Bytes(k, 4)) = 4
        /\ \A j \in 1 .. 4 : Bytes(k, 4)[j] = <<k, j>>
    BY <2>2, BytesType
  <2>4. 1 \in 1 .. 4 /\ h = Bytes(k, 4)
    BY <2>1
  <2> QED
    BY <2>1, <2>3, <2>4
<1>2. received(h) = Pkt(h, 0)
  <2>1. Len(h) <= BUF_SIZE /\ h \in Seq(Byte)
    BY <1>1 DEF BUF_SIZE
  <2> QED
    BY <2>1, Receiving
<1> DEFINE p == Pkt(h, 0)
<1>3. Peek(p, 4) = h
  <2>1. \A j \in 1 .. 4 : h[j] = h[0 + j]
    OBVIOUS
  <2>2. 0 + 4 <= Len(h) /\ 0 \in Nat /\ 4 \in Nat
    BY <1>1, SMTT(30)
  <2> QED
    BY <1>1, <2>1, <2>2, PeekAt
<1>4. p.data_ptr + 1 = 1 /\ p.data = h
  BY DEF Pkt
<1> HIDE DEF p
<1>5. At(p, p.data_ptr + 1)[1] = LenOf(n)
  BY <1>1, <1>4 DEF At
<1>6. LenOf(n) <= LenOf(0) /\ -2 - LenOf(n) = n
  BY DEF LenOf
<1>7. IntAt(p) = n
  BY <1>3, <1>5, <1>6 DEF IntAt
<1> QED
  BY <1>2, <1>7 DEF p

(* A reader's packet while it reads: the bytes change, the rest is 0.      *)
LEMMA DataSet ==
  ASSUME NEW p, NEW d, p = [data |-> d, data_ptr |-> 0, len |-> 0],
         NEW q, NEW e, q = [p EXCEPT !.data = e]
  PROVE  q.data = e /\ q = [data |-> e, data_ptr |-> 0, len |-> 0]
OBVIOUS

LEMMA LenReset ==
  ASSUME NEW p, NEW d, p = [data |-> d, data_ptr |-> 0, len |-> 0],
         NEW q, q = [p EXCEPT !.len = 0]
  PROVE  q.data = d /\ q = [data |-> d, data_ptr |-> 0, len |-> 0]
OBVIOUS

(* What is there is a part of what is left to read, or all of it.          *)
LEMMA LeftToRead ==
  ASSUME NEW n \in Nat, NEW r \in Nat, NEW a \in 0 .. r, NEW l, l = n - (r - a)
  PROVE  /\ a < r => r - a > 0 /\ r - a = n - l
         /\ ~(a < r) => a = r /\ l = n
OBVIOUS

LEMMA LessIsOther ==
  ASSUME NEW n \in Nat, NEW k \in 0 .. n, k < n
  PROVE  k # n
OBVIOUS

(* A step of read_sctp_pkt: the length first, then that many bytes.        *)
LEMMA ReadStep ==
  ASSUME NEW w \in Seq(Byte), Len(w) \in 4 .. 263, Moving(w), ReadStream
  PROVE  /\ UNCHANGED <<msg, sent, hdr, got, closed>>
         /\ \/ Moving(w)' /\ pc' = pc
            \/ Empty' /\ pkt' = Pkt(w, 0) /\ pc' = pc + 1
<1> DEFINE h == Bytes(LenOf(Len(w)), 4)
           v == h \o w
<1>1. Len(w) \in Nat /\ Len(w) > 0
  <2>1. \A x \in 4 .. 263 : x \in Nat /\ x > 0
    OBVIOUS
  <2> QED
    BY <2>1
<1>2. h \in Seq(Byte) /\ Len(h) = 4
  <2>1. LenOf(Len(w)) \in Int /\ 4 \in Nat
    <3>1. \A x \in Nat : LenOf(x) \in Int
      BY DEF LenOf
    <3> QED
      BY <3>1, <1>1
  <2> QED
    BY <2>1, BytesType
<1>3. IntAt(received(h)) = Len(w)
  BY <1>1, IntRead
<1> HIDE DEF h
<1>4. v \in Seq(Byte)
  <2>1. h \in Seq(Byte)
    BY <1>2
  <2> QED
    BY <2>1, ConcatProperties
<1>5. v = h \o w
  OBVIOUS
<1> HIDE DEF v
<1>6. UNCHANGED <<msg, sent, hdr, got, out, closed>>
  BY DEF ReadStream
<1>7. CASE reading = "len"
  <2>1. Reading(v, 4)
    BY <1>7 DEF Moving, v, h
  <2>2. /\ Available \in 0 .. rem /\ rem \in Nat
        /\ Parts(v, Buffer, stream', out', closed') /\ Len(Buffer) = 4 - (rem - Available)
    <3>1. 4 \in Nat
      OBVIOUS
    <3> QED
      BY <2>1, <1>4, <3>1, ReaderMoves
  <2>5. /\ Available < rem => rem - Available > 0 /\ rem - Available = 4 - Len(Buffer)
        /\ ~(Available < rem) => Available = rem /\ Len(Buffer) = 4
    <3>1. PICK r, a, l : r = rem /\ a = Available /\ l = Len(Buffer)
      OBVIOUS
    <3>2. r \in Nat /\ a \in 0 .. r /\ l = 4 - (r - a) /\ 4 \in Nat
      BY <2>2, <3>1
    <3>3. /\ a < r => r - a > 0 /\ r - a = 4 - l
          /\ ~(a < r) => a = r /\ l = 4
      BY <3>2, LeftToRead
    <3> QED
      BY <3>1, <3>3
  <2>3. CASE Available < rem
    <3>1. rem' = rem - Available /\ pkt' = [pkt EXCEPT !.data = Buffer] /\ UNCHANGED <<pc, reading>>
      <4>1. Available # rem
        BY <2>3, <2>2, LessIsOther
      <4> QED
        BY <4>1 DEF ReadStream
    <3>2. pkt'.data = Buffer /\ pkt' = [data |-> Buffer, data_ptr |-> 0, len |-> 0]
      <4>1. pkt = [data |-> pkt.data, data_ptr |-> 0, len |-> 0]
        BY <2>1 DEF Reading
      <4>2. PICK p, d, q, e : p = pkt /\ d = pkt.data /\ q = pkt' /\ e = Buffer
        OBVIOUS
      <4>3. p = [data |-> d, data_ptr |-> 0, len |-> 0] /\ q = [p EXCEPT !.data = e]
        BY <4>1, <4>2, <3>1
      <4>4. q.data = e /\ q = [data |-> e, data_ptr |-> 0, len |-> 0]
        BY <4>3, DataSet
      <4> QED
        BY <4>2, <4>4
    <3>3. rem' > 0 /\ rem' = 4 - Len(Buffer)
      BY <2>5, <2>3, <3>1
    <3>4. Reading(v, 4)'
      BY <2>2, <3>2, <3>3 DEF Reading
    <3>5. Moving(w)'
      BY <1>7, <3>1, <3>4 DEF Moving, v, h
    <3> QED
      BY <1>6, <3>1, <3>5
  <2>4. CASE ~(Available < rem)
    <3>1. Available = rem /\ Len(Buffer) = Len(h)
      BY <2>5, <2>4, <1>2
    <3>2. pkt' = clear_pkt(pkt) /\ rem' = IntAt(received(Buffer)) /\ reading' = "body" /\ pc' = pc
      BY <1>7, <2>4 DEF ReadStream
    <3>3. Buffer = h /\ Parts(w, <<>>, stream', out', closed')
      <4>1. h \in Seq(Byte)
        BY <1>2
      <4> QED
        <5>1. PICK d, s, o, c : d = Buffer /\ s = stream' /\ o = out' /\ c = closed'
          OBVIOUS
        <5>2. Parts(v, d, s, o, c) /\ Len(d) = Len(h) /\ h \in Seq(Byte) /\ v = h \o w
          BY <1>5, <2>2, <3>1, <4>1, <5>1
        <5>3. d = h /\ Parts(w, <<>>, s, o, c)
          BY <5>2, Behind
        <5> QED
          BY <5>1, <5>3
    <3>4. pkt' = [data |-> <<>>, data_ptr |-> 0, len |-> 0] /\ pkt'.data = <<>> /\ rem' = Len(w)
      BY <1>3, <3>2, <3>3 DEF clear_pkt
    <3>5. rem' = Len(w) - Len(pkt'.data) /\ rem' > 0
      <4>1. Len(pkt'.data) = 0
        BY <3>4
      <4> QED
        <5>1. \A x \in Nat : x = x - 0
          OBVIOUS
        <5>2. Len(w) = Len(w) - 0
          BY <5>1, <1>1
        <5> QED
          BY <4>1, <5>2, <3>4, <1>1
    <3>6. Reading(w, Len(w))'
      BY <3>3, <3>4, <3>5 DEF Reading
    <3>7. Moving(w)'
      BY <3>2, <3>6 DEF Moving
    <3> QED
      BY <1>6, <3>2, <3>7
  <2> QED
    BY <2>3, <2>4
<1>8. CASE reading = "body"
  <2>1. Reading(w, Len(w))
    BY <1>8 DEF Moving
  <2>2. /\ Available \in 0 .. rem /\ rem \in Nat
        /\ Parts(w, Buffer, stream', out', closed') /\ Len(Buffer) = Len(w) - (rem - Available)
    BY <2>1, <1>1, ReaderMoves
  <2>5. /\ Available < rem => rem - Available > 0 /\ rem - Available = Len(w) - Len(Buffer)
        /\ ~(Available < rem) => Available = rem /\ Len(Buffer) = Len(w)
    <3>1. PICK r, a, l : r = rem /\ a = Available /\ l = Len(Buffer)
      OBVIOUS
    <3>2. r \in Nat /\ a \in 0 .. r /\ l = Len(w) - (r - a) /\ Len(w) \in Nat
      BY <2>2, <3>1, <1>1
    <3>3. /\ a < r => r - a > 0 /\ r - a = Len(w) - l
          /\ ~(a < r) => a = r /\ l = Len(w)
      BY <3>2, LeftToRead
    <3> QED
      BY <3>1, <3>3
  <2>3. CASE Available < rem
    <3>1. rem' = rem - Available /\ pkt' = [pkt EXCEPT !.data = Buffer] /\ UNCHANGED <<pc, reading>>
      <4>1. Available # rem
        BY <2>3, <2>2, LessIsOther
      <4> QED
        BY <4>1 DEF ReadStream
    <3>2. pkt'.data = Buffer /\ pkt' = [data |-> Buffer, data_ptr |-> 0, len |-> 0]
      <4>1. pkt = [data |-> pkt.data, data_ptr |-> 0, len |-> 0]
        BY <2>1 DEF Reading
      <4>2. PICK p, d, q, e : p = pkt /\ d = pkt.data /\ q = pkt' /\ e = Buffer
        OBVIOUS
      <4>3. p = [data |-> d, data_ptr |-> 0, len |-> 0] /\ q = [p EXCEPT !.data = e]
        BY <4>1, <4>2, <3>1
      <4>4. q.data = e /\ q = [data |-> e, data_ptr |-> 0, len |-> 0]
        BY <4>3, DataSet
      <4> QED
        BY <4>2, <4>4
    <3>3. rem' > 0 /\ rem' = Len(w) - Len(Buffer)
      BY <2>5, <2>3, <3>1
    <3>4. Reading(w, Len(w))'
      BY <2>2, <3>2, <3>3 DEF Reading
    <3>5. Moving(w)'
      BY <1>8, <3>1, <3>4 DEF Moving
    <3> QED
      BY <1>6, <3>1, <3>5
  <2>4. CASE ~(Available < rem)
    <3>1. Len(Buffer) = Len(w)
      BY <2>5, <2>4
    <3>2. pkt' = received(Buffer) /\ reading' = "no" /\ pc' = pc + 1
      BY <1>8, <2>4 DEF ReadStream
    <3>3. Buffer = w /\ stream' = <<>> /\ out' = <<>>
      BY <2>2, <3>1, Complete
    <3>4. received(w) = Pkt(w, 0)
      <4>1. \A x \in 4 .. 263 : x <= BUF_SIZE
        BY DEF BUF_SIZE
      <4>2. Len(w) <= BUF_SIZE
        BY <4>1
      <4> QED
        BY <4>2, Receiving
    <3>5. Empty'
      BY <3>2, <3>3 DEF Empty
    <3> QED
      BY <1>6, <3>2, <3>3, <3>4, <3>5
  <2> QED
    BY <2>3, <2>4
<1> QED
  BY <1>7, <1>8 DEF Moving

(* A step after which the stream has nothing more to give: what is there   *)
(* may be too short.                                                       *)
LEMMA EndStep ==
  ASSUME NEW w \in Seq(Byte), Len(w) \in 4 .. 263, Moving(w), ReadEnd
  PROVE  /\ UNCHANGED <<msg, sent, hdr, got, closed>> /\ closed /\ Empty'
         /\ pkt' = [data |-> pkt'.data, data_ptr |-> 0, len |-> 0]
         /\ pkt'.data \in Seq(Byte) /\ Len(pkt'.data) <= BUF_SIZE
         /\ pc' = IF msg \in Unchecked THEN pc + 1 ELSE Len(Program[msg]) + 1
<1>1. /\ stream = <<>> /\ closed /\ pkt' = [pkt EXCEPT !.len = 0] /\ reading' = "no"
      /\ pc' = IF msg \in Unchecked THEN pc + 1 ELSE Len(Program[msg]) + 1
      /\ UNCHANGED <<msg, sent, hdr, got, out, stream, closed>>
  BY DEF ReadEnd
<1>2. PICK v, n : Reading(v, n) /\ n \in 0 .. 263
  <2>1. CASE reading = "len"
    BY <2>1, SMTT(30) DEF Moving
  <2>2. CASE reading = "body"
    <3>1. \A x \in 4 .. 263 : x \in 0 .. 263
      BY SMTT(30)
    <3>2. Reading(w, Len(w)) /\ Len(w) \in 0 .. 263
      BY <2>2, <3>1 DEF Moving
    <3> QED
      BY <3>2
  <2> QED
    BY <2>1, <2>2 DEF Moving
<1>3. Parts(v, pkt.data, stream, out, closed) /\ rem = n - Len(pkt.data) /\ rem > 0
      /\ pkt = [data |-> pkt.data, data_ptr |-> 0, len |-> 0]
  BY <1>2 DEF Reading
<1>4. out = <<>> /\ pkt.data \in Seq(Byte)
  BY <1>1, <1>3 DEF Parts
<1>5. pkt' = [data |-> pkt.data, data_ptr |-> 0, len |-> 0] /\ pkt'.data = pkt.data
  BY <1>1, <1>3, LenReset
<1>6. Len(pkt.data) <= BUF_SIZE
  <2>1. PICK x : x = Len(pkt.data)
    OBVIOUS
  <2>2. x \in Nat /\ n - x > 0
    <3>1. Len(pkt.data) \in Nat
      BY <1>4
    <3>2. n - Len(pkt.data) > 0
      BY <1>3
    <3> QED
      BY <2>1, <3>1, <3>2
  <2>3. x <= BUF_SIZE
    BY <2>2, <1>2, SMTT(30) DEF BUF_SIZE
  <2> QED
    BY <2>1, <2>3
<1>7. Empty'
  BY <1>1, <1>4 DEF Empty
<1> QED
  BY <1>1, <1>4, <1>5, <1>6, <1>7

(* Every step while the message is on its way.                             *)
LEMMA TransitStep ==
  ASSUME NEW m, m = msg, m \in Signals, m # "sec_cmd", InTransit(m), WireNext
  PROVE  msg' = m /\ (InTransit(m) \/ Arrived(m) \/ Half(m) \/ Ended(m))'
<1> DEFINE na == Len(Appended(m))
<1>1. /\ na \in Nat /\ Len(Extracted(m)) \in Nat /\ Calls(m) \in 0 .. 1
      /\ Len(Program[m]) = Opened(m) + Len(Extracted(m))
  BY SignalProgram
<1>2. pc = na + 3 /\ Fresh
  BY DEF InTransit
<1>3. PICK b, at, off : Layout(m, na, b, at, off) /\ Moving(Whole(m, b))
  BY DEF InTransit
<1> DEFINE w == Whole(m, b)
<1>4. w \in Seq(Byte) /\ Len(w) \in 4 .. 263
  BY <1>3, WholeType
<1>5. ~Done
  BY <1>1, <1>2, NotDone DEF Opened
<1>6. reading \in {"len", "body"} /\ Moving(w)
  BY <1>3 DEF Moving
<1> HIDE DEF na, w
<1>7. (\E n \in 1 .. Len(out) : WriteStream(n)) \/ Break \/ ReadStream \/ ReadEnd
  BY <1>5, <1>6, StreamOp
<1>8. ASSUME Moving(w)', UNCHANGED <<msg, sent, hdr, got>>, pc' = pc PROVE msg' = m /\ InTransit(m)'
  <2>1. Layout(m, na, b, at, off)'
    BY <1>3, <1>8 DEF Layout, na
  <2>2. Fresh' /\ pc' = na + 3
    BY <1>2, <1>8 DEF Fresh
  <2> QED
    BY <1>8, <2>1, <2>2 DEF InTransit, na, w
<1>9. CASE (\E n \in 1 .. Len(out) : WriteStream(n)) \/ Break
  <2>1. CASE reading = "len"
    <3> DEFINE v == Bytes(LenOf(Len(w)), 4) \o w
    <3>1. Reading(v, 4)
      BY <1>6, <2>1 DEF Moving
    <3>2. v \in Seq(Byte)
      <4> DEFINE h == Bytes(LenOf(Len(w)), 4)
      <4>1. LenOf(Len(w)) \in Int /\ 4 \in Nat
        BY <1>4 DEF LenOf
      <4>2. h \in Seq(Byte) /\ w \in Seq(Byte)
        BY <1>4, <4>1, BytesType
      <4> HIDE DEF h
      <4>3. h \o w \in Seq(Byte)
        BY <4>2, ConcatProperties
      <4> QED
        BY <4>3 DEF h
    <3> HIDE DEF v
    <3>3. Reading(v, 4)' /\ UNCHANGED <<msg, pc, sent, hdr, got, reading>>
      BY <1>9, <3>1, <3>2, WriterMoves
    <3>4. Moving(w)'
      BY <2>1, <3>3 DEF Moving, v
    <3> QED
      BY <1>8, <3>3, <3>4
  <2>2. CASE reading = "body"
    <3>1. Reading(w, Len(w))
      BY <1>6, <2>2 DEF Moving
    <3>2. w \in Seq(Byte)
      BY <1>4
    <3>3. Reading(w, Len(w))' /\ UNCHANGED <<msg, pc, sent, hdr, got, reading>>
      BY <1>9, <3>1, <3>2, WriterMoves
    <3>4. Moving(w)'
      BY <2>2, <3>3 DEF Moving
    <3> QED
      BY <1>8, <3>3, <3>4
  <2> QED
    BY <1>6, <2>1, <2>2
<1>10. CASE ReadStream
  <2>1. /\ UNCHANGED <<msg, sent, hdr, got, closed>>
        /\ \/ Moving(w)' /\ pc' = pc
           \/ Empty' /\ pkt' = Pkt(w, 0) /\ pc' = pc + 1
    BY <1>4, <1>6, <1>10, ReadStep
  <2>2. CASE Moving(w)' /\ pc' = pc
    BY <1>8, <2>1, <2>2
  <2>3. CASE Empty' /\ pkt' = Pkt(w, 0) /\ pc' = pc + 1
    <3>1. Layout(m, na, b, at, off)'
      BY <1>3, <2>1 DEF Layout, na
    <3>2. Fresh' /\ pc' = na + 4
      BY <1>1, <1>2, <2>1, <2>3 DEF Fresh
    <3> QED
      BY <2>1, <2>3, <3>1, <3>2 DEF Arrived, na, w
  <2> QED
    BY <2>1, <2>2, <2>3
<1>11. CASE ReadEnd
  <2>1. /\ UNCHANGED <<msg, sent, hdr, got, closed>> /\ closed /\ Empty'
        /\ pkt' = [data |-> pkt'.data, data_ptr |-> 0, len |-> 0]
        /\ pkt'.data \in Seq(Byte) /\ Len(pkt'.data) <= BUF_SIZE
        /\ pc' = IF msg \in Unchecked THEN pc + 1 ELSE Len(Program[msg]) + 1
    BY <1>4, <1>6, <1>11, EndStep
  <2>2. CASE msg \in Unchecked
    <3>1. pc' \in na + 4 .. Len(Program[m]) + 1
      BY <1>1, <1>2, <2>1, <2>2 DEF Opened, na
    <3>2. pkt' = [data |-> pkt'.data, data_ptr |-> pkt'.data_ptr, len |-> 0]
      BY <2>1
    <3> QED
      BY <2>1, <2>2, <3>1, <3>2 DEF Half, na
  <2>3. CASE msg \notin Unchecked
    <3>1. pc' = Len(Program[m]) + 1 /\ Fresh'
      BY <1>2, <2>1, <2>3 DEF Fresh
    <3>2. pkt'.data_ptr = 0 /\ pkt'.len = 0
      BY <2>1
    <3> QED
      BY <2>1, <3>1, <3>2 DEF Ended
  <2> QED
    BY <2>2, <2>3
<1> QED
  BY <1>7, <1>9, <1>10, <1>11

(* What is at the k-th piece of a message behind its header h.             *)
LEMMA Field ==
  ASSUME NEW ps, NEW b, NEW off, Laid(ps, b, off), NEW h \in Seq(Byte), NEW k \in 1 .. Len(ps),
         NEW w, w = ps[k].w
  PROVE  /\ w \in Nat /\ off[k] = off[k - 1] + w
         /\ Len(h) + off[k - 1] + w = Len(h) + off[k]
         /\ Peek(Pkt(h \o b, Len(h) + off[k - 1]), w) = Bytes(k, w)
<1>1. /\ ps \in Seq(Piece) /\ b \in Seq(Byte) /\ off \in [0 .. Len(ps) -> 0 .. Len(b)]
      /\ off[k] = off[k - 1] + w /\ \A j \in 1 .. w : b[off[k - 1] + j] = <<k, j>>
  BY DEF Laid
<1>2. Len(ps) \in Nat /\ Len(b) \in Nat /\ Len(h) \in Nat
  BY <1>1
<1>3. w \in Nat
  <2>1. ps[k] \in Piece
    BY <1>1, ElementOfSeq
  <2> QED
    BY <2>1 DEF Piece
<1>4. off[k - 1] \in 0 .. Len(b) /\ off[k] \in 0 .. Len(b)
  <2>1. k - 1 \in 0 .. Len(ps) /\ k \in 0 .. Len(ps)
    BY <1>2
  <2> QED
    BY <2>1, <1>1
<1> DEFINE v == h \o b
           c == Bytes(k, w)
           x == off[k - 1]
<1>5. /\ v \in Seq(Byte) /\ Len(v) = Len(h) + Len(b)
      /\ \A j \in 1 .. Len(h) : v[j] = h[j]
      /\ \A j \in 1 .. Len(b) : v[Len(h) + j] = b[j]
  <2>1. h \in Seq(Byte) /\ b \in Seq(Byte)
    BY <1>1
  <2> QED
    BY <2>1, Concat
<1>6. c \in Seq(Byte) /\ Len(c) = w /\ \A j \in 1 .. w : c[j] = <<k, j>>
  <2>1. k \in Int
    BY <1>2
  <2> QED
    BY <2>1, <1>3, BytesType
<1> HIDE DEF v, c
<1>7. x \in Nat /\ x + w \in 0 .. Len(b)
  BY <1>1, <1>2, <1>3, <1>4
<1>8. \A j \in 1 .. w : x + j \in 1 .. Len(b)
  BY <1>2, <1>3, <1>7, SMTT(30)
<1> HIDE DEF x
<1>9. ASSUME NEW j \in 1 .. w PROVE c[j] = v[Len(h) + x + j]
  <2>1. v[Len(h) + (x + j)] = b[x + j]
    BY <1>5, <1>8
  <2>2. Len(h) + (x + j) = Len(h) + x + j
    BY <1>2, <1>3, <1>7
  <2>3. b[x + j] = <<k, j>>
    BY <1>1 DEF x
  <2> QED
    BY <2>1, <2>2, <2>3, <1>6
<1>10. Peek(Pkt(v, Len(h) + x), w) = c
  <2>1. Len(h) + x \in Nat /\ Len(h) + x + w <= Len(v)
    <3>1. PICK y, e, z : y = Len(h) /\ e = Len(b) /\ z = Len(v)
      OBVIOUS
    <3>2. y \in Nat /\ e \in Nat /\ z = y + e /\ x \in Nat /\ w \in Nat /\ x + w \in 0 .. e
      BY <1>2, <1>3, <1>5, <1>7, <3>1
    <3>3. y + x \in Nat /\ y + x + w <= z
      BY <3>2
    <3> QED
      BY <3>1, <3>3
  <2>2. v \in Seq(Byte) /\ c \in Seq(Byte) /\ Len(c) = w
    BY <1>5, <1>6
  <2> QED
    BY <2>1, <2>2, <1>3, <1>9, PeekAt
<1>11. Len(h) + x + w = Len(h) + off[k]
  BY <1>1, <1>2, <1>3, <1>7 DEF x
<1> QED
  BY <1>1, <1>3, <1>10, <1>11 DEF v, c, x

(* A length that is read at its place has the value that was sent.         *)
LEMMA IntField ==
  ASSUME NEW b, NEW off, Laid(sent, b, off), NEW h \in Seq(Byte), NEW k \in 1 .. Len(sent),
         sent[k].w = 4
  PROVE  IntAt(Pkt(h \o b, Len(h) + off[k - 1])) = sent[k].v
<1> DEFINE p == Pkt(h \o b, Len(h) + off[k - 1])
<1>1. Peek(p, 4) = Bytes(k, 4)
  BY Field
<1>2. Peek(p, 4)[1] = <<k, 1>>
  <2>1. 1 \in 1 .. 4
    OBVIOUS
  <2>2. Bytes(k, 4)[1] = <<k, 1>>
    BY <2>1 DEF Bytes
  <2> QED
    BY <1>1, <2>2
<1>3. Peek(p, 4)[1] = At(p, p.data_ptr + 1)
  <2>1. 1 \in 1 .. 4
    OBVIOUS
  <2> HIDE DEF p
  <2> QED
    BY <2>1 DEF Peek
<1>4. sent \in Seq(Piece)
  BY DEF Laid
<1>5. k \in DOMAIN sent /\ ~(k <= LenOf(0))
  <2>1. DOMAIN sent = 1 .. Len(sent) /\ Len(sent) \in Nat
    BY <1>4
  <2> QED
    BY <2>1 DEF LenOf
<1> HIDE DEF p
<1>6. At(p, p.data_ptr + 1)[1] = k
  BY <1>2, <1>3
<1>7. IntAt(p) = sent[k].v
  BY <1>1, <1>5, <1>6 DEF IntAt
<1> QED
  BY <1>7 DEF p

(* Nothing is out yet.                                                     *)
LEMMA GotNone ==
  ASSUME NEW ps \in Seq(Piece)
  PROVE  Got(ps, <<>>)
<1>1. Len(<<>>) = 0 /\ <<>> \in Seq(Seq(Byte)) /\ Len(ps) \in Nat
  OBVIOUS
<1> QED
  BY <1>1 DEF Got

(* One more piece is out, and it is the one that was put in.               *)
LEMMA GotOne ==
  ASSUME NEW ps \in Seq(Piece), NEW g, Got(ps, g), Len(g) + 1 <= Len(ps),
         NEW c, c = Bytes(Len(g) + 1, ps[Len(g) + 1].w), NEW r, r = Append(g, c)
  PROVE  Got(ps, r) /\ Len(r) = Len(g) + 1
<1>1. g \in Seq(Seq(Byte)) /\ Len(g) \in Nat /\ Len(ps) \in Nat
  BY DEF Got
<1>2. c \in Seq(Byte)
  <2>1. Len(g) + 1 \in 1 .. Len(ps) /\ Len(g) + 1 \in Int
    BY <1>1
  <2>2. ps[Len(g) + 1] \in Piece
    BY <2>1, ElementOfSeq
  <2>3. ps[Len(g) + 1].w \in Nat
    BY <2>2 DEF Piece
  <2> QED
    BY <2>1, <2>3, BytesType
<1>3. /\ r \in Seq(Seq(Byte)) /\ Len(r) = Len(g) + 1
      /\ \A j \in 1 .. Len(g) : r[j] = g[j]
      /\ r[Len(g) + 1] = c
  <2>1. g \in Seq(Seq(Byte))
    BY <1>1
  <2> QED
    BY <2>1, <1>2, Appended1
<1>4. ASSUME NEW k \in 1 .. Len(r) PROVE r[k] = Bytes(k, ps[k].w)
  <2>1. CASE k = Len(g) + 1
    BY <2>1, <1>3
  <2>2. CASE k # Len(g) + 1
    <3>1. k \in 1 .. Len(g)
      BY <2>2, <1>1, <1>3
    <3> QED
      BY <3>1, <1>3 DEF Got
  <2> QED
    BY <2>1, <2>2
<1> QED
  BY <1>3, <1>4 DEF Got

(* Two pieces are out, one after the other (a string's length and          *)
(* characters).                                                            *)
LEMMA TwoTaken ==
  ASSUME NEW S, NEW g \in Seq(S), NEW c1 \in S, NEW c2 \in S
  PROVE  g \o <<c1, c2>> = Append(Append(g, c1), c2)
OBVIOUS

(* One type of the list ts is taken out: the x-th.                         *)
LEMMA ItemTaken ==
  ASSUME NEW ts, Good(ts), NEW b, NEW at, NEW off,
         Laid(sent, b, off), Itemized(ts, Len(ts), sent, at),
         NEW h \in Seq(Byte), NEW x \in 1 .. Len(ts),
         pkt = Pkt(h \o b, Len(h) + off[at[x - 1]]),
         Got(sent, got), Len(got) = at[x - 1], Arg = ts[x], ExtractItem
  PROVE  /\ pkt' = Pkt(h \o b, Len(h) + off[at[x]])
         /\ Got(sent, got') /\ Len(got') = at[x]
         /\ pc' = pc + 1 /\ UNCHANGED <<msg, link, sent, hdr>>
<1> DEFINE t == ts[x]
           l == at[x - 1]
           k == l + 1
           v == h \o b
<1>1. t \in Items /\ Len(ts) \in Nat /\ x - 1 \in 0 .. Len(ts) /\ x \in 0 .. Len(ts)
  <2>1. ts \in Seq(Items)
    BY DEF Good
  <2> QED
    BY <2>1, ElementOfSeq
<1>2. sent \in Seq(Piece) /\ Len(sent) \in Nat
  BY DEF Laid
<1>3. l \in 0 .. Len(sent) /\ at[x] \in 0 .. Len(sent) /\ Item(t, l, at[x], sent)
  BY <1>1 DEF Itemized
<1>4. Len(got) = l /\ got \in Seq(Seq(Byte)) /\ l \in Nat
  BY <1>2, <1>3 DEF Got
<1>5. /\ Arg = t /\ pkt = Pkt(v, Len(h) + off[l]) /\ k - 1 = l
  BY <1>4
<1> HIDE DEF t, v
<1>6. CASE t = "str"
  <2>1. at[x] = k + 1 /\ sent[k].w = 4 /\ sent[k].v = sent[k + 1].w
    <3>1. at[x] = l + 2 /\ sent[l + 1].w = 4 /\ sent[l + 1].v = sent[l + 2].w
      BY <1>3, <1>6 DEF Item
    <3>2. l + 2 = k + 1
      BY <1>4
    <3> QED
      BY <3>1, <3>2
  <2>2. k \in 1 .. Len(sent) /\ k + 1 \in 1 .. Len(sent) /\ k + 1 - 1 = k
    BY <2>1, <1>2, <1>3, <1>4, SMTT(30)
  <2> DEFINE n == sent[k + 1].w
             p == Pkt(v, Len(h) + off[l])
             p1 == Pkt(v, Len(h) + off[k])
  <2>3. /\ Peek(p, 4) = Bytes(k, 4) /\ Len(h) + off[l] + 4 = Len(h) + off[k] /\ IntAt(p) = n
    <3>1. k - 1 = l
      BY <1>5
    <3> HIDE DEF k
    <3>2. /\ Len(h) + off[k - 1] + 4 = Len(h) + off[k]
          /\ Peek(Pkt(h \o b, Len(h) + off[k - 1]), 4) = Bytes(k, 4)
      BY <2>1, <2>2, Field, SMTT(30)
    <3>3. IntAt(Pkt(h \o b, Len(h) + off[k - 1])) = sent[k].v
      BY <2>1, <2>2, IntField
    <3> QED
      BY <2>1, <3>1, <3>2, <3>3 DEF v
  <2>4. Peek(p1, n) = Bytes(k + 1, n) /\ Len(h) + off[k] + n = Len(h) + off[k + 1]
    <3> DEFINE y == k + 1
    <3>1. y \in 1 .. Len(sent) /\ y - 1 = k /\ n = sent[y].w
      BY <2>2
    <3> HIDE DEF y, n, k
    <3>2. /\ Len(h) + off[y - 1] + n = Len(h) + off[y]
          /\ Peek(Pkt(h \o b, Len(h) + off[y - 1]), n) = Bytes(y, n)
      BY <3>1, Field
    <3> QED
      BY <3>1, <3>2 DEF v, y
  <2>5. extract_item(pkt, 4) = p1
    BY <1>5, <2>3, Extracting
  <2>6. extract_item(p1, n) = Pkt(v, Len(h) + off[at[x]])
    BY <2>1, <2>4, Extracting
  <2>7. /\ Turn(extract_item(extract_item(pkt, 4), IntAt(pkt)))
        /\ got' = got \o <<Peek(pkt, 4), Peek(extract_item(pkt, 4), IntAt(pkt))>>
        /\ UNCHANGED <<sent, hdr>>
    BY <1>5, <1>6 DEF ExtractItem
  <2>8. pkt' = Pkt(v, Len(h) + off[at[x]]) /\ pc' = pc + 1 /\ UNCHANGED <<msg, link, sent, hdr>>
    BY <1>5, <2>3, <2>5, <2>6, <2>7 DEF Turn
  <2> DEFINE c1 == Bytes(k, 4)
             c2 == Bytes(k + 1, n)
             g1 == Append(got, c1)
  <2>9. got' = got \o <<c1, c2>>
    BY <1>5, <2>3, <2>4, <2>5, <2>7
  <2>10. got' = Append(g1, c2)
    <3>1. c1 \in Seq(Byte) /\ c2 \in Seq(Byte)
      <4>1. k \in Int /\ k + 1 \in Int /\ 4 \in Nat
        BY <1>4
      <4>2. n \in Nat
        <5>1. sent[k + 1] \in Piece
          BY <1>2, <2>2, ElementOfSeq
        <5> QED
          BY <5>1 DEF Piece
      <4> HIDE DEF n, k
      <4> QED
        BY <4>1, <4>2, BytesType
    <3>2. got \in Seq(Seq(Byte))
      BY <1>4
    <3> HIDE DEF c1, c2
    <3> QED
      BY <2>9, <3>1, <3>2, TwoTaken
  <2>11. Got(sent, g1) /\ Len(g1) = k
    <3>1. c1 = Bytes(Len(got) + 1, sent[Len(got) + 1].w) /\ Len(got) + 1 = k
      BY <1>4, <2>1
    <3>2. Len(got) + 1 <= Len(sent)
      BY <1>2, <2>2, <3>1
    <3> HIDE DEF c1, k
    <3> QED
      BY <1>2, <3>1, <3>2, GotOne
  <2>12. Got(sent, got') /\ Len(got') = k + 1
    <3>1. c2 = Bytes(Len(g1) + 1, sent[Len(g1) + 1].w) /\ Len(g1) + 1 = k + 1
      BY <2>11
    <3>2. Len(g1) + 1 <= Len(sent)
      BY <1>2, <2>2, <3>1
    <3> HIDE DEF c2, g1, k
    <3> QED
      BY <1>2, <2>10, <2>11, <3>1, <3>2, GotOne
  <2> QED
    BY <2>1, <2>8, <2>12 DEF v
<1>7. CASE t # "str"
  <2>1. at[x] = k /\ sent[k].w = Width[t] /\ sent[k].v = TAIListSize
    BY <1>3, <1>7 DEF Item
  <2>2. k \in 1 .. Len(sent)
    BY <2>1, <1>2, <1>3, <1>4
  <2> DEFINE n == Width[t]
             p == Pkt(v, Len(h) + off[l])
  <2>3. Peek(p, n) = Bytes(k, n) /\ Len(h) + off[l] + n = Len(h) + off[k]
    <3>1. k - 1 = l
      BY <1>5
    <3> HIDE DEF k, n
    <3>2. n = sent[k].w
      BY <2>1 DEF n
    <3>3. /\ Len(h) + off[k - 1] + n = Len(h) + off[k]
          /\ Peek(Pkt(h \o b, Len(h) + off[k - 1]), n) = Bytes(k, n)
      BY <2>2, <3>2, Field
    <3> QED
      BY <3>1, <3>3 DEF v
  <2>4. t = "vec" => 8 * sent[Len(got)].v = n
    <3> SUFFICES ASSUME t = "vec" PROVE 8 * sent[Len(got)].v = n
      OBVIOUS
    <3>1. x > 1 /\ ts[x - 1] # "str"
      BY DEF Good, t
    <3>2. x - 1 \in 1 .. Len(ts) /\ x - 1 - 1 = x - 2
      BY <1>1, <3>1
    <3>3. Item(ts[x - 1], at[x - 1 - 1], at[x - 1], sent)
      BY <3>2 DEF Itemized
    <3>4. l = at[x - 2] + 1 /\ sent[at[x - 2] + 1].v = TAIListSize
      BY <3>1, <3>2, <3>3 DEF Item
    <3>5. sent[Len(got)].v = TAIListSize
      BY <1>4, <3>4
    <3> QED
      BY <3>5 DEF Width, TAIListSize
  <2>5. /\ Turn(extract_item(pkt, n)) /\ got' = Append(got, Peek(pkt, n))
        /\ UNCHANGED <<sent, hdr>>
    <3>1. t # "hmac"
      BY <1>1 DEF Items
    <3>2. CASE t = "vec"
      <4> HIDE DEF n
      <4> QED
        BY <1>5, <2>4, <3>2 DEF ExtractItem
    <3>3. CASE t # "vec"
      BY <1>5, <1>7, <3>1, <3>3 DEF ExtractItem
    <3> QED
      BY <3>2, <3>3
  <2>6. extract_item(pkt, n) = Pkt(v, Len(h) + off[at[x]])
    <3> HIDE DEF n
    <3> QED
      BY <1>5, <2>1, <2>3, Extracting
  <2>7. pkt' = Pkt(v, Len(h) + off[at[x]]) /\ pc' = pc + 1 /\ UNCHANGED <<msg, link, sent, hdr>>
    BY <2>5, <2>6 DEF Turn
  <2> DEFINE c == Bytes(k, n)
  <2>8. got' = Append(got, c)
    BY <1>5, <2>3, <2>5
  <2>9. Got(sent, got') /\ Len(got') = k
    <3>1. c = Bytes(Len(got) + 1, sent[Len(got) + 1].w) /\ Len(got) + 1 = k
      BY <1>4, <2>1
    <3>2. Len(got) + 1 <= Len(sent)
      BY <1>2, <2>2, <3>1
    <3> HIDE DEF c, k, n
    <3> QED
      BY <1>2, <2>8, <3>1, <3>2, GotOne
  <2> QED
    BY <2>1, <2>7, <2>9 DEF v
<1> QED
  BY <1>6, <1>7

(* After the x-th type the receiver is at the next.                        *)
LEMMA UnpackingNext ==
  ASSUME NEW m, pc' \in Len(Appended(m)) + 5 .. Opened(m) + Len(Extracted(m)) + 1,
         Empty', hdr' = Hd(m), Got(sent', got'),
         NEW b, NEW at, NEW off, Layout(m, Len(Appended(m)), b, at, off)',
         NEW y, Taken(m)' = y, pkt' = Pkt(Whole(m, b), Len(Hd(m)) + off[at[y]]), Len(got') = at[y]
  PROVE  Unpacking(m)'
BY DEF Unpacking

(* The receiver takes out the header, and decides by it (handle_ue and its *)
(* like).                                                                  *)
LEMMA ArrivedStep ==
  ASSUME NEW m, m = msg, m \in Signals, m # "sec_cmd", Arrived(m), WireNext
  PROVE  msg' = m /\ Unpacking(m)'
<1> DEFINE na == Len(Appended(m))
           h == Hd(m)
<1>1. /\ na \in Nat /\ Len(Extracted(m)) \in Nat /\ Calls(m) \in 0 .. 1
      /\ Program[m][na + 4] = <<"header", HeaderOf(m)>>
  BY SignalProgram
<1>2. pc = na + 4 /\ Empty /\ Fresh
  BY DEF Arrived
<1>3. PICK b, at, off : Layout(m, na, b, at, off) /\ pkt = Pkt(Whole(m, b), 0)
  BY DEF Arrived
<1> DEFINE w == Whole(m, b)
<1>4. h \in Seq(Byte) /\ Len(h) = HDR_LEN[HeaderOf(m)] /\ Len(h) \in {4, 12, 16}
  BY Signal
<1>5. b \in Seq(Byte) /\ w \in Seq(Byte)
  BY <1>3, WholeType
<1>6. ~Done
  BY <1>1, <1>2, NotDone DEF Opened
<1> HIDE DEF na, h
<1>7. ExtractHdr
  <2>1. Program[msg][pc][1] = "header"
    BY <1>1, <1>2
  <2> QED
    BY <1>2, <1>6, <2>1, ByName
<1>8. Arg = HeaderOf(m)
  BY <1>1, <1>2 DEF Arg
<1>9. /\ pkt' = extract_item(pkt, Len(h)) /\ hdr' = Peek(pkt, Len(h)) /\ pc' = pc + 1
      /\ UNCHANGED <<msg, link, sent, got>>
  BY <1>4, <1>7, <1>8 DEF ExtractHdr, Turn
<1>10. pkt' = Pkt(w, Len(h))
  <2>1. extract_item(Pkt(w, 0), Len(h)) = Pkt(w, 0 + Len(h))
    BY Extracting
  <2>2. 0 + Len(h) = Len(h)
    BY <1>4
  <2> QED
    BY <1>3, <1>9, <2>1, <2>2
<1>11. hdr' = h
  <2>1. w = h \o b
    BY DEF Whole, h
  <2> HIDE DEF w
  <2>2. /\ w \in Seq(Byte) /\ Len(w) = Len(h) + Len(b)
        /\ \A k \in 1 .. Len(h) : w[k] = h[k]
    <3>1. h \in Seq(Byte) /\ b \in Seq(Byte)
      BY <1>4, <1>5
    <3> QED
      BY <2>1, <3>1, Concat
  <2>3. Len(h) \in Nat /\ Len(b) \in Nat
    BY <1>4, <1>5
  <2>4. \A j \in 1 .. Len(h) : h[j] = w[0 + j]
    BY <2>2, <2>3
  <2>5. 0 + Len(h) <= Len(w) /\ 0 \in Nat
    BY <2>2, <2>3
  <2>6. Peek(Pkt(w, 0), Len(h)) = h
    <3>1. h \in Seq(Byte) /\ w \in Seq(Byte)
      BY <1>4, <2>2
    <3> QED
      BY <2>3, <2>4, <2>5, <3>1, PeekAt
  <2> QED
    BY <1>3, <1>9, <2>6 DEF w
<1>12. pc' = na + 5 /\ pc' \in na + 5 .. Opened(m) + Len(Extracted(m)) + 1
  BY <1>1, <1>2, <1>9 DEF Opened, na
<1>13. Taken(m)' = 0
  BY <1>1, <1>12 DEF Taken, Opened, na
<1>14. Laid(sent, b, off) /\ Itemized(Appended(m), na, sent, at)
  BY <1>3 DEF Layout
<1>15. at[0] = 0 /\ off[0] = 0 /\ sent \in Seq(Piece)
  BY <1>14 DEF Laid, Itemized
<1>16. Layout(m, na, b, at, off)'
  BY <1>3, <1>9 DEF Layout, na
<1>17. pkt' = Pkt(Whole(m, b), Len(Hd(m)) + off[at[0]])
  <2>1. Len(h) + 0 = Len(h)
    BY <1>4
  <2> QED
    BY <1>10, <1>15, <2>1 DEF w, h
<1>18. got' = <<>> /\ Got(sent', got') /\ Len(got') = at[0]
  <2>1. Len(<<>>) = 0
    OBVIOUS
  <2> QED
    BY <1>2, <1>9, <1>15, <2>1, GotNone DEF Fresh
<1>19. Empty'
  BY <1>2, <1>9 DEF Empty, link
<1> QED
  BY <1>9, <1>11, <1>12, <1>13, <1>16, <1>17, <1>18, <1>19 DEF Unpacking, na, h

(* The receiver's next extract_item.                                       *)
LEMMA UnpackingStep ==
  ASSUME NEW m, m = msg, m \in Signals, m # "sec_cmd", Unpacking(m), WireNext
  PROVE  (msg' = m /\ Unpacking(m)') \/ (msg' \in Messages /\ Start')
<1> DEFINE na == Len(Appended(m))
           ne == Len(Extracted(m))
           h == Hd(m)
           y == Taken(m)
<1>1. /\ na \in Nat /\ ne \in Nat /\ Calls(m) \in 0 .. 1
      /\ Len(Program[m]) = Opened(m) + ne
      /\ Calls(m) = 1 => Program[m][na + 5] = <<"call">>
      /\ \A x \in 1 .. ne : Program[m][Opened(m) + x] = <<"extract", Extracted(m)[x]>>
  BY SignalProgram
<1>2. pc \in na + 5 .. Opened(m) + ne + 1 /\ Empty /\ hdr = h /\ Got(sent, got)
  BY DEF Unpacking
<1>3. PICK b, at, off : /\ Layout(m, na, b, at, off)
                        /\ pkt = Pkt(Whole(m, b), Len(h) + off[at[y]])
                        /\ Len(got) = at[y]
  BY DEF Unpacking
<1> DEFINE w == Whole(m, b)
<1>4. b \in Seq(Byte) /\ h \in Seq(Byte) /\ w \in Seq(Byte) /\ Len(w) \in 4 .. 263
  BY <1>3, WholeType
<1>5. Opened(m) = na + 4 + Calls(m) /\ Opened(m) \in Nat
  BY <1>1 DEF Opened
<1>6. ne <= na /\ \A x \in 1 .. ne : Extracted(m)[x] = Appended(m)[x]
  BY Signal
<1> HIDE DEF na, ne, h, w
<1>7. CASE pc <= Opened(m)
  <2>1. pc = na + 5 /\ Calls(m) = 1 /\ y = 0 /\ pc = Opened(m)
    BY <1>1, <1>2, <1>5, <1>7 DEF Taken
  <2>2. ~Done
    BY <1>7, <2>1, <1>1, NotDone
  <2>3. Call
    <3>1. Program[msg][pc][1] = "call"
      BY <1>1, <2>1
    <3> QED
      BY <1>2, <2>2, <3>1, ByName
  <2>4. pkt' = copied(pkt) /\ pc' = pc + 1 /\ UNCHANGED <<msg, link, sent, hdr, got>>
    BY <2>3 DEF Call, Turn
  <2>5. pkt' = pkt
    <3>1. copied(Pkt(w, Len(h) + off[at[y]])) = Pkt(w, Len(h) + off[at[y]])
      <4>1. w \in Seq(Byte)
        BY <1>4
      <4> HIDE DEF y
      <4> QED
        BY <4>1, Copying
    <3> QED
      BY <1>3, <2>4, <3>1 DEF w
  <2>6. Taken(m)' = 0
    BY <1>1, <1>5, <2>1, <2>4 DEF Taken, Opened
  <2>7. pc' \in na + 5 .. Opened(m) + ne + 1
    BY <1>1, <1>5, <2>1, <2>4
  <2>8. Layout(m, na, b, at, off)'
    BY <1>3, <2>4 DEF Layout, na
  <2>9. pkt' = Pkt(Whole(m, b), Len(h) + off[at[0]]) /\ Len(got') = at[0] /\ Got(sent', got')
    BY <1>2, <1>3, <2>1, <2>4, <2>5
  <2>10. Empty' /\ hdr' = h
    BY <1>2, <2>4 DEF Empty, link
  <2> QED
    <3>1. Unpacking(m)'
      BY <2>6, <2>7, <2>8, <2>9, <2>10, UnpackingNext DEF na, ne, h
    <3> QED
      BY <2>4, <3>1
<1>8. CASE ~(pc <= Opened(m)) /\ pc # Opened(m) + ne + 1
  <2> DEFINE x == pc - Opened(m)
             ts == Appended(m)
  <2>1. /\ x \in 1 .. ne /\ x \in 1 .. Len(ts) /\ pc = Opened(m) + x /\ y = x - 1
        /\ pc <= Opened(m) + ne
        /\ pc \in Nat
    <3>1. PICK p, o, e, a : p = pc /\ o = Opened(m) /\ e = ne /\ a = na
      OBVIOUS
    <3>2. /\ a \in Nat /\ e \in Nat /\ o \in Nat /\ o \in {a + 4, a + 5} /\ e <= a
          /\ p \in a + 5 .. o + e + 1 /\ ~(p <= o) /\ p # o + e + 1
      BY <3>1, <1>1, <1>2, <1>5, <1>6, <1>8
    <3>3. p - o \in 1 .. e /\ p - o \in 1 .. a /\ p = o + (p - o) /\ p <= o + e /\ p \in Nat
      BY <3>2
    <3>4. y = x - 1
      BY <1>8 DEF Taken
    <3> QED
      BY <3>1, <3>3, <3>4 DEF na
  <2>2. ~Done
    BY <2>1, NotDone DEF ne
  <2>3. Program[msg][pc] = <<"extract", ts[x]>>
    <3> HIDE DEF x
    <3>1. Program[m][Opened(m) + x] = <<"extract", Extracted(m)[x]>>
      BY <1>1, <2>1
    <3> QED
      BY <1>6, <2>1, <3>1
  <2>4. ExtractItem
    BY <1>2, <2>2, <2>3, ByName
  <2>5. Arg = ts[x]
    BY <2>3 DEF Arg
  <2>6. Laid(sent, b, off) /\ Itemized(ts, Len(ts), sent, at) /\ Good(ts)
    BY <1>3, Signal DEF Layout, na
  <2>7. pkt = Pkt(h \o b, Len(h) + off[at[x - 1]]) /\ Len(got) = at[x - 1]
    BY <1>3, <2>1 DEF Whole, h
  <2>8. /\ pkt' = Pkt(h \o b, Len(h) + off[at[x]])
        /\ Got(sent, got') /\ Len(got') = at[x]
        /\ pc' = pc + 1 /\ UNCHANGED <<msg, link, sent, hdr>>
    <3>1. h \in Seq(Byte) /\ x \in 1 .. Len(ts) /\ Got(sent, got)
      BY <1>2, <1>4, <2>1
    <3> HIDE DEF x, ts
    <3> QED
      BY <2>4, <2>5, <2>6, <2>7, <3>1, ItemTaken
  <2>9. Taken(m)' = x /\ pc' \in na + 5 .. Opened(m) + ne + 1
    <3>1. pc' = Opened(m) + x + 1 /\ Taken(m)' = IF pc' <= Opened(m) THEN 0 ELSE pc' - Opened(m) - 1
      BY <2>1, <2>8 DEF Taken
    <3> HIDE DEF x
    <3> QED
      <4>1. PICK p, o, e, a : p = pc' /\ o = Opened(m) /\ e = ne /\ a = na
        OBVIOUS
      <4>2. /\ a \in Nat /\ e \in Nat /\ o \in Nat /\ o \in {a + 4, a + 5}
            /\ x \in 1 .. e /\ p = o + x + 1
        <5>1. x \in 1 .. e /\ p = o + x + 1
          BY <4>1, <2>1, <3>1
        <5> HIDE DEF y
        <5> QED
          BY <4>1, <5>1, <1>1, <1>5
      <4>3. ~(p <= o) /\ p - o - 1 = x /\ p \in a + 5 .. o + e + 1
        BY <4>2
      <4> QED
        BY <3>1, <4>1, <4>3
  <2>10. Layout(m, na, b, at, off)'
    BY <1>3, <2>8 DEF Layout, na
  <2>11. Empty' /\ hdr' = h
    BY <1>2, <2>8 DEF Empty, link
  <2>12. pkt' = Pkt(Whole(m, b), Len(h) + off[at[x]]) /\ Got(sent', got')
    BY <2>8 DEF Whole, h
  <2> HIDE DEF x
  <2> QED
    <3>1. Unpacking(m)'
      BY <2>8, <2>9, <2>10, <2>11, <2>12, UnpackingNext DEF na, ne, h
    <3> QED
      BY <2>8, <3>1
<1>9. CASE pc = Opened(m) + ne + 1
  <2>1. Done
    BY <1>1, <1>5, <1>9 DEF Done
  <2>2. Small
    <3>1. \A x \in 4 .. 263 : x <= BUF_SIZE
      BY DEF BUF_SIZE
    <3>2. Len(w) <= BUF_SIZE
      BY <1>4, <3>1
    <3> QED
      BY <1>3, <3>2 DEF Small, Pkt, w
  <2> QED
    BY <1>2, <2>1, <2>2, Over
<1> QED
  BY <1>7, <1>8, <1>9

(* A receiver that goes on with an incomplete packet stays within the      *)
(* buffer.                                                                 *)
LEMMA HalfStep ==
  ASSUME NEW m, m = msg, m \in Signals, m # "sec_cmd", Half(m), WireNext
  PROVE  (msg' = m /\ Half(m)') \/ (msg' \in Messages /\ Start')
<1> DEFINE na == Len(Appended(m))
           ne == Len(Extracted(m))
<1>1. /\ na \in Nat /\ ne \in Nat /\ Calls(m) \in 0 .. 1
      /\ Len(Program[m]) = Opened(m) + ne
      /\ Program[m][na + 4] = <<"header", HeaderOf(m)>>
      /\ Calls(m) = 1 => Program[m][na + 5] = <<"call">>
      /\ \A x \in 1 .. ne : Program[m][Opened(m) + x] = <<"extract", Extracted(m)[x]>>
  BY SignalProgram
<1>2. Opened(m) = na + 4 + Calls(m) /\ Opened(m) \in Nat
  BY <1>1 DEF Opened
<1>3. /\ closed /\ m \in Unchecked /\ pc \in na + 4 .. Len(Program[m]) + 1 /\ Empty
      /\ pkt.data \in Seq(Byte) /\ Len(pkt.data) <= BUF_SIZE
      /\ pkt = [data |-> pkt.data, data_ptr |-> pkt.data_ptr, len |-> 0]
  BY DEF Half
<1>4. Extracted(m) \in Seq(Items)
  BY Signal
<1>5. pc \in Nat
  BY <1>1, <1>2, <1>3
<1> HIDE DEF na
<1>6. CASE pc = Len(Program[m]) + 1
  <2>1. Done
    BY <1>1, <1>2, <1>6 DEF Done
  <2>2. Small
    <3>1. pkt.len = 0
      BY <1>3
    <3> QED
      BY <1>3, <3>1 DEF Small, BUF_SIZE
  <2> QED
    BY <1>3, <2>1, <2>2, Over
<1>7. CASE pc # Len(Program[m]) + 1
  <2>9. PICK p, o, e, a, c : p = pc /\ o = Opened(m) /\ e = ne /\ a = na /\ c = Calls(m)
    OBVIOUS
  <2>10. /\ a \in Nat /\ e \in Nat /\ c \in 0 .. 1 /\ o = a + 4 + c /\ Len(Program[m]) = o + e
         /\ p \in a + 4 .. o + e + 1 /\ p # o + e + 1
    BY <2>9, <1>1, <1>2, <1>3, <1>7
  <2>11. p <= o + e /\ p + 1 \in a + 4 .. o + e + 1
    BY <2>10
  <2>1. pc <= Opened(m) + ne
    BY <2>9, <2>11
  <2>2. ~Done
    BY <1>5, <2>1, NotDone
  <2>3. pc + 1 \in na + 4 .. Len(Program[m]) + 1
    BY <2>9, <2>10, <2>11
  <2>4. ASSUME UNCHANGED <<msg, link>>, pc' = pc + 1, NEW d \in {pkt.data, <<>>}, NEW z,
               pkt' = [data |-> d, data_ptr |-> z, len |-> 0]
        PROVE  msg' = m /\ Half(m)'
    <3>1. Empty' /\ closed'
      BY <1>3, <2>4 DEF Empty, link
    <3>2. pkt'.data \in Seq(Byte) /\ Len(pkt'.data) <= BUF_SIZE
      <4>1. Len(<<>>) <= BUF_SIZE /\ <<>> \in Seq(Byte)
        BY DEF BUF_SIZE
      <4> QED
        BY <1>3, <2>4, <4>1
    <3>3. pkt' = [data |-> pkt'.data, data_ptr |-> pkt'.data_ptr, len |-> 0]
      BY <2>4
    <3> QED
      BY <1>3, <2>3, <2>4, <3>1, <3>2, <3>3 DEF Half, na
  <2>5. \A n : extract_item(pkt, n) = [data |-> pkt.data, data_ptr |-> pkt.data_ptr + n, len |-> 0]
    BY <1>3 DEF extract_item
  <2>6. CASE pc = na + 4
    <3>1. Program[msg][pc][1] = "header"
      BY <1>1, <2>6
    <3>2. ExtractHdr
      BY <1>3, <2>2, <3>1, ByName
    <3>3. pkt' = extract_item(pkt, HDR_LEN[Arg]) /\ pc' = pc + 1 /\ UNCHANGED <<msg, link>>
      BY <3>2 DEF ExtractHdr, Turn
    <3> QED
      <4>1. pkt' = [data |-> pkt.data, data_ptr |-> pkt.data_ptr + HDR_LEN[Arg], len |-> 0]
        BY <2>5, <3>3
      <4> QED
        BY <2>4, <3>3, <4>1
  <2>7. CASE pc = na + 5 /\ Calls(m) = 1
    <3>1. Program[msg][pc][1] = "call"
      BY <1>1, <2>7
    <3>2. Call
      BY <1>3, <2>2, <3>1, ByName
    <3>3. pkt' = copied(pkt) /\ pc' = pc + 1 /\ UNCHANGED <<msg, link>>
      BY <3>2 DEF Call, Turn
    <3>4. pkt.len = 0
      BY <1>3
    <3>5. pkt' = [data |-> <<>>, data_ptr |-> pkt.data_ptr, len |-> 0]
      BY <1>3, <3>3, <3>4, UptoNone DEF copied
    <3> QED
      BY <2>4, <3>3, <3>5
  <2>8. CASE pc # na + 4 /\ ~(pc = na + 5 /\ Calls(m) = 1)
    <3> DEFINE x == pc - Opened(m)
    <3>1. x \in 1 .. ne /\ pc = Opened(m) + x
      <4>1. p - o \in 1 .. e /\ p = o + (p - o)
        <5>1. p # a + 4 /\ ~(p = a + 5 /\ c = 1)
          BY <2>8, <2>9
        <5> QED
          BY <5>1, <2>10, <2>11
      <4> QED
        BY <2>9, <4>1
    <3> DEFINE t == Extracted(m)[x]
    <3> HIDE DEF x
    <3>2. Program[msg][pc] = <<"extract", t>>
      BY <1>1, <3>1
    <3>3. t \in Items
      BY <1>4, <3>1, ElementOfSeq
    <3> HIDE DEF t
    <3>4. ExtractItem
      BY <1>3, <2>2, <3>2, ByName
    <3>5. Arg = t /\ t # "hmac"
      BY <3>2, <3>3 DEF Arg, Items
    <3>6. PICK n : /\ \/ pkt' = extract_item(pkt, n)
                      \/ pkt' = extract_item(extract_item(pkt, 4), n)
                   /\ pc' = pc + 1 /\ UNCHANGED <<msg, link>>
      <4>1. CASE t = "str"
        <5>1. Turn(extract_item(extract_item(pkt, 4), IntAt(pkt)))
          BY <3>4, <3>5, <4>1 DEF ExtractItem
        <5> QED
          BY <5>1 DEF Turn
      <4>2. CASE t = "vec"
        <5>1. Turn(extract_item(pkt, 8 * sent[Len(got)].v))
          BY <3>4, <3>5, <4>2 DEF ExtractItem
        <5> QED
          BY <5>1 DEF Turn
      <4>3. CASE t # "str" /\ t # "vec"
        <5>1. Turn(extract_item(pkt, Width[t]))
          BY <3>4, <3>5, <4>3 DEF ExtractItem
        <5> QED
          BY <5>1 DEF Turn
      <4> QED
        BY <4>1, <4>2, <4>3
    <3>7. CASE pkt' = extract_item(pkt, n)
      <4>1. pkt' = [data |-> pkt.data, data_ptr |-> pkt.data_ptr + n, len |-> 0]
        BY <2>5, <3>7
      <4> QED
        BY <2>4, <3>6, <4>1
    <3>8. CASE pkt' = extract_item(extract_item(pkt, 4), n)
      <4>1. pkt' = [data |-> pkt.data, data_ptr |-> pkt.data_ptr + 4 + n, len |-> 0]
        BY <2>5, <3>8 DEF extract_item
      <4> QED
        BY <2>4, <3>6, <4>1
    <3> QED
      BY <3>6, <3>7, <3>8
  <2> QED
    BY <2>6, <2>7, <2>8
<1> QED
  BY <1>6, <1>7

(* A message that is over makes room for the next.                         *)
LEMMA EndedStep ==
  ASSUME NEW m, m = msg, m \in Signals, m # "sec_cmd", Ended(m), WireNext
  PROVE  msg' \in Messages /\ Start'
<1>1. Len(Program[m]) \in Nat
  <2>1. /\ Len(Appended(m)) \in Nat /\ Len(Extracted(m)) \in Nat /\ Calls(m) \in 0 .. 1
        /\ Len(Program[m]) = Opened(m) + Len(Extracted(m))
    BY SignalProgram
  <2> QED
    BY <2>1 DEF Opened
<1>2. Done
  BY <1>1 DEF Ended, Done
<1>3. Small /\ Empty
  BY DEF Ended, Small, BUF_SIZE
<1> QED
  BY <1>2, <1>3, Over

(* User packets.                                                           *)
LEMMA UserPrograms ==
  /\ "uplink" \notin Signals /\ "downlink" \notin Signals
  /\ DOMAIN Program = Signals \cup {"uplink", "downlink"}
  /\ Program["uplink"] = UserData.uplink /\ Program["downlink"] = UserData.downlink
<1>1. "uplink" \notin Signals /\ "downlink" \notin Signals
  BY DEF Signals, RanAppends, MmeAppends, HssAppends, SgwAppends, PgwAppends
<1>2. DOMAIN UserData = {"uplink", "downlink"}
  BY DEF UserData
<1> QED
  BY <1>1, <1>2 DEF Program

(* The program of a user packet on its way up, word by word.               *)
LEMMA Uplink ==
  /\ Len(Program["uplink"]) = 13
  /\ Program["uplink"][1] = <<"tun">> /\ Program["uplink"][2] = <<"prepend", "gtp">>
  /\ Program["uplink"][3] = <<"udp">> /\ Program["uplink"][4] = <<"header", "gtp">>
  /\ Program["uplink"][5] = <<"call">> /\ Program["uplink"][6] = <<"truncate">>
  /\ Program["uplink"][7] = <<"prepend", "gtp">> /\ Program["uplink"][8] = <<"udp">>
  /\ Program["uplink"][9] = <<"header", "gtp">> /\ Program["uplink"][10] = <<"call">>
  /\ Program["uplink"][11] = <<"truncate">> /\ Program["uplink"][12] = <<"udp">>
  /\ Program["uplink"][13] = <<"deliver">>
BY UserPrograms DEF UserData, Retunnel

(* The program of a user packet on its way down, word by word.             *)
LEMMA Downlink ==
  /\ Len(Program["downlink"]) = 13
  /\ Program["downlink"][1] = <<"tun">> /\ Program["downlink"][2] = <<"udp">>
  /\ Program["downlink"][3] = <<"call">> /\ Program["downlink"][4] = <<"prepend", "gtp">>
  /\ Program["downlink"][5] = <<"udp">> /\ Program["downlink"][6] = <<"header", "gtp">>
  /\ Program["downlink"][7] = <<"call">> /\ Program["downlink"][8] = <<"truncate">>
  /\ Program["downlink"][9] = <<"prepend", "gtp">> /\ Program["downlink"][10] = <<"udp">>
  /\ Program["downlink"][11] = <<"header", "gtp">> /\ Program["downlink"][12] = <<"truncate">>
  /\ Program["downlink"][13] = <<"deliver">>
BY UserPrograms DEF UserData, Retunnel, Untunnel

(* The user packet fits the buffer, also behind a GTP header.              *)
LEMMA Payload ==
  ASSUME NEW n \in PayloadLens
  PROVE  /\ n \in Nat /\ Bytes(1, n) \in Seq(Byte) /\ Len(Bytes(1, n)) = n /\ n <= BUF_SIZE
         /\ Gtp \in Seq(Byte) /\ Len(Gtp) = 16 /\ Len(Gtp) = HDR_LEN.gtp
         /\ Gtp \o Bytes(1, n) \in Seq(Byte) /\ Len(Gtp \o Bytes(1, n)) <= BUF_SIZE
<1>1. n \in 0 .. 1008
  BY LengthsAssumption DEF BUF_SIZE, HDR_LEN
<1>2. Bytes(1, n) \in Seq(Byte) /\ Len(Bytes(1, n)) = n
  <2>1. 1 \in Int /\ n \in Nat
    BY <1>1
  <2> QED
    BY <2>1, BytesType
<1>3. HDR_LEN.gtp = 16
  BY DEF HDR_LEN
<1>4. Gtp \in Seq(Byte) /\ Len(Gtp) = 16
  <2>1. Header \in Int /\ 16 \in Nat
    BY DEF Header
  <2> QED
    BY <1>3, <2>1, BytesType DEF Gtp
<1>5. Gtp \o Bytes(1, n) \in Seq(Byte) /\ Len(Gtp \o Bytes(1, n)) = Len(Gtp) + Len(Bytes(1, n))
  <2>1. Gtp \in Seq(Byte) /\ Bytes(1, n) \in Seq(Byte)
    BY <1>2, <1>4
  <2> QED
    BY <2>1, ConcatProperties
<1>6. Len(Gtp \o Bytes(1, n)) <= BUF_SIZE /\ n <= BUF_SIZE
  BY <1>1, <1>2, <1>4, <1>5 DEF BUF_SIZE
<1> QED
  BY <1>1, <1>2, <1>3, <1>4, <1>5, <1>6

Advanced == pc' = pc + 1 /\ UNCHANGED <<msg, sent, link>>

(* A datagram arrives as it was sent.                                      *)
LEMMA SentByUdp ==
  ASSUME NEW x \in Seq(Byte), Len(x) <= BUF_SIZE, NEW ptr, pkt = Pkt(x, ptr), Datagram
  PROVE  pkt' = Pkt(x, 0) /\ Advanced /\ UNCHANGED <<hdr, got>>
<1>1. Upto(pkt, pkt.len) = x
  <2>1. pkt.len = Len(x)
    BY DEF Pkt
  <2> QED
    BY <2>1, UptoAll
<1>2. received(x) = Pkt(x, 0)
  BY Receiving
<1> QED
  BY <1>1, <1>2 DEF Datagram, Turn, Advanced

(* The tun device gives a new user packet.                                 *)
LEMMA UserTun ==
  ASSUME TunRcv, got = <<>>
  PROVE  /\ \E n \in PayloadLens : sent' = <<[w |-> n, v |-> 0]>> /\ Alone(n)'
         /\ pc' = pc + 1 /\ UNCHANGED <<msg, hdr, link>>
<1>1. PICK n \in PayloadLens :
        Turn(received(Bytes(1, n))) /\ sent' = <<[w |-> n, v |-> 0]>> /\ UNCHANGED <<hdr, got>>
  BY DEF TunRcv
<1>2. received(Bytes(1, n)) = Pkt(Bytes(1, n), 0)
  <2>1. Bytes(1, n) \in Seq(Byte) /\ Len(Bytes(1, n)) <= BUF_SIZE
    BY Payload
  <2> QED
    BY <2>1, Receiving
<1> QED
  BY <1>1, <1>2 DEF Turn, Alone

(* Steps of a user packet on its own.                                      *)
LEMMA UserAlone ==
  ASSUME NEW n \in PayloadLens, Alone(n), Empty, ~Done, WireNext
  PROVE  /\ Program[msg][pc] = <<"prepend", "gtp">> => Passed(n)' /\ Advanced /\ hdr' = hdr
         /\ Program[msg][pc] \in {<<"udp">>, <<"call">>} => Alone(n)' /\ Advanced /\ hdr' = hdr
         /\ Program[msg][pc] = <<"deliver">> => Delivered(n)' /\ Advanced /\ hdr' = hdr
<1> DEFINE b == Bytes(1, n)
<1>1. /\ b \in Seq(Byte) /\ Len(b) <= BUF_SIZE
      /\ Gtp \in Seq(Byte) /\ Len(Gtp) = 16 /\ Len(Gtp) = HDR_LEN.gtp
  BY Payload
<1>2. pkt = Pkt(b, 0) /\ got = <<>>
  BY DEF Alone
<1> HIDE DEF b
<1>3. CASE Program[msg][pc] = <<"prepend", "gtp">>
  <2>1. PrependHdr /\ Arg = "gtp"
    BY <1>3, ByName DEF Arg
  <2>2. pkt' = prepend_item(pkt, Gtp) /\ pc' = pc + 1 /\ UNCHANGED <<msg, link, sent, hdr, got>>
    BY <2>1 DEF PrependHdr, Turn, Gtp
  <2>3. prepend_item(Pkt(b, 0), Gtp) = Pkt(Gtp \o b, 0 + Len(Gtp))
    <3>1. b \in Seq(Byte) /\ Gtp \in Seq(Byte) /\ 0 \in Nat
      BY <1>1
    <3> QED
      BY <3>1, Prepending
  <2>4. 0 + Len(Gtp) = Len(Gtp)
    BY <1>1
  <2>5. Passed(n)'
    BY <1>2, <2>2, <2>3, <2>4 DEF Passed, b
  <2> QED
    BY <1>3, <2>2, <2>5 DEF Advanced
<1>4. CASE Program[msg][pc] = <<"udp">>
  <2>1. Datagram
    BY <1>4, ByName
  <2>2. pkt' = Pkt(b, 0) /\ Advanced /\ UNCHANGED <<hdr, got>>
    BY <1>1, <1>2, <2>1, SentByUdp
  <2> QED
    BY <1>2, <1>4, <2>2 DEF Alone, b
<1>5. CASE Program[msg][pc] = <<"call">>
  <2>1. Call
    BY <1>5, ByName
  <2>2. pkt' = copied(pkt) /\ Advanced /\ UNCHANGED <<hdr, got>>
    BY <2>1 DEF Call, Turn, Advanced
  <2>3. pkt' = Pkt(b, 0)
    BY <1>1, <1>2, <2>2, Copying
  <2> QED
    BY <1>2, <1>5, <2>2, <2>3 DEF Alone, b
<1>6. CASE Program[msg][pc] = <<"deliver">>
  <2>1. TunSnd
    BY <1>6, ByName
  <2>2. pkt' = pkt /\ got' = <<Upto(pkt, pkt.len)>> /\ Advanced /\ hdr' = hdr
    BY <2>1 DEF TunSnd, Turn, Advanced
  <2>3. Upto(pkt, pkt.len) = b
    <3>1. pkt.len = Len(b)
      BY <1>2 DEF Pkt
    <3> QED
      BY <1>1, <1>2, <3>1, UptoAll
  <2> QED
    BY <1>2, <1>6, <2>2, <2>3 DEF Delivered, b
<1> QED
  BY <1>3, <1>4, <1>5, <1>6

(* Steps of a user packet behind a header that is passed.                  *)
LEMMA UserPassed ==
  ASSUME NEW n \in PayloadLens, Passed(n), Empty, ~Done, WireNext
  PROVE  /\ Program[msg][pc] = <<"udp">> => Ahead(n)' /\ Advanced /\ hdr' = hdr
         /\ Program[msg][pc] = <<"call">> => Passed(n)' /\ Advanced /\ hdr' = hdr
         /\ Program[msg][pc] = <<"truncate">> => Alone(n)' /\ Advanced /\ hdr' = hdr
<1> DEFINE b == Bytes(1, n)
           x == Gtp \o b
<1>1. b \in Seq(Byte) /\ Gtp \in Seq(Byte) /\ x \in Seq(Byte) /\ Len(x) <= BUF_SIZE
  BY Payload
<1>2. pkt = Pkt(x, Len(Gtp)) /\ got = <<>>
  BY DEF Passed
<1> HIDE DEF b
<1>3. CASE Program[msg][pc] = <<"udp">>
  <2>1. Datagram
    BY <1>3, ByName
  <2> HIDE DEF x
  <2>2. pkt' = Pkt(x, 0) /\ Advanced /\ UNCHANGED <<hdr, got>>
    BY <1>1, <1>2, <2>1, SentByUdp
  <2> QED
    BY <1>2, <1>3, <2>2 DEF Ahead, x, b
<1>4. CASE Program[msg][pc] = <<"call">>
  <2>1. Call
    BY <1>4, ByName
  <2> HIDE DEF x
  <2>2. pkt' = copied(pkt) /\ Advanced /\ UNCHANGED <<hdr, got>>
    BY <2>1 DEF Call, Turn, Advanced
  <2>3. pkt' = Pkt(x, Len(Gtp))
    BY <1>1, <1>2, <2>2, Copying
  <2> QED
    BY <1>2, <1>4, <2>2, <2>3 DEF Passed, x, b
<1>5. CASE Program[msg][pc] = <<"truncate">>
  <2>1. Truncate
    BY <1>5, ByName
  <2>2. pkt' = truncate(pkt) /\ Advanced /\ UNCHANGED <<hdr, got>>
    BY <2>1 DEF Truncate, Turn, Advanced
  <2>3. truncate(Pkt(Gtp \o b, Len(Gtp))) = Pkt(b, 0)
    <3>1. b \in Seq(Byte) /\ Gtp \in Seq(Byte)
      BY <1>1
    <3> QED
      BY <3>1, Truncating
  <2> QED
    BY <1>2, <1>5, <2>2, <2>3 DEF Alone, b
<1> QED
  BY <1>3, <1>4, <1>5

(* Steps of a user packet behind a header that is ahead.                   *)
LEMMA UserAhead ==
  ASSUME NEW n \in PayloadLens, Ahead(n), Empty, ~Done, WireNext,
         Program[msg][pc] = <<"header", "gtp">>
  PROVE  Passed(n)' /\ Advanced /\ hdr' = Gtp
<1> DEFINE b == Bytes(1, n)
           x == Gtp \o b
<1>1. /\ b \in Seq(Byte) /\ Gtp \in Seq(Byte) /\ x \in Seq(Byte)
      /\ Len(Gtp) = 16 /\ Len(Gtp) = HDR_LEN.gtp
  BY Payload
<1>2. pkt = Pkt(x, 0) /\ got = <<>>
  BY DEF Ahead
<1> HIDE DEF b
<1>3. ExtractHdr /\ Arg = "gtp"
  BY ByName DEF Arg
<1>4. /\ pkt' = extract_item(pkt, Len(Gtp)) /\ hdr' = Peek(pkt, Len(Gtp)) /\ Advanced
      /\ got' = got
  BY <1>1, <1>3 DEF ExtractHdr, Turn, Advanced
<1>5. x = Gtp \o b
  OBVIOUS
<1> HIDE DEF x
<1>6. pkt' = Pkt(x, Len(Gtp))
  <2>1. extract_item(Pkt(x, 0), Len(Gtp)) = Pkt(x, 0 + Len(Gtp))
    BY Extracting
  <2>2. 0 + Len(Gtp) = Len(Gtp)
    BY <1>1
  <2> QED
    BY <1>2, <1>4, <2>1, <2>2
<1>7. Peek(Pkt(x, 0), Len(Gtp)) = Gtp
  <2>1. b \in Seq(Byte) /\ Gtp \in Seq(Byte) /\ x \in Seq(Byte)
    BY <1>1
  <2>2. Len(x) = Len(Gtp) + Len(b) /\ \A k \in 1 .. Len(Gtp) : x[k] = Gtp[k]
    BY <1>5, <2>1, Concat
  <2>3. Len(Gtp) \in Nat /\ Len(b) \in Nat /\ 0 \in Nat
    BY <2>1
  <2>4. 0 + Len(Gtp) <= Len(x) /\ \A j \in 1 .. Len(Gtp) : Gtp[j] = x[0 + j]
    BY <2>2, <2>3
  <2> QED
    BY <2>1, <2>3, <2>4, PeekAt
<1> QED
  BY <1>2, <1>4, <1>6, <1>7 DEF Passed, x, b

UserKinds(m, n, p) ==
  \/ Alone(n) /\ p \in (IF m = "uplink" THEN {2, 7, 12, 13} ELSE {2, 3, 4, 9, 13})
  \/ Passed(n) /\ p \in (IF m = "uplink" THEN {3, 5, 6, 8, 10, 11} ELSE {5, 7, 8, 10, 12})
  \/ Ahead(n) /\ p \in (IF m = "uplink" THEN {4, 9} ELSE {6, 11})
  \/ Delivered(n) /\ p = 14

(* A user packet's first step.                                             *)
LEMMA StartUser ==
  ASSUME NEW m, m = msg, m \in {"uplink", "downlink"}, Start, WireNext
  PROVE  msg' = m /\ UserInv(m)'
<1>1. /\ Len(Program[m]) = 13 /\ Program[m][1] = <<"tun">>
  BY Uplink, Downlink
<1>2. ~Done /\ Empty /\ pc = 1 /\ got = <<>> /\ hdr = <<>>
  BY <1>1 DEF Done, Start, Fresh
<1>3. TunRcv
  BY <1>1, <1>2, ByName
<1>4. PICK n \in PayloadLens : /\ sent' = <<[w |-> n, v |-> 0]>> /\ Alone(n)' /\ pc' = 2
                               /\ UNCHANGED <<msg, hdr, link>>
  BY <1>2, <1>3, UserTun
<1>5. Empty' /\ hdr' = <<>>
  BY <1>2, <1>4 DEF Empty, link
<1>6. pc' \in (IF m = "uplink" THEN {2, 7, 12, 13} ELSE {2, 3, 4, 9, 13})
  BY <1>4
<1> QED
  BY <1>4, <1>5, <1>6 DEF UserInv

(* Every step of a user packet.                                            *)
LEMMA UserStep ==
  ASSUME NEW m, m = msg, m \in {"uplink", "downlink"}, UserInv(m), WireNext
  PROVE  (msg' = m /\ UserInv(m)') \/ (msg' \in Messages /\ Start')
<1>1. Empty /\ hdr \in {<<>>, Gtp}
  BY DEF UserInv
<1>2. PICK n \in PayloadLens : sent = <<[w |-> n, v |-> 0]>> /\ UserKinds(m, n, pc)
  BY DEF UserInv, UserKinds
<1>3. Len(Program[m]) = 13
  BY Uplink, Downlink
<1>4. ASSUME Advanced, hdr' \in {<<>>, Gtp}, UserKinds(m, n, pc)' PROVE msg' = m /\ UserInv(m)'
  <2>1. Empty' /\ msg' = m /\ sent' = <<[w |-> n, v |-> 0]>>
    BY <1>1, <1>2, <1>4 DEF Advanced, Empty, link
  <2> QED
    BY <1>4, <2>1 DEF UserInv, UserKinds
<1>5. CASE pc = 14
  <2>1. Done
    BY <1>3, <1>5 DEF Done
  <2>2. Small
    <3>1. Delivered(n)
      BY <1>2, <1>5 DEF UserKinds
    <3>2. pkt.len = Len(Bytes(1, n)) /\ pkt.data = Bytes(1, n)
      BY <3>1 DEF Delivered, Pkt
    <3>3. Len(Bytes(1, n)) = n /\ n <= BUF_SIZE
      BY Payload
    <3> QED
      BY <3>2, <3>3 DEF Small
  <2> QED
    BY <1>1, <2>1, <2>2, Over
<1>6. CASE pc # 14
  <2>1. pc \in 2 .. 13
    BY <1>2, <1>6 DEF UserKinds
  <2>2. ~Done
    BY <1>3, <2>1 DEF Done
  <2>3. CASE Alone(n) /\ pc \in (IF m = "uplink" THEN {2, 7, 12, 13} ELSE {2, 3, 4, 9, 13})
    <3>1. CASE (m = "uplink" /\ pc \in {2, 7}) \/ (m = "downlink" /\ pc \in {4, 9})
      <4>1. Program[msg][pc] = <<"prepend", "gtp">>
        BY <3>1, Uplink, Downlink
      <4>2. Passed(n)' /\ Advanced /\ hdr' = hdr
        BY <1>1, <2>2, <2>3, <4>1, UserAlone
      <4>3. UserKinds(m, n, pc)'
        BY <3>1, <4>2 DEF UserKinds, Advanced
      <4> QED
        BY <1>1, <1>4, <4>2, <4>3
    <3>2. CASE (m = "uplink" /\ pc = 12) \/ (m = "downlink" /\ pc \in {2, 3})
      <4>1. Program[msg][pc] \in {<<"udp">>, <<"call">>}
        BY <3>2, Uplink, Downlink
      <4>2. Alone(n)' /\ Advanced /\ hdr' = hdr
        BY <1>1, <2>2, <2>3, <4>1, UserAlone
      <4>3. UserKinds(m, n, pc)'
        BY <3>2, <4>2 DEF UserKinds, Advanced
      <4> QED
        BY <1>1, <1>4, <4>2, <4>3
    <3>3. CASE pc = 13
      <4>1. Program[msg][pc] = <<"deliver">>
        BY <3>3, Uplink, Downlink
      <4>2. Delivered(n)' /\ Advanced /\ hdr' = hdr
        BY <1>1, <2>2, <2>3, <4>1, UserAlone
      <4>3. UserKinds(m, n, pc)'
        BY <3>3, <4>2 DEF UserKinds, Advanced
      <4> QED
        BY <1>1, <1>4, <4>2, <4>3
    <3> QED
      BY <2>3, <3>1, <3>2, <3>3
  <2>4. CASE Passed(n) /\ pc \in (IF m = "uplink" THEN {3, 5, 6, 8, 10, 11} ELSE {5, 7, 8, 10, 12})
    <3>1. CASE (m = "uplink" /\ pc \in {3, 8}) \/ (m = "downlink" /\ pc \in {5, 10})
      <4>1. Program[msg][pc] = <<"udp">>
        BY <3>1, Uplink, Downlink
      <4>2. Ahead(n)' /\ Advanced /\ hdr' = hdr
        BY <1>1, <2>2, <2>4, <4>1, UserPassed
      <4>3. UserKinds(m, n, pc)'
        BY <3>1, <4>2 DEF UserKinds, Advanced
      <4> QED
        BY <1>1, <1>4, <4>2, <4>3
    <3>2. CASE (m = "uplink" /\ pc \in {5, 10}) \/ (m = "downlink" /\ pc = 7)
      <4>1. Program[msg][pc] = <<"call">>
        BY <3>2, Uplink, Downlink
      <4>2. Passed(n)' /\ Advanced /\ hdr' = hdr
        BY <1>1, <2>2, <2>4, <4>1, UserPassed
      <4>3. UserKinds(m, n, pc)'
        BY <3>2, <4>2 DEF UserKinds, Advanced
      <4> QED
        BY <1>1, <1>4, <4>2, <4>3
    <3>3. CASE (m = "uplink" /\ pc \in {6, 11}) \/ (m = "downlink" /\ pc \in {8, 12})
      <4>1. Program[msg][pc] = <<"truncate">>
        BY <3>3, Uplink, Downlink
      <4>2. Alone(n)' /\ Advanced /\ hdr' = hdr
        BY <1>1, <2>2, <2>4, <4>1, UserPassed
      <4>3. UserKinds(m, n, pc)'
        BY <3>3, <4>2 DEF UserKinds, Advanced
      <4> QED
        BY <1>1, <1>4, <4>2, <4>3
    <3> QED
      BY <2>4, <3>1, <3>2, <3>3
  <2>5. CASE Ahead(n) /\ pc \in (IF m = "uplink" THEN {4, 9} ELSE {6, 11})
    <3>1. Program[msg][pc] = <<"header", "gtp">>
      BY <2>5, Uplink, Downlink
    <3>2. Passed(n)' /\ Advanced /\ hdr' = Gtp
      BY <1>1, <2>2, <2>5, <3>1, UserAhead
    <3>3. UserKinds(m, n, pc)'
      BY <2>5, <3>2 DEF UserKinds, Advanced
    <3> QED
      BY <1>4, <3>2, <3>3
  <2> QED
    BY <1>2, <1>6, <2>3, <2>4, <2>5 DEF UserKinds
<1> QED
  BY <1>5, <1>6

(* The invariant holds at the beginning.                                   *)
LEMMA InvStarts ==
  ASSUME WireInit
  PROVE  WireInv
<1>1. Len(<<>>) = 0
  OBVIOUS
<1> QED
  BY <1>1 DEF WireInit, WireInv, Start, Empty, Fresh, Small, BUF_SIZE

(* Every step keeps the invariant.                                         *)
LEMMA InvStays ==
  ASSUME "sec_cmd" \notin Messages, WireInv, [WireNext]_wireVars
  PROVE  WireInv'
<1>1. CASE UNCHANGED wireVars
  <2>1. UNCHANGED <<msg, pc, pkt, sent, hdr, got, out, stream, cuts, rem, reading, closed>>
    BY <1>1 DEF wireVars, link
  <2>2. Start => Start'
    BY <2>1 DEF Start, Empty, Fresh, Small
  <2>3. \A m : UserInv(m) => UserInv(m)'
    BY <2>1 DEF UserInv, Alone, Passed, Ahead, Delivered, Empty
  <2>4. \A m : SignalInv(m) => SignalInv(m)'
    <3> SUFFICES ASSUME NEW m, SignalInv(m) PROVE SignalInv(m)'
      OBVIOUS
    <3>1. Building(m) => Building(m)'
      BY <2>1 DEF Building, Empty, Fresh, Layout
    <3>2. Prepended(m) => Prepended(m)'
      BY <2>1 DEF Prepended, Empty, Fresh, Layout
    <3>3. InTransit(m) => InTransit(m)'
      BY <2>1 DEF InTransit, Fresh, Layout, Moving, Reading
    <3>4. Arrived(m) => Arrived(m)'
      BY <2>1 DEF Arrived, Empty, Fresh, Layout
    <3>5. Unpacking(m) => Unpacking(m)'
      BY <2>1 DEF Unpacking, Empty, Layout, Taken
    <3>6. Half(m) => Half(m)'
      BY <2>1 DEF Half, Empty
    <3>7. Ended(m) => Ended(m)'
      BY <2>1 DEF Ended, Empty, Fresh
    <3> QED
      BY <3>1, <3>2, <3>3, <3>4, <3>5, <3>6, <3>7 DEF SignalInv
  <2> QED
    BY <2>1, <2>2, <2>3, <2>4 DEF WireInv
<1>2. CASE WireNext
  <2>1. ASSUME msg' \in Messages, Start' PROVE WireInv'
    BY <2>1 DEF WireInv
  <2>2. CASE msg = "none"
    <3>1. Start
      <4>1. "none" \notin Signals
        BY DEF Signals, RanAppends, MmeAppends, HssAppends, SgwAppends, PgwAppends
      <4> QED
        BY <2>2, <4>1 DEF WireInv
    <3>2. Done /\ Empty /\ Small
      BY <2>2, <3>1 DEF Done, Start
    <3> QED
      BY <1>2, <2>1, <3>2, Over
  <2>3. CASE msg \in Signals
    <3>1. msg # "sec_cmd" /\ msg \in Messages
      <4>1. "none" \notin Signals
        BY DEF Signals, RanAppends, MmeAppends, HssAppends, SgwAppends, PgwAppends
      <4> QED
        BY <2>3, <4>1 DEF WireInv
    <3>2. msg \notin {"uplink", "downlink"}
      BY <2>3, UserPrograms
    <3>3. PICK m : m = msg
      OBVIOUS
    <3>4. ASSUME msg' = m, SignalInv(m)' PROVE WireInv'
      BY <2>3, <3>1, <3>3, <3>4 DEF WireInv
    <3>5. CASE Start
      BY <1>2, <2>3, <3>1, <3>3, <3>4, <3>5, StartSignal DEF SignalInv
    <3>6. CASE Building(m)
      BY <1>2, <2>3, <3>1, <3>3, <3>4, <3>6, BuildingStep DEF SignalInv
    <3>7. CASE Prepended(m)
      BY <1>2, <2>3, <3>1, <3>3, <3>4, <3>7, PrependedStep DEF SignalInv
    <3>8. CASE InTransit(m)
      BY <1>2, <2>3, <3>1, <3>3, <3>4, <3>8, TransitStep DEF SignalInv
    <3>9. CASE Arrived(m)
      BY <1>2, <2>3, <3>1, <3>3, <3>4, <3>9, ArrivedStep DEF SignalInv
    <3>10. CASE Unpacking(m)
      BY <1>2, <2>1, <2>3, <3>1, <3>3, <3>4, <3>10, UnpackingStep DEF SignalInv
    <3>11. CASE Half(m)
      BY <1>2, <2>1, <2>3, <3>1, <3>3, <3>4, <3>11, HalfStep DEF SignalInv
    <3>12. CASE Ended(m)
      BY <1>2, <2>1, <2>3, <3>1, <3>3, <3>12, EndedStep
    <3> QED
      BY <3>2, <3>3, <3>5, <3>6, <3>7, <3>8, <3>9, <3>10, <3>11, <3>12 DEF WireInv, SignalInv
  <2>4. CASE msg \in {"uplink", "downlink"}
    <3>1. msg \notin Signals /\ msg \in Messages
      BY <2>4, UserPrograms DEF WireInv
    <3>2. PICK m : m = msg
      OBVIOUS
    <3>3. ASSUME msg' = m, UserInv(m)' PROVE WireInv'
      BY <2>4, <3>1, <3>2, <3>3 DEF WireInv
    <3>4. CASE Start
      BY <1>2, <2>4, <3>2, <3>3, <3>4, StartUser
    <3>5. CASE UserInv(m)
      BY <1>2, <2>1, <2>4, <3>2, <3>3, <3>5, UserStep
    <3> QED
      BY <3>1, <3>2, <3>4, <3>5 DEF WireInv
  <2>5. msg = "none" \/ msg \in Signals \/ msg \in {"uplink", "downlink"}
    BY MessagesAssumption, UserPrograms DEF WireInv
  <2> QED
    BY <2>2, <2>3, <2>4, <2>5
<1> QED
  BY <1>1, <1>2

(* Every message, at every place of its program, has the layout that       *)
(* WireInv says: its pieces in order behind its header, whole or on the    *)
(* way in order, taken out from the front (Packet, SctpClient::snd,        *)
(* read_stream, UdpClient). The command of the security mode is left out:  *)
(* its receiver reads a field more than its sender puts in when HMAC is    *)
(* off (run WireHmac).                                                     *)
THEOREM WireInvariant ==
  ASSUME "sec_cmd" \notin Messages
  PROVE  WireSpec => []WireInv
<1>1. WireInit => WireInv
  BY InvStarts
<1>2. WireInv /\ [WireNext]_wireVars => WireInv'
  BY InvStays
<1> QED
  BY <1>1, <1>2, PTL DEF WireSpec

(* By the layout, what is out is what was put in.                          *)
LEMMA InvFields ==
  ASSUME "sec_cmd" \notin Messages, WireInv
  PROVE  FieldsAgree
<1> SUFFICES ASSUME ~HalfMessage PROVE FieldsAgree
  BY DEF FieldsAgree
<1>1. ASSUME Fresh PROVE FieldsAgree
  BY <1>1 DEF Fresh, FieldsAgree
<1>2. CASE Start
  BY <1>1, <1>2 DEF Start
<1>3. CASE msg \in Signals /\ SignalInv(msg)
  <2>1. PICK m : m = msg
    OBVIOUS
  <2>2. m # "sec_cmd" /\ m \in Signals
    <3>1. "none" # "sec_cmd"
      OBVIOUS
    <3> QED
      BY <1>3, <2>1, <3>1 DEF WireInv
  <2>3. CASE Building(m) \/ Prepended(m) \/ InTransit(m) \/ Arrived(m) \/ Ended(m)
    BY <1>1, <2>3 DEF Building, Prepended, InTransit, Arrived, Ended
  <2>4. CASE Half(m)
    BY <2>1, <2>4 DEF Half, HalfMessage
  <2>5. CASE Unpacking(m)
    <3>1. hdr = Hd(m) /\ Got(sent, got)
      BY <2>5 DEF Unpacking
    <3>2. Hd(m) = Bytes(Header, Len(Hd(m)))
      <4>1. Len(Hd(m)) = HDR_LEN[HeaderOf(m)]
        BY <2>2, Signal
      <4> QED
        BY <4>1 DEF Hd
    <3>3. PICK b, at, off : Layout(m, Len(Appended(m)), b, at, off)
      BY <2>5 DEF Unpacking
    <3>4. sent \in Seq(Piece) /\ got \in Seq(Seq(Byte)) /\ Len(got) <= Len(sent)
      BY <3>1, <3>3 DEF Layout, Laid, Got
    <3>5. ASSUME NEW k \in DOMAIN got PROVE k \in DOMAIN sent /\ got[k] = Bytes(k, sent[k].w)
      <4>1. /\ DOMAIN got = 1 .. Len(got) /\ DOMAIN sent = 1 .. Len(sent)
            /\ Len(got) \in Nat /\ Len(sent) \in Nat
        BY <3>4
      <4> QED
        BY <3>1, <3>4, <4>1 DEF Got
    <3> QED
      BY <3>1, <3>2, <3>5 DEF FieldsAgree
  <2> QED
    BY <1>3, <2>1, <2>3, <2>4, <2>5 DEF SignalInv
<1>4. CASE UserInv(msg)
  <2>1. PICK n \in PayloadLens : sent = <<[w |-> n, v |-> 0]>> /\ got \in {<<>>, <<Bytes(1, n)>>}
    BY <1>4 DEF UserInv, Alone, Passed, Ahead, Delivered
  <2>2. hdr # <<>> => hdr = Bytes(Header, Len(hdr))
    <3>1. Len(Gtp) = HDR_LEN.gtp
      BY Payload
    <3> QED
      BY <1>4, <3>1 DEF UserInv, Gtp
  <2>3. ASSUME NEW k \in DOMAIN got PROVE k \in DOMAIN sent /\ got[k] = Bytes(k, sent[k].w)
    BY <2>1
  <2> QED
    BY <2>2, <2>3 DEF FieldsAgree
<1> QED
  BY <1>2, <1>3, <1>4 DEF WireInv

(* By the layout, no position is behind the buffer's end.                  *)
LEMMA InvBuffer ==
  ASSUME "sec_cmd" \notin Messages, WireInv
  PROVE  InBuffer
<1>1. ASSUME NEW w \in Seq(Byte), NEW ptr, pkt = Pkt(w, ptr), Len(w) <= BUF_SIZE, ptr <= Len(w)
      PROVE  InBuffer
  BY <1>1 DEF InBuffer, Pkt
<1>2. CASE Start
  BY <1>2 DEF Start, Small, InBuffer
<1>3. CASE msg \in Signals /\ SignalInv(msg)
  <2>1. PICK m : m = msg
    OBVIOUS
  <2>2. m # "sec_cmd" /\ m \in Signals
    <3>1. "none" # "sec_cmd"
      OBVIOUS
    <3> QED
      BY <1>3, <2>1, <3>1 DEF WireInv
  <2>3. \A x \in 0 .. 263 : x <= BUF_SIZE /\ x <= x /\ 0 <= x
    BY DEF BUF_SIZE
  <2>4. CASE Building(m)
    <3>1. PICK b, at, off : Layout(m, pc - 2, b, at, off) /\ pkt = Pkt(b, Len(b))
      BY <2>4 DEF Building
    <3>2. b \in Seq(Byte) /\ Len(b) <= 19 * (pc - 2)
      BY <3>1 DEF Layout, Laid
    <3>3. Len(Appended(m)) \in Nat /\ Len(Appended(m)) <= 13 /\ pc \in 2 .. Len(Appended(m)) + 2
      BY <2>2, <2>4, Signal DEF Good, Building
    <3>4. Len(b) \in 0 .. 263
      <4>1. PICK x, y, z : x = Len(b) /\ y = pc /\ z = Len(Appended(m))
        OBVIOUS
      <4>2. x \in Nat /\ x <= 19 * (y - 2) /\ z \in Nat /\ z <= 13 /\ y \in 2 .. z + 2
        BY <4>1, <3>2, <3>3
      <4>3. x \in 0 .. 263
        BY <4>2
      <4> QED
        BY <4>1, <4>3
    <3> QED
      BY <1>1, <2>3, <3>1, <3>2, <3>4
  <2>5. ASSUME NEW b, NEW at, NEW off, Layout(m, Len(Appended(m)), b, at, off)
        PROVE  /\ Whole(m, b) \in Seq(Byte) /\ Len(Whole(m, b)) <= BUF_SIZE
               /\ Len(Whole(m, b)) \in Nat
               /\ b \in Seq(Byte) /\ Len(Whole(m, b)) = Len(Hd(m)) + Len(b)
               /\ Len(Hd(m)) \in Nat
    <3>1. Whole(m, b) \in Seq(Byte) /\ Len(Whole(m, b)) \in 4 .. 263 /\ b \in Seq(Byte)
          /\ Len(Whole(m, b)) = Len(Hd(m)) + Len(b) /\ Hd(m) \in Seq(Byte)
      BY <2>2, <2>5, WholeType
    <3>2. \A x \in 4 .. 263 : x \in Nat /\ x <= BUF_SIZE
      BY DEF BUF_SIZE
    <3>3. Len(Hd(m)) \in Nat
      BY <3>1
    <3> QED
      BY <3>1, <3>2, <3>3
  <2>6. CASE Prepended(m)
    <3>1. PICK b, at, off : /\ Layout(m, Len(Appended(m)), b, at, off)
                            /\ pkt = Pkt(Whole(m, b), Len(Whole(m, b)))
      BY <2>6 DEF Prepended
    <3>2. Len(Whole(m, b)) <= Len(Whole(m, b))
      BY <2>5, <3>1
    <3> QED
      BY <1>1, <2>5, <3>1, <3>2
  <2>7. CASE Arrived(m)
    <3>1. PICK b, at, off : Layout(m, Len(Appended(m)), b, at, off) /\ pkt = Pkt(Whole(m, b), 0)
      BY <2>7 DEF Arrived
    <3>2. 0 <= Len(Whole(m, b))
      BY <2>5, <3>1
    <3> QED
      BY <1>1, <2>5, <3>1, <3>2
  <2>8. CASE Unpacking(m)
    <3>1. PICK b, at, off : /\ Layout(m, Len(Appended(m)), b, at, off)
                            /\ pkt = Pkt(Whole(m, b), Len(Hd(m)) + off[at[Taken(m)]])
                            /\ Len(got) = at[Taken(m)]
      BY <2>8 DEF Unpacking
    <3>2. off \in [0 .. Len(sent) -> 0 .. Len(b)] /\ sent \in Seq(Piece)
      BY <3>1 DEF Layout, Laid
    <3>3. got \in Seq(Seq(Byte)) /\ Len(got) <= Len(sent)
      BY <2>8 DEF Unpacking, Got
    <3>4. Len(got) \in 0 .. Len(sent) /\ Len(b) \in Nat
      BY <2>5, <3>1, <3>2, <3>3
    <3>5. off[Len(got)] \in 0 .. Len(b)
      BY <3>2, <3>4
    <3>6. Len(Hd(m)) + off[at[Taken(m)]] <= Len(Whole(m, b))
      <4>1. PICK x, y, z, u : /\ x = Len(Hd(m)) /\ y = off[Len(got)]
                              /\ z = Len(b) /\ u = Len(Whole(m, b))
        OBVIOUS
      <4>2. x \in Nat /\ z \in Nat /\ y \in 0 .. z /\ u = x + z
        BY <4>1, <2>5, <3>1, <3>4, <3>5
      <4>3. x + y <= u
        BY <4>2
      <4> QED
        BY <4>1, <4>3, <3>1
    <3> QED
      BY <1>1, <2>5, <3>1, <3>6
  <2>9. CASE InTransit(m)
    <3>1. PICK b, at, off : Layout(m, Len(Appended(m)), b, at, off) /\ Moving(Whole(m, b))
      BY <2>9 DEF InTransit
    <3>2. PICK v, n : Reading(v, n) /\ n \in Nat /\ n <= BUF_SIZE
      <4>1. 4 \in Nat /\ 4 <= BUF_SIZE
        BY DEF BUF_SIZE
      <4>2. Len(Whole(m, b)) \in Nat /\ Len(Whole(m, b)) <= BUF_SIZE
        BY <2>5, <3>1
      <4> QED
        BY <3>1, <4>1, <4>2 DEF Moving
    <3>3. /\ Parts(v, pkt.data, stream, out, closed) /\ rem = n - Len(pkt.data) /\ rem > 0
          /\ pkt = [data |-> pkt.data, data_ptr |-> 0, len |-> 0]
      BY <3>2 DEF Reading
    <3>4. pkt.data \in Seq(Byte)
      BY <3>3 DEF Parts
    <3>5. Len(pkt.data) <= BUF_SIZE
      <4>1. PICK x : x = Len(pkt.data)
        OBVIOUS
      <4>2. x \in Nat /\ n - x > 0
        BY <4>1, <3>3, <3>4
      <4>3. x <= BUF_SIZE
        BY <4>2, <3>2 DEF BUF_SIZE
      <4> QED
        BY <4>1, <4>3
    <3>6. pkt.len = 0 /\ pkt.data_ptr = 0
      BY <3>3
    <3> QED
      BY <3>5, <3>6 DEF InBuffer, BUF_SIZE
  <2>10. CASE Half(m)
    <3>1. pkt.len = 0 /\ Len(pkt.data) <= BUF_SIZE /\ HalfMessage
      BY <2>1, <2>10 DEF Half, HalfMessage
    <3> QED
      BY <3>1 DEF InBuffer, BUF_SIZE
  <2>11. CASE Ended(m)
    BY <2>11 DEF Ended, InBuffer, BUF_SIZE
  <2> QED
    BY <1>3, <2>1, <2>4, <2>6, <2>7, <2>8, <2>9, <2>10, <2>11 DEF SignalInv
<1>4. CASE UserInv(msg)
  <2>1. PICK n \in PayloadLens : Alone(n) \/ Passed(n) \/ Ahead(n) \/ Delivered(n)
    BY <1>4 DEF UserInv
  <2> DEFINE b == Bytes(1, n)
             x == Gtp \o b
  <2>2. /\ n \in Nat /\ b \in Seq(Byte) /\ Len(b) = n /\ n <= BUF_SIZE /\ Len(Gtp) = 16
        /\ x \in Seq(Byte) /\ Len(x) <= BUF_SIZE /\ Gtp \in Seq(Byte)
    BY Payload
  <2>3. Len(x) = Len(Gtp) + Len(b)
    <3>1. b \in Seq(Byte) /\ Gtp \in Seq(Byte)
      BY <2>2
    <3> HIDE DEF b
    <3> QED
      BY <3>1, ConcatProperties
  <2>4. PICK ptr : pkt = Pkt(b, 0) \/ (pkt = Pkt(x, ptr) /\ ptr \in {0, Len(Gtp)})
    BY <2>1 DEF Alone, Passed, Ahead, Delivered
  <2> HIDE DEF b, x
  <2>5. CASE pkt = Pkt(b, 0)
    <3>1. 0 <= Len(b) /\ Len(b) <= BUF_SIZE
      BY <2>2
    <3> QED
      BY <1>1, <2>2, <2>5, <3>1
  <2>6. CASE pkt = Pkt(x, ptr) /\ ptr \in {0, Len(Gtp)}
    <3>1. ptr <= Len(x)
      BY <2>2, <2>3, <2>6
    <3> QED
      BY <1>1, <2>2, <2>6, <3>1
  <2> QED
    BY <2>4, <2>5, <2>6
<1> QED
  BY <1>2, <1>3, <1>4 DEF WireInv

(* Every field that is taken out of a message is the field that was put in *)
(* at this place, whichever way the stream cuts the message (append_item,  *)
(* extract_item, write_stream, read_stream).                               *)
THEOREM FieldsAlwaysAgree ==
  ASSUME "sec_cmd" \notin Messages
  PROVE  WireSpec => []FieldsAgree
<1>1. WireInv => FieldsAgree
  BY InvFields
<1> QED
  BY <1>1, WireInvariant, PTL

(* A packet never outgrows the BUF_SIZE bytes, and no program takes out    *)
(* more than came in, unless it went on with half a message (Packet's      *)
(* operations, handle_mme_conn): for every length of strings and of user   *)
(* packets that LengthsAssumption allows.                                  *)
THEOREM AlwaysInBuffer ==
  ASSUME "sec_cmd" \notin Messages
  PROVE  WireSpec => []InBuffer
<1>1. WireInv => InBuffer
  BY InvBuffer
<1> QED
  BY <1>1, WireInvariant, PTL
=============================================================================
