---------------------------- MODULE NrPdcpProofs ----------------------------
(* The safety properties of the receiving PDCP entity and the COUNT it finds *)
(* for a PDU, for every window size and number of HFNs.                      *)
EXTENDS NrPdcpLink, TLAPS

(* The inductive invariant.  Neither RxOrdered nor BufferedOnlyWithTimer   *)
(* is inductive alone: suspend keeps the list when the timer is off, and   *)
(* only BufferedOnlyWithTimer says that the list is then empty; the timer  *)
(* in turn is known to be restarted only because the buffered SDUs are     *)
(* known to lie below rx_next.                                             *)
Inv == TypeOK /\ RxOrdered /\ BufferedOnlyWithTimer

(* COUNT is a nonempty interval from 0.                                    *)
LEMMA CountModPositive ==
  /\ CountMod \in Nat /\ CountMod >= 2
  /\ SnMod \in Nat /\ SnMod >= 2
  /\ MaxTx \in COUNT
<1>1. Window \in Nat /\ HfnMod \in Nat /\ Window >= 1 /\ HfnMod >= 1
  BY PdcpConstants
<1>2. SnMod \in Nat /\ SnMod >= 2
  BY <1>1 DEF SnMod
<1>3. SnMod * HfnMod >= SnMod /\ SnMod * HfnMod \in Nat
  BY <1>1, <1>2
<1>4. MaxTx \in COUNT
  BY PdcpConstants DEF COUNT, CountMod, SnMod
<1> QED
  BY <1>2, <1>3, <1>4 DEF CountMod

(* The COUNT that recv_pdu computes from an SN is a natural number.        *)
LEMMA RcvdCountNat ==
  ASSUME TypeOK, NEW sn \in 0 .. SnMod - 1
  PROVE  RcvdCount(sn) \in Nat
<1>1. rx_deliv \in Nat /\ SnMod \in Nat /\ SnMod >= 2 /\ sn \in Nat
  BY CountModPositive DEF TypeOK, COUNT
<1>2. HfnMod \in Nat /\ HfnMod >= 1
  BY PdcpConstants
<1>3. rx_deliv \div SnMod \in Nat
  BY <1>1
<1>4. RcvdHfn(sn) \in Nat
  <2> DEFINE h == rx_deliv \div SnMod
  <2>1. h \in Nat
    BY <1>3
  <2> HIDE DEF h
  <2>2. (h + 1) % HfnMod \in Nat /\ (h - 1) % HfnMod \in Nat
    BY <2>1, <1>2
  <2>3. RcvdHfn(sn) \in {(h + 1) % HfnMod, (h - 1) % HfnMod, h}
    BY DEF RcvdHfn, h
  <2> QED
    BY <2>1, <2>2, <2>3
<1> QED
  BY <1>1, <1>4 DEF RcvdCount

-----------------------------------------------------------------------------
(* One lemma per action that does more than reset fields.                  *)

(* A received PDU: the loop pops a run that begins at rx_deliv.            *)
LEMMA RecvPduInv ==
  ASSUME ~EarlyPdu, Inv, NEW sn \in 0 .. SnMod - 1, RecvPdu(sn)
  PROVE  Inv'
<1> DEFINE rcvd_count == RcvdCount(sn)
           list == rx_list \cup {rcvd_count}
<1>1. rcvd_count \in Nat /\ rcvd_count + 1 < CountMod /\ CountMod \in Nat
  BY RcvdCountNat, CountModPositive DEF Inv, RecvPdu, NotExhausted
<1>2. /\ alive /\ alive' = alive /\ t_current # 0 /\ t_current' = t_current
      /\ rcvd_count >= rx_deliv /\ rcvd_count \notin rx_list
      /\ rx_next' = IF rcvd_count >= rx_next THEN rcvd_count + 1 ELSE rx_next
      /\ UpdateReordering
      /\ UNCHANGED <<type, infinite, tx_next, entity_suspended>>
  BY DEF RecvPdu, AcceptPdu, config
<1>3. /\ rx_deliv \in COUNT /\ rx_next \in COUNT /\ rx_reord \in COUNT
      /\ rx_list \subseteq COUNT /\ delivered_to \in COUNT
      /\ t_current \in {0, 1} /\ t_reordering_start \in {0, 1}
      /\ rx_deliv <= rx_next
      /\ \A c \in rx_list : rx_deliv < c /\ c < rx_next
      /\ delivered_to <= rx_deliv
      /\ t_reordering_start # 0 => rx_deliv < rx_reord /\ rx_reord <= rx_next
  BY <1>2 DEF Inv, TypeOK, RxOrdered
<1> HIDE DEF rcvd_count
<1>4. PICK m \in COUNT :
        /\ rx_deliv' = m /\ rx_deliv <= m /\ m <= rx_next'
        /\ rx_list' = list \ (rx_deliv .. m - 1)
        /\ m \notin rx_list'
        /\ Deliver(rx_deliv .. m - 1)
  <2>1. CASE rcvd_count # rx_deliv
    <3>1. rx_list' = list /\ rx_deliv' = rx_deliv /\ Deliver({})
      BY <2>1 DEF RecvPdu, rcvd_count
    <3>2. rx_deliv .. rx_deliv - 1 = {}
      BY <1>3 DEF COUNT
    <3>3. rx_deliv <= rx_next' /\ rx_deliv \notin list
      BY <1>1, <1>2, <1>3, <2>1 DEF COUNT
    <3> QED
      BY <1>3, <3>1, <3>2, <3>3 DEF COUNT
  <2>2. CASE rcvd_count = rx_deliv
    <3>1. PICK m \in COUNT : /\ PopRun(list, rx_deliv, m)
                             /\ rx_list' = list \ (rx_deliv .. m - 1)
                             /\ rx_deliv' = m
                             /\ Deliver(list \cap (rx_deliv .. m - 1))
      BY <2>2 DEF RecvPdu, rcvd_count
    <3>2. /\ ~ \E c \in list : c < rx_deliv
          /\ rx_deliv <= m /\ rx_deliv .. m - 1 \subseteq list
      BY <1>1, <1>3, <2>2, <3>1 DEF PopRun, COUNT
    <3>3. m \notin list
      BY <3>1, <3>2 DEF PopRun
    <3>4. m # rx_deliv
      BY <2>2, <3>3
    <3>5. m - 1 \in list
      BY <1>3, <3>2, <3>4 DEF COUNT
    <3>6. m <= rx_next'
      BY <1>1, <1>2, <1>3, <3>5 DEF COUNT
    <3>7. list \cap (rx_deliv .. m - 1) = rx_deliv .. m - 1
      BY <3>2
    <3> QED
      BY <3>1, <3>2, <3>3, <3>6, <3>7
  <2> QED
    BY <2>1, <2>2
<1>5. \A c \in rx_list' : c \in COUNT /\ rx_deliv' < c /\ c < rx_next'
  BY <1>1, <1>2, <1>3, <1>4 DEF COUNT
<1>6. delivered_to' \in COUNT /\ delivered_to' <= rx_deliv'
  BY <1>1, <1>2, <1>3, <1>4 DEF COUNT, Deliver
<1>7. out' \subseteq COUNT
  BY <1>1, <1>2, <1>3, <1>4 DEF COUNT, Deliver
<1>8. rx_next' \in COUNT /\ rx_deliv' \in COUNT
  BY <1>1, <1>2, <1>3, <1>4 DEF COUNT
<1>9. /\ rx_reord' \in COUNT /\ t_reordering_start' \in {0, 1}
      /\ t_reordering_start' # 0 => rx_deliv' < rx_reord' /\ rx_reord' <= rx_next'
      /\ rx_deliv' < rx_next' => t_reordering_start' # 0
  BY <1>1, <1>2, <1>3, <1>4, <1>8 DEF UpdateReordering, COUNT
<1>10. TypeOK'
  BY <1>2, <1>3, <1>5, <1>6, <1>7, <1>8, <1>9 DEF Inv, TypeOK
<1>11. RxOrdered'
  BY <1>4, <1>5, <1>6, <1>9 DEF RxOrdered
<1>12. rx_list' # {} => rx_deliv' < rx_next'
  BY <1>5, <1>8 DEF COUNT
<1> QED
  BY <1>9, <1>10, <1>11, <1>12 DEF Inv, BufferedOnlyWithTimer

(* An expiry: everything below rx_reord goes, then the run from rx_reord.  *)
LEMMA SetTimeExpiredInv ==
  ASSUME Inv, SetTimeExpired
  PROVE  Inv'
<1>1. /\ alive /\ alive' = alive /\ t_current' = 1 /\ t_reordering_start # 0
      /\ UNCHANGED <<type, infinite, tx_next, rx_next, entity_suspended>>
  BY DEF SetTimeExpired, config
<1>2. /\ rx_deliv \in COUNT /\ rx_next \in COUNT /\ rx_reord \in COUNT
      /\ rx_list \subseteq COUNT /\ delivered_to \in COUNT
      /\ rx_deliv < rx_reord /\ rx_reord <= rx_next
      /\ \A c \in rx_list : rx_deliv < c /\ c < rx_next
      /\ delivered_to <= rx_deliv
  BY <1>1 DEF Inv, TypeOK, RxOrdered
<1> DEFINE rest == {c \in rx_list : c >= rx_reord}
<1>3. PICK m \in COUNT : Reordered(m)
  BY DEF SetTimeExpired
<1>4. /\ rx_reord <= m /\ rx_reord .. m - 1 \subseteq rest /\ m \notin rest
      /\ rx_list' = rest \ (rx_reord .. m - 1)
      /\ rx_deliv' = m
      /\ Deliver({c \in rx_list : c < m})
      /\ rx_reord' = IF m < rx_next THEN rx_next ELSE rx_reord
      /\ t_reordering_start' = IF m < rx_next THEN 1 ELSE 0
  BY <1>2, <1>3 DEF Reordered, PopRun, COUNT
<1>5. m <= rx_next
  BY <1>2, <1>4 DEF COUNT
<1>6. \A c \in rx_list' : c \in COUNT /\ m < c /\ c < rx_next
  BY <1>2, <1>4 DEF COUNT
<1>7. delivered_to' \in COUNT /\ delivered_to' <= m
  <2>1. \/ delivered_to' = delivered_to
        \/ \E c \in rx_list : c < m /\ delivered_to' = c + 1
    BY <1>4 DEF Deliver
  <2> QED
    BY <1>2, <1>3, <1>4, <2>1, CountModPositive DEF COUNT
<1>8. out' \subseteq COUNT
  BY <1>2, <1>4 DEF Deliver
<1>9. TypeOK'
  BY <1>1, <1>2, <1>4, <1>6, <1>7, <1>8 DEF Inv, TypeOK
<1>10. RxOrdered'
  BY <1>1, <1>2, <1>4, <1>5, <1>6, <1>7 DEF RxOrdered, COUNT
<1>11. rx_list' # {} => m < rx_next
  BY <1>2, <1>6 DEF COUNT
<1> QED
  BY <1>4, <1>9, <1>10, <1>11 DEF Inv, BufferedOnlyWithTimer

(* Suspend and the re-establishments leave an entity with no SDU.          *)
LEMMA ResetInv ==
  ASSUME Inv, alive, ResetCounts, rx_list' = {}, out' \subseteq rx_list,
         delivered_to' = 0, entity_suspended' \in BOOLEAN,
         UNCHANGED <<config, alive, rx_reord, t_current>>
  PROVE  Inv'
<1>1. 0 \in COUNT /\ 0 <= 0
  BY CountModPositive DEF COUNT
<1>2. TypeOK'
  BY <1>1 DEF Inv, TypeOK, ResetCounts, config
<1>3. RxOrdered' /\ BufferedOnlyWithTimer'
  BY <1>1 DEF RxOrdered, BufferedOnlyWithTimer, ResetCounts
<1> QED
  BY <1>2, <1>3 DEF Inv

(* The other actions reset the reception variables or leave them alone.    *)
LEMMA OtherInv ==
  ASSUME Inv,
         \/ SetTime \/ ProcessSdu \/ Suspend
         \/ ReestablishDrbAm \/ ReestablishDrbUm \/ ReestablishSrb
         \/ Release \/ Add
         \/ \E dl \in COUNT, ul \in 0 .. MaxTx : SetCount(dl, ul)
  PROVE  Inv'
<1> USE CountModPositive DEF Inv, COUNT, config, rxState, Deliver, DeliverAndReset
<1>1. CASE SetTime
  BY <1>1 DEF SetTime, TypeOK, RxOrdered, BufferedOnlyWithTimer
<1>2. CASE ProcessSdu
  BY <1>2 DEF ProcessSdu, TypeOK, RxOrdered, BufferedOnlyWithTimer
<1>3. CASE Suspend
  <2>1. rx_list' = {} /\ out' \subseteq rx_list /\ delivered_to' = 0 /\ alive
    BY <1>3 DEF Suspend, DeliverAllIfRunning, BufferedOnlyWithTimer
  <2>2. entity_suspended' \in BOOLEAN
    BY <1>3, Zenon DEF Suspend
  <2> QED
    BY <1>3, <2>1, <2>2, ResetInv DEF Suspend
<1>4. CASE ReestablishDrbAm
  BY <1>4 DEF ReestablishDrbAm, TypeOK, RxOrdered, BufferedOnlyWithTimer
<1>5. CASE ReestablishDrbUm
  <2>1. rx_list' = {} /\ out' \subseteq rx_list /\ delivered_to' = 0 /\ alive
    BY <1>5 DEF ReestablishDrbUm, DeliverAllIfRunning, BufferedOnlyWithTimer
  <2>2. entity_suspended' \in BOOLEAN
    BY <1>5, Zenon DEF ReestablishDrbUm
  <2> QED
    BY <1>5, <2>1, <2>2, ResetInv DEF ReestablishDrbUm
<1>6. CASE ReestablishSrb
  <2>1. rx_list' = {} /\ out' \subseteq rx_list /\ delivered_to' = 0 /\ alive
    BY <1>6 DEF ReestablishSrb
  <2>2. entity_suspended' \in BOOLEAN
    BY <1>6, Zenon DEF ReestablishSrb
  <2> QED
    BY <1>6, <2>1, <2>2, ResetInv DEF ReestablishSrb
<1>7. CASE Release
  <2>1. alive' \in BOOLEAN /\ ~alive'
    BY <1>7, Zenon DEF Release
  <2>2. TypeOK'
    BY <1>7, <2>1 DEF Release, TypeOK
  <2> QED
    BY <2>1, <2>2 DEF RxOrdered, BufferedOnlyWithTimer
<1>8. CASE Add
  <2>1. alive' \in BOOLEAN /\ entity_suspended' \in BOOLEAN
    BY <1>8, Zenon DEF Add
  <2>2. 0 \in COUNT /\ 0 <= 0
    OBVIOUS
  <2>3. TypeOK'
    BY <1>8, <2>1, <2>2 DEF Add, TypeOK
  <2>4. RxOrdered' /\ BufferedOnlyWithTimer'
    BY <1>8, <2>2 DEF Add, RxOrdered, BufferedOnlyWithTimer
  <2> QED
    BY <2>3, <2>4
<1>9. CASE \E dl \in COUNT, ul \in 0 .. MaxTx : SetCount(dl, ul)
  <2>1. PICK dl \in COUNT, ul \in 0 .. MaxTx : SetCount(dl, ul)
    BY <1>9
  <2>2. rx_list = {} /\ delivered_to = 0 /\ t_reordering_start = 0
    BY <2>1 DEF SetCount, TypeOK, RxOrdered
  <2> QED
    BY <2>1, <2>2 DEF SetCount, NotExhausted, TypeOK, RxOrdered, BufferedOnlyWithTimer
<1> QED
  BY <1>1, <1>2, <1>3, <1>4, <1>5, <1>6, <1>7, <1>8, <1>9

(* A new entity satisfies the invariant.                                   *)
LEMMA InitInv == Init => Inv
<1> SUFFICES ASSUME Init PROVE Inv
  OBVIOUS
<1>1. 0 \in COUNT /\ 0 <= 0
  BY CountModPositive DEF COUNT
<1>2. alive \in BOOLEAN /\ entity_suspended \in BOOLEAN
  BY Zenon DEF Init
<1>3. TypeOK
  BY <1>1, <1>2 DEF Init, TypeOK
<1>4. RxOrdered /\ BufferedOnlyWithTimer
  BY <1>1 DEF Init, RxOrdered, BufferedOnlyWithTimer
<1> QED
  BY <1>3, <1>4 DEF Inv

(* Every step preserves the invariant.                                     *)
LEMMA NextInv ==
  ASSUME ~EarlyPdu, Inv, [Next]_vars
  PROVE  Inv'
<1>1. CASE UNCHANGED vars
  BY <1>1 DEF Inv, TypeOK, RxOrdered, BufferedOnlyWithTimer, vars, config, rxState
<1>2. CASE \E sn \in 0 .. SnMod - 1 : RecvPdu(sn)
  BY <1>2, RecvPduInv
<1>3. CASE SetTimeExpired
  BY <1>3, SetTimeExpiredInv
<1>4. CASE \/ SetTime \/ ProcessSdu \/ Suspend
           \/ ReestablishDrbAm \/ ReestablishDrbUm \/ ReestablishSrb
           \/ Release \/ Add
           \/ \E dl \in COUNT, ul \in 0 .. MaxTx : SetCount(dl, ul)
  BY <1>4, OtherInv
<1> QED
  BY <1>1, <1>2, <1>3, <1>4 DEF Next

(* RxOrdered, with the types, when the clock of the entity has been set    *)
(* before the first PDU: delivered_to <= rx_deliv <= rx_next, the SDUs     *)
(* that are buffered between the last two.                                 *)
THEOREM EntitySafety ==
  ASSUME ~EarlyPdu
  PROVE  Spec => [](TypeOK /\ RxOrdered)
<1>1. Init => Inv
  BY InitInv
<1>2. Inv /\ [Next]_vars => Inv'
  BY NextInv
<1> QED
  BY <1>1, <1>2, PTL DEF Spec, Inv

(* BufferedOnlyWithTimer under the same condition: an SDU waits in the     *)
(* buffer only while t-Reordering runs, whatever recv_pdu, the expiry,     *)
(* suspend and re-establishment do to the two.                             *)
THEOREM EntityBuffered ==
  ASSUME ~EarlyPdu
  PROVE  Spec => []BufferedOnlyWithTimer
<1>1. Init => Inv
  BY InitInv
<1>2. Inv /\ [Next]_vars => Inv'
  BY NextInv
<1> QED
  BY <1>1, <1>2, PTL DEF Spec, Inv

-----------------------------------------------------------------------------
(* What a step delivers was buffered or is the PDU just received, hence is *)
(* not below rx_deliv, hence is above all that was delivered before.       *)
LEMMA StepInOrder ==
  ASSUME Inv, [Next]_vars, vars' # vars
  PROVE  \A c \in out' : delivered_to <= c
<1> SUFFICES ASSUME NEW c \in out'
             PROVE  delivered_to <= c
  OBVIOUS
<1>1. CASE \E sn \in 0 .. SnMod - 1 : RecvPdu(sn)
  <2>1. out' = {} \/ \E m \in COUNT : out' \subseteq rx_deliv .. m - 1
    BY <1>1 DEF RecvPdu, Deliver
  <2>2. delivered_to <= rx_deliv /\ delivered_to \in COUNT /\ rx_deliv \in COUNT
    BY <1>1 DEF RecvPdu, Inv, RxOrdered, TypeOK
  <2> QED
    BY <2>1, <2>2 DEF COUNT
<1>2. CASE out' \subseteq rx_list /\ alive
  BY <1>2 DEF Inv, RxOrdered, TypeOK, COUNT
<1>3. CASE out' = {}
  BY <1>3
<1>4. SetTimeExpired => out' \subseteq rx_list /\ alive
  BY DEF SetTimeExpired, Reordered, Deliver
<1>5. Suspend \/ ReestablishDrbUm \/ Release => out' \subseteq rx_list /\ alive
  BY DEF Suspend, ReestablishDrbUm, Release, DeliverAllIfRunning, DeliverAndReset
<1>6. SetTime \/ ProcessSdu \/ ReestablishDrbAm \/ ReestablishSrb \/ Add => out' = {}
  BY DEF SetTime, ProcessSdu, ReestablishDrbAm, ReestablishSrb, Add,
         Deliver, DeliverAndReset
<1>7. (\E dl \in COUNT, ul \in 0 .. MaxTx : SetCount(dl, ul)) => out' = {}
  BY DEF SetCount, Deliver
<1> QED
  BY <1>1, <1>2, <1>3, <1>4, <1>5, <1>6, <1>7 DEF Next

(* Upper layers get the SDUs of a PDCP entity in COUNT order, none twice.  *)
THEOREM EntityInOrder ==
  ASSUME ~EarlyPdu
  PROVE  Spec => InOrderDelivery
<1>1. Init => Inv
  BY InitInv
<1>2. Inv /\ [Next]_vars => Inv'
  BY NextInv
<1>3. Inv /\ [Next]_vars => [\A c \in out' : delivered_to <= c]_vars
  BY StepInOrder
<1> QED
  BY <1>1, <1>2, <1>3, PTL DEF Spec, InOrderDelivery

(* A reception never gives a missing COUNT up: what rx_deliv passes is     *)
(* delivered, except in an expiry or in the COUNT transfer of a handover.  *)
THEOREM EntitySkip ==
  ASSUME ~EarlyPdu
  PROVE  Spec => SkipOnlyOnExpiry
<1> DEFINE Skip == \A c \in COUNT :
                      /\ rx_deliv <= c /\ c < rx_deliv'
                      /\ c \notin out'
                      => SetTimeExpired \/ \E dl \in COUNT, ul \in 0 .. MaxTx : SetCount(dl, ul)
<1>1. Init => Inv
  BY InitInv
<1>2. Inv /\ [Next]_vars => Inv'
  BY NextInv
<1>3. Inv /\ [Next]_vars => [Skip]_vars
  <2> SUFFICES ASSUME Inv, Next, ~SetTimeExpired,
                      ~ \E dl \in COUNT, ul \in 0 .. MaxTx : SetCount(dl, ul),
                      NEW c \in COUNT, rx_deliv <= c, c < rx_deliv'
               PROVE  c \in out'
    OBVIOUS
  <2>1. rx_deliv \in COUNT /\ CountMod \in Nat
    BY CountModPositive DEF Inv, TypeOK
  <2>2. CASE rx_deliv' = rx_deliv \/ rx_deliv' = 0
    BY <2>1, <2>2 DEF COUNT
  <2>3. CASE \E m \in COUNT : rx_deliv' = m /\ out' = rx_deliv .. m - 1
    BY <2>1, <2>3 DEF COUNT
  <2>4. ASSUME NEW sn \in 0 .. SnMod - 1, RecvPdu(sn)
        PROVE  \/ rx_deliv' = rx_deliv
               \/ \E m \in COUNT : rx_deliv' = m /\ out' = rx_deliv .. m - 1
    <3>1. CASE RcvdCount(sn) # rx_deliv
      BY <2>4, <3>1 DEF RecvPdu
    <3>2. CASE RcvdCount(sn) = rx_deliv
      <4> DEFINE list == rx_list \cup {RcvdCount(sn)}
      <4>1. PICK m \in COUNT : /\ PopRun(list, rx_deliv, m)
                               /\ rx_deliv' = m
                               /\ Deliver(list \cap (rx_deliv .. m - 1))
        BY <2>4, <3>2 DEF RecvPdu
      <4>2. list \cap (rx_deliv .. m - 1) = rx_deliv .. m - 1
        BY <4>1 DEF PopRun
      <4> QED
        BY <4>1, <4>2 DEF Deliver
    <3> QED
      BY <3>1, <3>2
  <2>5. \/ SetTime \/ ProcessSdu \/ Suspend
        \/ ReestablishDrbAm \/ ReestablishDrbUm \/ ReestablishSrb
        \/ Release \/ Add
        => rx_deliv' = rx_deliv \/ rx_deliv' = 0
    BY DEF SetTime, ProcessSdu, Suspend, ReestablishDrbAm, ReestablishDrbUm,
           ReestablishSrb, Release, Add, rxState, ResetCounts
  <2> QED
    BY <2>2, <2>3, <2>4, <2>5 DEF Next
<1> QED
  BY <1>1, <1>2, <1>3, PTL DEF Spec, SkipOnlyOnExpiry

-----------------------------------------------------------------------------
-----------------------------------------------------------------------------
(* Division with remainder, in the form used below.                        *)
LEMMA DivMod ==
  ASSUME NEW n \in Nat, NEW S \in Nat, S >= 2
  PROVE  /\ n \div S \in Nat /\ n % S \in 0 .. S - 1
         /\ n = S * (n \div S) + (n % S)
  OBVIOUS

(* A multiple of S strictly between (e - 1) S and (e + 1) S is e S.        *)
LEMMA MultipleBetween ==
  ASSUME NEW S \in Nat, S >= 2, NEW e \in Int
  PROVE  /\ 0 < S * e /\ S * e < 2 * S => e = 1
         /\ 0 > S * e /\ S * e > -(2 * S) => e = -1
         /\ -S < S * e /\ S * e < S => e = 0
<1>1. e >= 2 => S * e >= 2 * S
  OBVIOUS
<1>2. e >= 1 => S * e >= S
  OBVIOUS
<1>3. e <= -2 => S * e <= -(2 * S)
  OBVIOUS
<1>4. e <= -1 => S * e <= -S
  OBVIOUS
<1>5. e = 0 => S * e = 0
  OBVIOUS
<1> QED
  BY <1>1, <1>2, <1>3, <1>4, <1>5

(* The HFN guess of recv_pdu is right for a COUNT that lies less than a    *)
(* window above rx_deliv and at most a window below it.                    *)
LEMMA RcvdCountExact ==
  ASSUME rx_deliv \in COUNT, NEW p \in COUNT,
         rx_deliv <= p + Window, p < rx_deliv + Window
  PROVE  RcvdCount(p % SnMod) = p
<1> DEFINE S == SnMod
           h == rx_deliv \div S
           s == rx_deliv % S
           k == p \div S
           r == p % S
<1>1. /\ Window \in Nat /\ Window >= 1 /\ S = 2 * Window /\ S \in Nat /\ S >= 2
      /\ HfnMod \in Nat /\ HfnMod >= 1
  BY PdcpConstants DEF SnMod
<1>2. /\ rx_deliv \in Nat /\ p \in Nat /\ p < S * HfnMod
      /\ rx_deliv < S * HfnMod
  BY CountModPositive DEF COUNT, CountMod
<1>3. /\ h \in Nat /\ s \in 0 .. S - 1 /\ rx_deliv = S * h + s
      /\ k \in Nat /\ r \in 0 .. S - 1 /\ p = S * k + r
  BY <1>1, <1>2, DivMod
<1>4. RcvdCount(r) = (IF r < s - Window THEN (h + 1) % HfnMod
                      ELSE IF r >= s + Window THEN (h - 1) % HfnMod
                      ELSE h) * S + r
  BY DEF RcvdCount, RcvdHfn
<1> HIDE DEF S, h, s, k, r
<1>5. k < HfnMod
  <2> SUFFICES ASSUME k >= HfnMod PROVE FALSE
    BY <1>1, <1>3
  <2>1. S * k >= S * HfnMod
    BY <1>1, <1>3
  <2> QED
    BY <1>1, <1>2, <1>3, <2>1
<1>6. k % HfnMod = k
  BY <1>1, <1>3, <1>5
<1>7. S * (k - h) = (p - r) - (rx_deliv - s) /\ k - h \in Int
  BY <1>1, <1>3
<1>8. CASE r < s - Window
  <2>1. 0 < S * (k - h) /\ S * (k - h) < 2 * S
    BY <1>1, <1>2, <1>3, <1>7, <1>8
  <2>2. k = h + 1
    BY <1>1, <1>3, <1>7, <2>1, MultipleBetween
  <2> QED
    BY <1>1, <1>3, <1>4, <1>6, <1>8, <2>2 DEF r, S
<1>9. CASE r >= s + Window
  <2>1. 0 > S * (k - h) /\ S * (k - h) > -(2 * S)
    BY <1>1, <1>2, <1>3, <1>7, <1>9
  <2>2. k = h - 1
    BY <1>1, <1>3, <1>7, <2>1, MultipleBetween
  <2>3. ~ (r < s - Window)
    BY <1>1, <1>3, <1>9
  <2> QED
    BY <1>1, <1>3, <1>4, <1>6, <1>9, <2>2, <2>3 DEF r, S
<1>10. CASE ~ (r < s - Window) /\ ~ (r >= s + Window)
  <2>1. -S < S * (k - h) /\ S * (k - h) < S
    BY <1>1, <1>2, <1>3, <1>7, <1>10
  <2>2. k = h
    BY <1>1, <1>3, <1>7, <2>1, MultipleBetween
  <2> QED
    BY <1>1, <1>3, <1>4, <1>6, <1>10, <2>2 DEF r, S
<1> QED
  BY <1>8, <1>9, <1>10

-----------------------------------------------------------------------------
(* What relates the two ends: nothing in flight or received is above what  *)
(* was sent, and the sender is at most a window above what the receiver    *)
(* waits for and above the oldest PDU in flight.                           *)
WindowInv ==
  /\ peer_tx_next \in COUNT
  /\ rx_next <= peer_tx_next
  /\ peer_tx_next <= rx_deliv + Window
  /\ \A p \in net : p \in COUNT /\ p < peer_tx_next /\ peer_tx_next <= p + Window
  /\ alive

LinkInv == Inv /\ WindowInv

(* The invariant puts every PDU in flight in the range of RcvdCountExact.  *)
LEMMA LinkInvDecode == LinkInv => DecodeExact
<1> SUFFICES ASSUME LinkInv, NEW p \in net
             PROVE  RcvdCount(p % SnMod) = p
  BY DEF DecodeExact
<1>1. /\ rx_deliv \in COUNT /\ p \in COUNT /\ rx_next \in COUNT /\ Window \in Nat
      /\ peer_tx_next \in COUNT
      /\ rx_deliv <= rx_next /\ rx_next <= peer_tx_next
      /\ peer_tx_next <= p + Window /\ p < peer_tx_next
      /\ peer_tx_next <= rx_deliv + Window
  BY PdcpConstants DEF LinkInv, WindowInv, Inv, TypeOK, RxOrdered
<1>2. rx_deliv <= p + Window /\ p < rx_deliv + Window
  BY <1>1 DEF COUNT
<1> QED
  BY <1>1, <1>2, RcvdCountExact

(* Neither a reception nor an expiry moves rx_deliv back; rx_next moves    *)
(* only to just above the COUNT received.                                  *)
LEMMA RxMonotonic ==
  ASSUME Inv, alive
  PROVE  /\ \A sn \in 0 .. SnMod - 1 : RecvPdu(sn) =>
              /\ rx_deliv <= rx_deliv' /\ alive'
              /\ rx_next' \in {rx_next, RcvdCount(sn) + 1}
         /\ SetTime => rx_deliv' = rx_deliv /\ rx_next' = rx_next /\ alive'
         /\ SetTimeExpired => rx_deliv <= rx_deliv' /\ rx_next' = rx_next /\ alive'
<1>1. rx_deliv \in Int
  BY DEF Inv, TypeOK, COUNT
<1>2. ASSUME NEW sn \in 0 .. SnMod - 1, RecvPdu(sn)
      PROVE  rx_deliv <= rx_deliv' /\ alive' /\ rx_next' \in {rx_next, RcvdCount(sn) + 1}
  <2>1. rx_deliv' = rx_deliv \/ \E m \in COUNT : rx_deliv <= m /\ rx_deliv' = m
    BY <1>2 DEF RecvPdu, PopRun
  <2>2. rx_next' \in {rx_next, RcvdCount(sn) + 1} /\ alive'
    BY <1>2 DEF RecvPdu
  <2> QED
    BY <1>1, <2>1, <2>2
<1>3. SetTime => rx_deliv' = rx_deliv /\ rx_next' = rx_next /\ alive'
  BY DEF SetTime, rxState
<1>4. ASSUME SetTimeExpired
      PROVE  rx_deliv <= rx_deliv' /\ rx_next' = rx_next /\ alive'
  <2>1. PICK m \in COUNT : rx_reord <= m /\ rx_deliv' = m
    BY <1>4 DEF SetTimeExpired, Reordered, PopRun
  <2>2. rx_deliv < rx_reord /\ rx_reord \in COUNT
    BY <1>4 DEF SetTimeExpired, Inv, RxOrdered, TypeOK
  <2> QED
    BY <1>1, <1>4, <2>1, <2>2 DEF SetTimeExpired, COUNT
<1> QED
  BY <1>2, <1>3, <1>4

(* A bound is kept when what it is measured from moves up.                 *)
LEMMA BoundMonotonic ==
  ASSUME NEW x \in Nat, NEW d \in Nat, NEW e \in Nat, NEW w \in Nat,
         x <= d + w, d <= e
  PROVE  x <= e + w
  OBVIOUS

(* The invariant of the link is inductive.                                 *)
LEMMA LinkNextInv ==
  ASSUME ~EarlyPdu, LinkInv, [LinkNext]_linkVars
  PROVE  LinkInv'
<1>1. Inv /\ WindowInv /\ alive /\ DecodeExact
  BY LinkInvDecode DEF LinkInv, WindowInv
<1>2. /\ peer_tx_next \in Nat /\ rx_next \in Nat /\ rx_deliv \in Nat
      /\ Window \in Nat /\ Window >= 1 /\ CountMod \in Nat
      /\ \A p \in net : p \in Nat /\ p < peer_tx_next
      /\ rx_next <= peer_tx_next /\ peer_tx_next <= rx_deliv + Window
  BY <1>1, PdcpConstants, CountModPositive DEF WindowInv, Inv, TypeOK, COUNT
<1>3. CASE UNCHANGED linkVars
  <2>1. UNCHANGED vars /\ UNCHANGED <<peer_tx_next, net>>
    BY <1>3 DEF linkVars
  <2>2. Inv'
    BY <1>1, <2>1, NextInv
  <2>3. UNCHANGED <<rx_next, rx_deliv, alive, peer_tx_next, net>>
    BY <2>1 DEF vars, rxState
  <2> QED
    BY <1>1, <2>2, <2>3 DEF LinkInv, WindowInv
<1>4. CASE PeerSend
  <2>1. Inv'
    BY <1>1, <1>4, NextInv DEF PeerSend
  <2>2. /\ peer_tx_next' = peer_tx_next + 1 /\ net' = net \cup {peer_tx_next}
        /\ UNCHANGED <<rx_next, rx_deliv, alive>>
        /\ peer_tx_next < rx_deliv + Window
        /\ \A p \in net : peer_tx_next < p + Window
        /\ peer_tx_next + 1 < CountMod
    BY <1>4 DEF PeerSend, InWindow, NotExhausted, vars, rxState
  <2>3. peer_tx_next' \in COUNT /\ rx_next' <= peer_tx_next' /\ peer_tx_next' <= rx_deliv' + Window
    BY <1>1, <1>2, <2>2 DEF WindowInv, COUNT
  <2>4. \A p \in net' : p \in COUNT /\ p < peer_tx_next' /\ peer_tx_next' <= p + Window
    BY <1>1, <1>2, <2>2 DEF WindowInv, COUNT
  <2> QED
    BY <1>1, <2>1, <2>2, <2>3, <2>4 DEF LinkInv, WindowInv
<1>5. ASSUME NEW p \in net, NetDeliver(p)
      PROVE  LinkInv'
  <2>1. net' \subseteq net /\ peer_tx_next' = peer_tx_next
    BY <1>5 DEF NetDeliver
  <2>2. CASE UNCHANGED vars
    <3>1. Inv'
      BY <1>1, <2>2, NextInv
    <3>2. UNCHANGED <<rx_next, rx_deliv, alive>>
      BY <2>2 DEF vars, rxState
    <3> QED
      BY <1>1, <2>1, <3>1, <3>2 DEF LinkInv, WindowInv
  <2>3. CASE RecvPdu(p % SnMod)
    <3>1. p % SnMod \in 0 .. SnMod - 1
      BY <1>2, CountModPositive, DivMod
    <3>2. Inv'
      BY <1>1, <2>3, <3>1, RecvPduInv
    <3>3. RcvdCount(p % SnMod) = p
      BY <1>1 DEF DecodeExact
    <3>4. rx_deliv <= rx_deliv' /\ rx_next' \in {rx_next, p + 1}
      BY <1>1, <2>3, <3>1, <3>3, RxMonotonic
    <3>5. rx_deliv' \in Nat
      BY <3>2, CountModPositive DEF Inv, TypeOK, COUNT
    <3>6. rx_next' <= peer_tx_next' /\ peer_tx_next' <= rx_deliv' + Window
      <4>1. p + 1 <= peer_tx_next /\ rx_next' <= peer_tx_next
        BY <1>2, <1>5, <3>4
      <4>2. peer_tx_next <= rx_deliv' + Window
        BY <1>2, <3>4, <3>5, BoundMonotonic
      <4> QED
        BY <2>1, <4>1, <4>2
    <3>7. alive'
      BY <1>1, <2>3, <3>1, RxMonotonic
    <3> QED
      BY <1>1, <2>1, <3>2, <3>6, <3>7 DEF LinkInv, WindowInv
  <2> QED
    BY <1>5, <2>2, <2>3 DEF NetDeliver
<1>6. ASSUME NEW p \in net, NetLose(p)
      PROVE  LinkInv'
  <2>1. Inv'
    BY <1>1, <1>6, NextInv DEF NetLose
  <2>2. net' \subseteq net /\ UNCHANGED <<rx_next, rx_deliv, alive, peer_tx_next>>
    BY <1>6 DEF NetLose, vars, rxState
  <2> QED
    BY <1>1, <2>1, <2>2 DEF LinkInv, WindowInv
<1>7. CASE Tick
  <2>1. Inv'
    BY <1>1, <1>7, NextInv DEF Tick, Next
  <2>2. /\ rx_deliv <= rx_deliv' /\ rx_next' = rx_next
        /\ UNCHANGED <<peer_tx_next, net>>
    BY <1>1, <1>2, <1>7, RxMonotonic DEF Tick
  <2>3. rx_deliv' \in Nat
    BY <2>1, CountModPositive DEF Inv, TypeOK, COUNT
  <2>4. rx_next' <= peer_tx_next' /\ peer_tx_next' <= rx_deliv' + Window
    <3>1. rx_next' <= peer_tx_next
      BY <1>2, <2>2
    <3>2. peer_tx_next <= rx_deliv' + Window
      BY <1>2, <2>2, <2>3, BoundMonotonic
    <3> QED
      BY <2>2, <3>1, <3>2
  <2>5. alive'
    BY <1>1, <1>7, RxMonotonic DEF Tick
  <2> QED
    BY <1>1, <2>1, <2>2, <2>4, <2>5 DEF LinkInv, WindowInv
<1> QED
  BY <1>3, <1>4, <1>5, <1>6, <1>7 DEF LinkNext

(* The receiver decodes every PDU with the COUNT it was sent with, and     *)
(* never runs ahead of the sender, whatever the channel below loses,       *)
(* reorders or duplicates within a window.                                 *)
THEOREM LinkSafety ==
  ASSUME ~EarlyPdu
  PROVE  LinkSpec => [](DecodeExact /\ NotAheadOfSender)
<1>1. LinkInit => LinkInv
  <2> SUFFICES ASSUME LinkInit PROVE LinkInv
    OBVIOUS
  <2>1. Inv
    BY InitInv DEF LinkInit
  <2>2. 0 \in COUNT /\ 0 <= 0 /\ 0 <= 0 + Window
    BY CountModPositive, PdcpConstants DEF COUNT
  <2>3. alive
    BY DEF LinkInit, Init
  <2>4. WindowInv
    BY <2>2, <2>3 DEF LinkInit, Init, WindowInv
  <2> QED
    BY <2>1, <2>4 DEF LinkInv
<1>2. LinkInv /\ [LinkNext]_linkVars => LinkInv'
  BY LinkNextInv
<1>3. LinkInv => DecodeExact /\ NotAheadOfSender
  <2> SUFFICES ASSUME LinkInv PROVE NotAheadOfSender
    BY LinkInvDecode
  <2>1. /\ rx_next <= peer_tx_next /\ rx_deliv <= rx_next
        /\ rx_next \in COUNT /\ rx_deliv \in COUNT /\ peer_tx_next \in COUNT
        /\ \A c \in rx_list : c \in COUNT /\ c < rx_next
        /\ delivered_to \in COUNT /\ delivered_to <= rx_deliv
    BY DEF LinkInv, WindowInv, Inv, TypeOK, RxOrdered
  <2> QED
    BY <2>1 DEF NotAheadOfSender, COUNT
<1> QED
  BY <1>1, <1>2, <1>3, PTL DEF LinkSpec
=============================================================================
