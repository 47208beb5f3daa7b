----------------------------- MODULE Congestion -----------------------------
(***************************************************************************)
(* UDT's congestion control, CUDTCC: a slow start by window, then a sending *)
(* period that ACKs shorten once per control interval and NAKs lengthen by  *)
(* an eighth, at most five times per congestion period.                    *)
(*                                                                         *)
(* Periods are whole microseconds, 0 for less than one.  What an ACK makes  *)
(* of the period (from bandwidth and MSS) is any shorter one.              *)
(***************************************************************************)
EXTENDS Integers

CONSTANTS LastPkt,      \* the last packet sent
          RcvPeriods,   \* what 1000000 / m_iRcvRate may be, 0 for no rate yet
          MaxCWnd,      \* m_dMaxCWndSize, the flow window
          InitCWnd,     \* the first window (16)
          MaxNaks,      \* how many loss reports arrive
          Enough        \* periods from which rounding up does little

ASSUME CongestionAssumption ==
  /\ LastPkt \in Nat /\ MaxCWnd \in Nat /\ InitCWnd \in Nat /\ MaxNaks \in Nat
  /\ Enough \in Nat /\ RcvPeriods \subseteq Nat

VARIABLES
  lastSent,   \* m_iSndCurrSeqNo
  acked,      \* what the peer has acknowledged (the number after the last)
  slow,       \* m_bSlowStart
  cwnd,       \* m_dCWndSize during slow start
  ccAck,      \* m_iLastAck
  period,     \* m_dPktSndPeriod
  rcvPeriod,  \* 1000000 / m_iRcvRate, 0 when the rate is not known
  loss,       \* m_bLoss
  lastDec,    \* m_iLastDecSeq
  dec,        \* nak, count, random, avg: the decrease counters
  elapsed,    \* the control interval is over
  naks,       \* loss reports so far
  before      \* history: the period before the first cut of this congestion
              \* period, 0 in none

ccVars == <<lastSent, acked, slow, cwnd, ccAck, period, rcvPeriod, loss, lastDec, dec,
            elapsed, naks, before>>

CcInit ==
  /\ lastSent = 0 /\ acked = 1 /\ slow = TRUE /\ cwnd = InitCWnd /\ ccAck = 0 /\ period = 1
  /\ rcvPeriod = 0 /\ loss = FALSE /\ lastDec = -1
  /\ dec = [nak |-> 0, count |-> 0, random |-> 1, avg |-> 0]
  /\ elapsed = FALSE /\ naks = 0 /\ before = 0

Send ==
  /\ lastSent < LastPkt /\ lastSent' = lastSent + 1
  /\ UNCHANGED <<acked, slow, cwnd, ccAck, period, rcvPeriod, loss, lastDec, dec, elapsed,
                 naks, before>>

IntervalOver ==
  /\ ~elapsed /\ elapsed' = TRUE
  /\ UNCHANGED <<lastSent, acked, slow, cwnd, ccAck, period, rcvPeriod, loss, lastDec, dec, naks,
                 before>>

(* The end of slow start: the period of the receiving rate, or one from the *)
(* window: an ACK divides the round trip by it (at most Enough here), a     *)
(* loss or a time-out does the reverse, which is less than a microsecond.   *)
FromRate(p, otherwise) == IF p > 0 THEN p ELSE otherwise

(* processCtrl's ACK, with the rate the receiver measured, then onACK.      *)
onACK ==
  \E ack \in acked + 1 .. lastSent + 1, r \in RcvPeriods :
    /\ acked' = ack
    /\ rcvPeriod' = IF r > 0 THEN r ELSE rcvPeriod
    /\ elapsed' = FALSE
    /\ UNCHANGED <<lastSent, lastDec, dec, naks, before>>
    /\ IF ~elapsed THEN UNCHANGED <<slow, cwnd, ccAck, period, loss>>
       ELSE IF slow
         THEN /\ cwnd' = cwnd + (ack - ccAck + 1) /\ ccAck' = ack
              /\ UNCHANGED loss
              /\ IF cwnd' <= MaxCWnd THEN UNCHANGED <<slow, period>>
                 ELSE slow' = FALSE /\ period' \in 0 .. FromRate(rcvPeriod', Enough)
         ELSE /\ UNCHANGED <<slow, cwnd, ccAck>>
              /\ loss' = FALSE
              /\ IF loss THEN UNCHANGED period ELSE period' \in 0 .. period

(* ceil(1.125 p)                                                           *)
Longer(p) == IF p = 0 THEN 1 ELSE (9 * p + 7) \div 8

(* The decreases of a congestion period: the first, and up to four more,    *)
(* each after m_iDecRandom loss reports.                                   *)
CutsLeft       == dec.count < 5
CutsLeftAlways == dec.count >= 0
MayCut         == CutsLeft
Ceil8(n)       == (n + 7) \div 8

onLoss ==
  \E first \in acked .. lastSent :
    LET noRate == slow /\ rcvPeriod = 0
        p      == IF noRate THEN 0 ELSE period
    IN  /\ naks < MaxNaks /\ naks' = naks + 1
        /\ slow' = FALSE
        /\ UNCHANGED <<lastSent, acked, cwnd, ccAck, rcvPeriod, elapsed>>
        /\ \/ /\ slow /\ rcvPeriod > 0
              /\ period' = rcvPeriod
              /\ UNCHANGED <<loss, lastDec, dec, before>>
           \/ /\ ~slow \/ noRate
              /\ loss' = TRUE
              /\ IF first > lastDec
                   THEN LET avg == Ceil8(7 * dec.avg + dec.nak)
                        IN  /\ \E random \in 1 .. (IF avg > 1 THEN avg ELSE 1) :
                                 dec' = [nak |-> 1, count |-> 1, random |-> random, avg |-> avg]
                            /\ period' = Longer(p) /\ before' = p
                            /\ lastDec' = lastSent
                 ELSE LET counted == MayCut
                          nak     == IF counted THEN dec.nak + 1 ELSE dec.nak
                          cut     == counted /\ nak % dec.random = 0
                      IN  /\ dec' = [dec EXCEPT !.nak = nak, !.count = @ + 1]
                          /\ period' = IF cut THEN Longer(p) ELSE p
                          /\ lastDec' = IF cut THEN lastSent ELSE lastDec
                          /\ UNCHANGED before

onTimeout ==
  /\ slow /\ slow' = FALSE
  /\ period' = FromRate(rcvPeriod, 0)
  /\ UNCHANGED <<lastSent, acked, cwnd, ccAck, rcvPeriod, loss, lastDec, dec, elapsed, naks, before>>

CcNext == Send \/ IntervalOver \/ onACK \/ onLoss \/ onTimeout

CcSpec == CcInit /\ [][CcNext]_ccVars

-----------------------------------------------------------------------------
(* ccc.cpp of the cuts: the "rate should not be decreased by more than half *)
(* within a congestion period".  It is not, except that a period of less    *)
(* than Enough microseconds grows faster, each cut being rounded up.        *)
HalvedAtMost == before >= Enough => period <= 2 * before
=============================================================================
