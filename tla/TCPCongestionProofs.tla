------------------------- MODULE TCPCongestionProofs -------------------------
(***************************************************************************)
(* Without window scaling, and for a maximum segment size that leaves room *)
(* for ssthresh + 3 * SMSS in a UINT16, the window always admits a segment *)
(* and a sender never stalls: for every variant, segment size, number of   *)
(* packets and number of duplicate acknowledgements.                       *)
(***************************************************************************)
EXTENDS TCPCongestion, TLAPS

\* 32767 + 3 * 10922 < 65536: FastRetransmit does not wrap cwnd.
Unscaled == Scale = 1 /\ MSS <= 10922

\* What the algorithms keep of CONGESTIONVAR, for SND.UNA = u and SND.NXT = n.
GoodCong(c, u, n) ==
    /\ c \in CongestionVar
    /\ c.cwnd >= MSS
    /\ c.isFastRecovery => c.ssthresh >= 2 * MSS
    /\ Variant = "NewReno" /\ c.isFastRecovery => u <= c.recover /\ c.recover <= n

\* The inductive invariant, in four parts.
TypeInv ==
    /\ una \in Nat /\ nxt \in Nat /\ buf \in Nat /\ given \in Nat
    /\ wait \in BOOLEAN /\ sndWnd \in Nat /\ streak \in 0..DupThresh

\* The SYN is sent; the flight fits in a UINT16.
FlightInv == ISS <= una /\ ISS < nxt /\ una <= nxt /\ nxt < una + 65536

\* There is no recovery before the handshake is over.
CongInv == GoodCong(cong, una, nxt) /\ (una = ISS => ~cong.isFastRecovery)

WaitInv == una < nxt \/ (wait /\ buf = 0)

IInv == TypeInv /\ FlightInv /\ CongInv /\ WaitInv

-----------------------------------------------------------------------------
(* Arithmetic. *)

\* The packets that fit in the window do not exceed it.
LEMMA FitsInRoom ==
    ASSUME NEW a \in Nat, NEW p \in Nat \ {0}, NEW k \in Nat, k <= a \div p
    PROVE  k * p <= a
  BY SMT

\* A window that admits one packet lets one go.
LEMMA RoomForOne ==
    ASSUME NEW a \in Nat, NEW p \in Nat \ {0}, a >= p
    PROVE  a \div p \in Nat /\ a \div p >= 1
  BY SMT

LEMMA RoomIsNat ==
    ASSUME NEW a \in Nat, NEW p \in Nat \ {0}
    PROVE  a \div p \in Nat
  BY SMT

LEMMA PositiveProduct ==
    ASSUME NEW k \in Nat, NEW p \in Nat \ {0}, k >= 1
    PROVE  k * p > 0
  BY SMT

LEMMA ProductIsNat ==
    ASSUME NEW k \in Nat, NEW p \in Nat
    PROVE  k * p \in Nat
  BY SMT

\* A value that fits in 16 bits keeps its value.
LEMMA CastExact ==
    ASSUME NEW x \in Nat, x < 65536
    PROVE  UINT16(x) = x
  BY SMT DEF UINT16

LEMMA CastType ==
    ASSUME NEW x \in Int
    PROVE  UINT16(x) \in Word
  BY SMT DEF UINT16, Word

LEMMA ScaledExact ==
    ASSUME Unscaled, NEW x \in Nat
    PROVE  Scaled(x) = x
  BY SMT DEF Scaled, Unscaled

LEMMA Half ==
    ASSUME NEW x \in Nat, x < 65536
    PROVE  x \div 2 \in Nat /\ x \div 2 <= 32767
  BY SMT

-----------------------------------------------------------------------------
(* The accessors. *)

LEMMA Fields ==
    ASSUME NEW c \in CongestionVar
    PROVE  /\ c.cwnd \in Nat /\ c.cwnd <= 65535
           /\ c.ssthresh \in Nat /\ c.ssthresh <= 65535
           /\ c.dupAckCount \in Nat /\ c.isFastRecovery \in BOOLEAN /\ c.recover \in Nat
  BY DEF CongestionVar, Word

\* d is c with another cwnd.
SameButCwnd(d, c) ==
    /\ d \in CongestionVar
    /\ d.ssthresh = c.ssthresh /\ d.dupAckCount = c.dupAckCount
    /\ d.isFastRecovery = c.isFastRecovery /\ d.recover = c.recover

LEMMA SetCwnd ==
    ASSUME Unscaled, NEW c \in CongestionVar, NEW w \in Nat, w < 65536
    PROVE  SameButCwnd(set_cwnd(c, w), c) /\ set_cwnd(c, w).cwnd = w
  <1>1. set_cwnd(c, w) = [c EXCEPT !.cwnd = w]
    BY CastExact DEF set_cwnd, Unscaled
  <1> QED
    BY <1>1 DEF SameButCwnd, CongestionVar, Word

LEMMA SetSsthres ==
    ASSUME Unscaled, NEW c \in CongestionVar, NEW w \in Nat, w < 65536
    PROVE  /\ set_ssthres(c, w) \in CongestionVar
           /\ set_ssthres(c, w).ssthresh = w
           /\ set_ssthres(c, w).cwnd = c.cwnd
           /\ set_ssthres(c, w).recover = c.recover
           /\ set_ssthres(c, w).isFastRecovery = c.isFastRecovery
  <1>1. set_ssthres(c, w) = [c EXCEPT !.ssthresh = w]
    BY CastExact, ScaledExact DEF set_ssthres
  <1> QED
    BY <1>1 DEF CongestionVar, Word

LEMMA GetWindows ==
    ASSUME Unscaled, NEW c \in CongestionVar
    PROVE  get_cwnd(c) = c.cwnd /\ get_ssthres(c) = c.ssthresh
  <1>1. \A x \in Nat : x * Scale = x
    BY DEF Unscaled
  <1> QED
    BY <1>1, Fields DEF get_cwnd, get_ssthres

\* increase_cwnd saturates and never shrinks the window.
LEMMA IncreaseCwnd ==
    ASSUME Unscaled, NEW c \in CongestionVar, NEW inc \in Nat
    PROVE  /\ SameButCwnd(increase_cwnd(c, inc), c)
           /\ increase_cwnd(c, inc).cwnd >= c.cwnd
  <1> DEFINE w == Smaller(65535, c.cwnd + inc)
  <1>1. c.cwnd \in Nat /\ c.cwnd <= 65535
    BY Fields
  <1>2. w \in Nat /\ c.cwnd <= w /\ w <= 65535
    BY <1>1 DEF Smaller
  <1>3. get_cwnd(c) + inc = c.cwnd + inc /\ c.cwnd + inc \in Nat
    BY <1>1, GetWindows
  <1>4. Scaled(get_cwnd(c) + inc) = c.cwnd + inc
    BY <1>3, ScaledExact
  <1>5. increase_cwnd(c, inc) = [c EXCEPT !.cwnd = w]
    BY <1>4 DEF increase_cwnd
  <1> HIDE DEF w
  <1> QED
    BY <1>2, <1>5 DEF SameButCwnd, CongestionVar, Word

-----------------------------------------------------------------------------
(* The algorithms keep GoodCong. *)

\* d has the window of c or a larger one.
Grown(d, c) == SameButCwnd(d, c) /\ d.cwnd >= c.cwnd

LEMMA SlowStartKeeps ==
    ASSUME Unscaled, NEW c \in CongestionVar, NEW ack \in Nat, una \in Nat
    PROVE  Grown(slowStart(c, ack), c)
  <1>1. UINT16(ack - una) \in Nat
    BY CastType DEF Word
  <1>2. Smaller(UINT16(ack - una), MSS) \in Nat
    BY <1>1, SegmentAssumption DEF Smaller, Word
  <1> QED
    BY <1>2, IncreaseCwnd DEF slowStart, Grown

LEMMA GrowKeeps ==
    ASSUME Unscaled, NEW c \in CongestionVar, NEW ack \in Nat, NEW rtt \in BOOLEAN, una \in Nat
    PROVE  Grown(Grow(c, ack, rtt), c)
  <1>1. Grown(c, c)
    BY Fields DEF Grown, SameButCwnd
  <1>2. Grown(slowStart(c, ack), c)
    BY SlowStartKeeps
  <1> QED
    BY <1>1, <1>2 DEF Grow, CongestionAvoidance

LEMMA GrownIsGood ==
    ASSUME NEW c, NEW d, NEW u, NEW n, GoodCong(c, u, n), Grown(d, c)
    PROVE  GoodCong(d, u, n)
  <1>1. c.cwnd \in Nat /\ d.cwnd \in Nat /\ MSS \in Nat
    BY Fields, SegmentAssumption DEF GoodCong, Grown, SameButCwnd, Word
  <1> QED
    BY <1>1 DEF GoodCong, Grown, SameButCwnd

LEMMA FlightHalved ==
    ASSUME Unscaled, una \in Nat, nxt \in Nat, una <= nxt, nxt - una < 65536
    PROVE  /\ Larger(FlightSize \div 2, 2 * MSS) \in Nat
           /\ Larger(FlightSize \div 2, 2 * MSS) <= 32767
           /\ Larger(FlightSize \div 2, 2 * MSS) >= 2 * MSS
  <1>1. FlightSize \in Nat /\ FlightSize < 65536
    BY CastType DEF FlightSize, Word
  <1>2. FlightSize \div 2 \in Nat /\ FlightSize \div 2 <= 32767
    BY <1>1, Half
  <1>3. MSS \in Nat /\ MSS <= 10922
    BY SegmentAssumption DEF Unscaled, Word
  <1> QED
    BY <1>2, <1>3 DEF Larger

\* What FastRetransmit does on the third duplicate acknowledgement.
OnThird(c, w, b) ==
    [set_cwnd(set_ssthres(c, w), get_ssthres(set_ssthres(c, w)) + DupThresh * MSS)
         EXCEPT !.isFastRecovery = b]

\* ssthresh + 3 * SMSS does not wrap.
LEMMA ThirdDuplicate ==
    ASSUME Unscaled, NEW c \in CongestionVar, NEW w \in Nat, w >= 2 * MSS, w <= 32767,
           NEW b \in BOOLEAN
    PROVE  /\ OnThird(c, w, b) \in CongestionVar /\ OnThird(c, w, b).cwnd >= MSS
           /\ OnThird(c, w, b).ssthresh >= 2 * MSS /\ OnThird(c, w, b).recover = c.recover
  <1> DEFINE e == OnThird(c, w, b)
             d == set_ssthres(c, w)
             v == w + DupThresh * MSS
  <1>1. d \in CongestionVar /\ d.ssthresh = w /\ d.recover = c.recover
    BY SetSsthres
  <1>2. get_ssthres(d) = w
    BY <1>1, GetWindows
  <1>3. v \in Nat /\ v < 65536 /\ v >= MSS
    BY SegmentAssumption DEF Unscaled, Word, DupThresh
  <1>4. SameButCwnd(set_cwnd(d, v), d) /\ set_cwnd(d, v).cwnd = v
    BY <1>1, <1>3, SetCwnd
  <1>5. e = [set_cwnd(d, v) EXCEPT !.isFastRecovery = b]
    BY <1>2 DEF OnThird
  <1> HIDE DEF d, v, e
  <1>6. /\ e \in CongestionVar /\ e.cwnd = v
        /\ e.ssthresh = w /\ e.recover = c.recover
    BY <1>1, <1>4, <1>5 DEF SameButCwnd, CongestionVar
  <1> QED
    BY <1>3, <1>6 DEF e

LEMMA FastRetransmitKeeps ==
    ASSUME Unscaled, una \in Nat, nxt \in Nat, una <= nxt, nxt - una < 65536,
           NEW c, GoodCong(c, una, nxt), Variant = "NewReno" => c.recover = nxt
    PROVE  GoodCong(FastRetransmit(c), una, nxt)
  <1>0. c \in CongestionVar
    BY DEF GoodCong
  <1>1. CASE c.dupAckCount = DupThresh
    <2> DEFINE w == Larger(FlightSize \div 2, 2 * MSS)
               b == Variant \in {"Reno", "NewReno"}
    <2>1. w \in Nat /\ w <= 32767 /\ w >= 2 * MSS
      BY FlightHalved
    <2>2. FastRetransmit(c) = OnThird(c, w, b)
      BY <1>1 DEF FastRetransmit, OnThird
    <2>3. b \in BOOLEAN
      OBVIOUS
    <2> HIDE DEF w, b
    <2>4. /\ FastRetransmit(c) \in CongestionVar /\ FastRetransmit(c).cwnd >= MSS
          /\ FastRetransmit(c).ssthresh >= 2 * MSS /\ FastRetransmit(c).recover = c.recover
      BY <1>0, <2>1, <2>2, <2>3, ThirdDuplicate
    <2> QED
      BY <2>4 DEF GoodCong
  <1>2. CASE c.dupAckCount # DupThresh
    <2>1. FastRetransmit(c) = increase_cwnd(c, MSS)
      BY <1>2 DEF FastRetransmit
    <2>2. Grown(increase_cwnd(c, MSS), c)
      BY <1>0, IncreaseCwnd, SegmentAssumption DEF Grown, Word
    <2> QED
      BY <2>1, <2>2, GrownIsGood
  <1> QED
    BY <1>1, <1>2

\* Outside recovery SND.UNA may move: only recovery looks at recover.
LEMMA GoodMoves ==
    ASSUME NEW c, NEW u, NEW v, NEW n, GoodCong(c, u, n),
           ~c.isFastRecovery \/ Variant # "NewReno" \/ v <= c.recover
    PROVE  GoodCong(c, v, n)
  BY DEF GoodCong

LEMMA CountedKeeps ==
    ASSUME NEW c, NEW u, NEW n, GoodCong(c, u, n)
    PROVE  GoodCong(Counted(c), u, n) /\ Counted(c).recover = c.recover
  <1>1. /\ Counted(c) \in CongestionVar
        /\ Counted(c).cwnd = c.cwnd /\ Counted(c).ssthresh = c.ssthresh
        /\ Counted(c).isFastRecovery = c.isFastRecovery /\ Counted(c).recover = c.recover
    BY DEF GoodCong, Counted, CongestionVar
  <1> QED
    BY <1>1 DEF GoodCong

\* Reno leaves recovery with cwnd = ssthresh, at least two segments.
LEMMA FastRecoveryKeeps ==
    ASSUME Unscaled, NEW c, NEW u, NEW n, GoodCong(c, u, n), c.isFastRecovery
    PROVE  GoodCong(FastRecovery(c), u, n) /\ ~FastRecovery(c).isFastRecovery
  <1> DEFINE d == [c EXCEPT !.isFastRecovery = FALSE, !.dupAckCount = 0]
  <1>1. /\ d \in CongestionVar /\ ~d.isFastRecovery
        /\ d.ssthresh = c.ssthresh /\ d.recover = c.recover
    BY DEF GoodCong, CongestionVar
  <1>2. get_ssthres(c) = c.ssthresh /\ c.ssthresh \in Nat /\ c.ssthresh < 65536
    BY GetWindows, Fields DEF GoodCong
  <1>3. FastRecovery(c) = set_cwnd(d, c.ssthresh)
    BY <1>2 DEF FastRecovery
  <1> HIDE DEF d
  <1>4. SameButCwnd(FastRecovery(c), d) /\ FastRecovery(c).cwnd = c.ssthresh
    BY <1>1, <1>2, <1>3, SetCwnd
  <1> QED
    BY <1>1, <1>2, <1>4, SegmentAssumption DEF GoodCong, SameButCwnd, Word

\* The two assignments newReno_FastRecovery makes first.
NoDup(c) == [c EXCEPT !.dupAckCount = 0]
Recovered(c) == [NoDup(c) EXCEPT !.isFastRecovery = FALSE]

LEMMA NoDupKeeps ==
    ASSUME NEW c, NEW u, NEW n, GoodCong(c, u, n)
    PROVE  GoodCong(NoDup(c), u, n) /\ NoDup(c).recover = c.recover
  <1>1. /\ NoDup(c) \in CongestionVar
        /\ NoDup(c).cwnd = c.cwnd /\ NoDup(c).ssthresh = c.ssthresh
        /\ NoDup(c).isFastRecovery = c.isFastRecovery /\ NoDup(c).recover = c.recover
    BY DEF GoodCong, NoDup, CongestionVar
  <1> QED
    BY <1>1 DEF GoodCong

LEMMA RecoveredType ==
    ASSUME NEW c \in CongestionVar
    PROVE  Recovered(c) \in CongestionVar /\ ~Recovered(c).isFastRecovery
  BY DEF Recovered, NoDup, CongestionVar

\* NewReno: a full acknowledgement ends recovery, a partial one lies below recover.
LEMMA NewRenoRecoveryKeeps ==
    ASSUME Unscaled, una \in Nat, nxt \in Nat, una <= nxt, nxt - una < 65536,
           NEW c, GoodCong(c, una, nxt), c.isFastRecovery, NEW ack \in Nat, ack <= nxt
    PROVE  GoodCong(newReno_FastRecovery(c, ack), ack, nxt)
  <1>0. c \in CongestionVar /\ c.recover \in Nat /\ c.ssthresh \in Nat /\ c.ssthresh < 65536
    BY Fields DEF GoodCong
  <1>a. MSS \in Nat /\ MSS > 0 /\ c.ssthresh >= 2 * MSS
    BY SegmentAssumption DEF Word, GoodCong
  <1> DEFINE w == Smaller(get_ssthres(c), Larger(FlightSize, MSS) + MSS)
  <1>1. GoodCong(NoDup(c), una, nxt) /\ NoDup(c).recover = c.recover
    BY NoDupKeeps
  <1>2. Recovered(c) \in CongestionVar /\ ~Recovered(c).isFastRecovery
    BY <1>0, RecoveredType
  <1>3. w \in Nat /\ w < 65536 /\ w >= MSS
    <2>1. FlightSize \in Nat
      BY CastType DEF FlightSize, Word
    <2>2. get_ssthres(c) = c.ssthresh
      BY <1>0, GetWindows
    <2> QED
      BY <1>0, <1>a, <2>1, <2>2 DEF Smaller, Larger
  <1>4. CASE ack >= c.recover
    <2>1. newReno_FastRecovery(c, ack) = set_cwnd(Recovered(c), w)
      BY <1>4 DEF newReno_FastRecovery, Recovered, NoDup
    <2> HIDE DEF w
    <2>2. /\ SameButCwnd(newReno_FastRecovery(c, ack), Recovered(c))
          /\ newReno_FastRecovery(c, ack).cwnd = w
      BY <1>2, <1>3, <2>1, SetCwnd
    <2> QED
      BY <1>2, <1>3, <2>2 DEF GoodCong, SameButCwnd
  <1>5. CASE ~(ack >= c.recover)
    <2>1. newReno_FastRecovery(c, ack) = increase_cwnd(NoDup(c), UINT16(ack - c.recover))
      BY <1>5 DEF newReno_FastRecovery, NoDup
    <2>2. UINT16(ack - c.recover) \in Nat
      BY <1>0, CastType DEF Word
    <2> HIDE DEF w
    <2>3. Grown(newReno_FastRecovery(c, ack), NoDup(c))
      BY <1>1, <2>1, <2>2, IncreaseCwnd DEF Grown, GoodCong
    <2>4. GoodCong(newReno_FastRecovery(c, ack), una, nxt)
      BY <1>1, <2>3, GrownIsGood
    <2>5. newReno_FastRecovery(c, ack).recover = c.recover
      BY <1>1, <2>3 DEF Grown, SameButCwnd
    <2> QED
      BY <1>0, <1>5, <2>4, <2>5, GoodMoves
  <1> QED
    BY <1>4, <1>5

\* A new acknowledgement outside recovery.
LEMMA GrowOutsideRecovery ==
    ASSUME Unscaled, una \in Nat, NEW c, NEW n, GoodCong(c, una, n),
           ~c.isFastRecovery \/ Variant # "NewReno",
           NEW ack \in Nat, NEW rtt \in BOOLEAN
    PROVE  GoodCong(Grow(c, ack, rtt), ack, n)
  <1>1. Grown(Grow(c, ack, rtt), c)
    BY GrowKeeps DEF GoodCong
  <1>2. GoodCong(c, ack, n)
    BY GoodMoves
  <1> QED
    BY <1>1, <1>2, GrownIsGood

\* The window NewReno enters FastRetransmit with.
Retransmitting(c) == [Counted(c) EXCEPT !.recover = nxt]

LEMMA RetransmittingFields ==
    ASSUME NEW c \in CongestionVar, nxt \in Nat
    PROVE  /\ Retransmitting(c) \in CongestionVar
           /\ Retransmitting(c).recover = nxt
           /\ Retransmitting(c).cwnd = Counted(c).cwnd
           /\ Retransmitting(c).ssthresh = Counted(c).ssthresh
           /\ Retransmitting(c).isFastRecovery = Counted(c).isFastRecovery
  <1> DEFINE d == Counted(c)
  <1>1. d \in CongestionVar
    BY DEF Counted, CongestionVar
  <1>2. Retransmitting(c) = [d EXCEPT !.recover = nxt]
    BY DEF Retransmitting
  <1> HIDE DEF d
  <1>3. /\ Retransmitting(c) \in CongestionVar
        /\ Retransmitting(c).recover = nxt
        /\ Retransmitting(c).cwnd = d.cwnd
        /\ Retransmitting(c).ssthresh = d.ssthresh
        /\ Retransmitting(c).isFastRecovery = d.isFastRecovery
    BY <1>1, <1>2 DEF CongestionVar
  <1> QED
    BY <1>3 DEF d

LEMMA RetransmittingKeeps ==
    ASSUME una \in Nat, nxt \in Nat, una <= nxt, NEW c, GoodCong(c, una, nxt)
    PROVE  GoodCong(Retransmitting(c), una, nxt) /\ Retransmitting(c).recover = nxt
  <1>1. c \in CongestionVar
    BY DEF GoodCong
  <1>2. GoodCong(Counted(c), una, nxt)
    BY CountedKeeps
  <1>3. /\ Retransmitting(c) \in CongestionVar
        /\ Retransmitting(c).recover = nxt
        /\ Retransmitting(c).cwnd = Counted(c).cwnd
        /\ Retransmitting(c).ssthresh = Counted(c).ssthresh
        /\ Retransmitting(c).isFastRecovery = Counted(c).isFastRecovery
    BY <1>1, RetransmittingFields
  <1> QED
    BY <1>2, <1>3 DEF GoodCong

\* Tahoe's return to the loss window.
TahoeReset(c) == set_cwnd(NoDup(c), LW)

LEMMA TahoeResetKeeps ==
    ASSUME Unscaled, una \in Nat, NEW c, NEW n, GoodCong(c, una, n),
           Variant # "NewReno", NEW ack \in Nat
    PROVE  GoodCong(TahoeReset(c), ack, n)
  <1>1. GoodCong(NoDup(c), una, n)
    BY NoDupKeeps
  <1>2. SameButCwnd(TahoeReset(c), NoDup(c)) /\ TahoeReset(c).cwnd = MSS
    BY <1>1, SetCwnd, SegmentAssumption DEF TahoeReset, LW, Word, GoodCong
  <1> QED
    BY <1>1, <1>2, SegmentAssumption DEF GoodCong, SameButCwnd, Word

\* Whatever the variant, ack_received keeps GoodCong for the SND.UNA that
\* process_ack_in_establishedState then stores.
LEMMA AckReceivedKeeps ==
    ASSUME Unscaled, una \in Nat, nxt \in Nat, una <= nxt, nxt - una < 65536,
           GoodCong(cong, una, nxt), NEW ack \in Nat, ack <= nxt, NEW rtt \in BOOLEAN
    PROVE  GoodCong(ack_received(cong, ack, rtt), IF isDupAck(ack) THEN una ELSE ack, nxt)
  <1>1. GoodCong(Counted(cong), una, nxt)
    BY CountedKeeps
  <1>2. GoodCong(Retransmitting(cong), una, nxt) /\ Retransmitting(cong).recover = nxt
    BY RetransmittingKeeps
  <1>3. Variant # "NewReno" => GoodCong(FastRetransmit(Counted(cong)), una, nxt)
    BY <1>1, FastRetransmitKeeps
  <1>4. GoodCong(FastRetransmit(Retransmitting(cong)), una, nxt)
    BY <1>2, FastRetransmitKeeps
  <1>5. ~cong.isFastRecovery \/ Variant # "NewReno" => GoodCong(Grow(cong, ack, rtt), ack, nxt)
    BY GrowOutsideRecovery
  <1>6. CASE Variant = "OldTahoe"
    <2>1. isDupAck(ack) => GoodCong(Grow(cong, ack, rtt), una, nxt)
      BY <1>5, <1>6, GoodMoves
    <2> QED
      BY <1>5, <1>6, <2>1 DEF ack_received, oldtahoe_ack_received
  <1>7. CASE Variant = "Tahoe"
    <2>1. GoodCong(TahoeReset(cong), ack, nxt)
      BY <1>7, TahoeResetKeeps
    <2> QED
      BY <1>1, <1>3, <1>5, <1>7, <2>1
      DEF ack_received, tahoe_ack_received, TahoeReset, NoDup
  <1>8. CASE Variant = "Reno"
    <2>1. cong.isFastRecovery => GoodCong(FastRecovery(cong), ack, nxt)
      BY <1>8, FastRecoveryKeeps, GoodMoves
    <2> QED
      BY <1>1, <1>3, <1>5, <1>8, <2>1 DEF ack_received, reno_ack_received
  <1>9. CASE Variant = "NewReno"
    <2>1. cong.isFastRecovery => GoodCong(newReno_FastRecovery(cong, ack), ack, nxt)
      BY NewRenoRecoveryKeeps
    <2> QED
      BY <1>1, <1>4, <1>5, <1>9, <2>1 DEF ack_received, newreno_ack_received, Retransmitting
  <1> QED
    BY <1>6, <1>7, <1>8, <1>9, VariantAssumption

\* congestion_rto_timeout: ssthresh and cwnd fall back, NewReno leaves recovery.
OnTimeout(c) == set_cwnd(set_ssthres(c, Larger(FlightSize \div 2, 2 * MSS)), LW)

LEMMA OnTimeoutKeeps ==
    ASSUME Unscaled, una \in Nat, nxt \in Nat, una <= nxt, nxt - una < 65536,
           NEW c, GoodCong(c, una, nxt)
    PROVE  GoodCong(OnTimeout(c), una, nxt)
  <1> DEFINE w == Larger(FlightSize \div 2, 2 * MSS)
             d == set_ssthres(c, w)
  <1>1. w \in Nat /\ w <= 32767 /\ w >= 2 * MSS
    BY FlightHalved
  <1> HIDE DEF w
  <1>2. /\ d \in CongestionVar /\ d.ssthresh = w /\ d.recover = c.recover
        /\ d.isFastRecovery = c.isFastRecovery
    BY <1>1, SetSsthres DEF GoodCong
  <1> HIDE DEF d
  <1>3. SameButCwnd(set_cwnd(d, LW), d) /\ set_cwnd(d, LW).cwnd = MSS
    BY <1>2, SetCwnd, SegmentAssumption DEF LW, Word
  <1>4. OnTimeout(c) = set_cwnd(d, LW)
    BY DEF OnTimeout, d, w
  <1> QED
    BY <1>1, <1>2, <1>3, <1>4, SegmentAssumption DEF GoodCong, SameButCwnd, Word

-----------------------------------------------------------------------------
(* The sender. *)

\* How many of the b waiting packets send_segment lets go into this room.
Released(room, b) == IF room < 0 THEN 0 ELSE Smaller(b, room \div PktLen)

LEMMA ReleasedBounds ==
    ASSUME NEW room \in Int, NEW b \in Nat
    PROVE  /\ Released(room, b) \in Nat /\ Released(room, b) <= b
           /\ Released(room, b) * PktLen \in Nat
           /\ Released(room, b) * PktLen <= Larger(room, 0)
           /\ room >= PktLen /\ b > 0 => Released(room, b) * PktLen > 0
  <1> DEFINE k == Released(room, b)
  <1>1. PktLen \in Nat \ {0}
    BY SegmentAssumption DEF Word
  <1>2. CASE room < 0
    <2>1. k = 0
      BY <1>2 DEF Released
    <2> HIDE DEF k
    <2>2. k * PktLen = 0
      BY <1>1, <2>1
    <2>3. k \in Nat /\ k <= b /\ k * PktLen \in Nat /\ k * PktLen <= Larger(room, 0)
      BY <1>2, <2>1, <2>2 DEF Larger
    <2>4. ~(room >= PktLen)
      BY <1>1, <1>2
    <2> QED
      BY <2>3, <2>4 DEF k
  <1>3. CASE room >= 0
    <2> DEFINE q == room \div PktLen
    <2>1. k = Smaller(b, q)
      BY <1>3 DEF Released
    <2>2. q \in Nat
      BY <1>1, <1>3, RoomIsNat
    <2>3. room >= PktLen => q >= 1
      BY <1>1, <1>3, RoomForOne
    <2> HIDE DEF k
    <2>4. k \in Nat /\ k <= b /\ k <= q /\ (q >= 1 /\ b > 0 => k >= 1)
      <3> HIDE DEF q
      <3> QED
        BY <2>1, <2>2 DEF Smaller
    <2>5. k * PktLen <= room
      BY <1>1, <1>3, <2>4, FitsInRoom
    <2>6. k * PktLen \in Nat
      BY <1>1, <2>4, ProductIsNat
    <2>7. k >= 1 => k * PktLen > 0
      BY <1>1, <2>4, PositiveProduct
    <2> HIDE DEF q
    <2>8. k * PktLen <= Larger(room, 0)
      BY <1>3, <2>5, <2>6 DEF Larger
    <2>9. room >= PktLen /\ b > 0 => k * PktLen > 0
      BY <2>3, <2>4, <2>7
    <2> QED
      BY <2>4, <2>6, <2>8, <2>9 DEF k
  <1> QED
    BY <1>2, <1>3

\* send_segment stays within the window, and with nothing in flight a window of
\* one segment lets at least one packet go.
LEMMA SendSegment ==
    ASSUME Unscaled, NEW c, c \in CongestionVar, c.cwnd >= MSS,
           NEW u \in Nat, nxt \in Nat, u <= nxt, nxt - u < 65536,
           NEW b \in Nat, send_segment(c, u, b)
    PROVE  /\ nxt' \in Nat /\ nxt <= nxt' /\ nxt' < u + 65536
           /\ buf' \in Nat /\ sndWnd' \in Nat
           /\ u < nxt' \/ (b = 0 /\ buf' = 0)
  <1> DEFINE room == get_cwnd(c) + u - nxt
             k == Released(room, b)
             m == k * PktLen
  <1>1. get_cwnd(c) = c.cwnd /\ c.cwnd \in Nat /\ c.cwnd <= 65535
    BY GetWindows, Fields
  <1>2. room = c.cwnd + u - nxt /\ room \in Int
    BY <1>1
  <1>3. sndWnd' = c.cwnd /\ nxt' = nxt + m /\ buf' = b - k
    BY <1>1 DEF send_segment, Released
  <1> HIDE DEF room
  <1>4. /\ k \in Nat /\ k <= b /\ m \in Nat /\ m <= Larger(room, 0)
        /\ room >= PktLen /\ b > 0 => m > 0
    BY <1>2, ReleasedBounds
  <1> HIDE DEF k, m
  <1>5. nxt' \in Nat /\ nxt <= nxt' /\ buf' \in Nat /\ sndWnd' \in Nat
    BY <1>1, <1>3, <1>4
  <1>6. nxt' < u + 65536
    BY <1>1, <1>2, <1>3, <1>4 DEF Larger
  <1>7. u < nxt' \/ (b = 0 /\ buf' = 0)
    <2>0. SUFFICES ASSUME ~(u < nxt')
                   PROVE  b = 0 /\ buf' = 0
      OBVIOUS
    <2>1. u = nxt /\ m = 0
      BY <1>3, <1>4, <1>5, <2>0
    <2>2. PktLen \in Nat /\ PktLen <= MSS /\ MSS \in Nat
      BY SegmentAssumption DEF Word
    <2>3. room >= PktLen
      BY <1>1, <1>2, <2>1, <2>2
    <2>4. b = 0
      BY <1>4, <2>1, <2>3
    <2> QED
      BY <1>3, <1>4, <2>4
  <1> QED
    BY <1>5, <1>6, <1>7

-----------------------------------------------------------------------------
(* The invariant. *)

LEMMA BoundaryType ==
    ASSUME NEW ack \in Boundary
    PROVE  ack \in Nat /\ ISS < ack
  <1>1. PICK i \in 0..MaxPackets : ack = ISS + 1 + i * PktLen
    BY DEF Boundary
  <1>2. ISS \in Nat /\ PktLen \in Nat /\ i \in Nat
    BY <1>1, SegmentAssumption, ThresholdAssumption, CongestionBoundAssumption DEF Word
  <1>3. i * PktLen \in Nat
    BY <1>2, ProductIsNat
  <1> QED
    BY <1>1, <1>2, <1>3

LEMMA InitialWindow ==
    ASSUME Unscaled
    PROVE  IW \in Nat /\ IW < 65536 /\ IW >= MSS
  <1> DEFINE x == IF MSS > 2190 THEN 2 * MSS ELSE IF MSS > 1095 THEN 3 * MSS ELSE 4 * MSS
  <1>1. x \in Nat /\ x < 65536 /\ x >= MSS
    BY SegmentAssumption DEF Unscaled, Word
  <1>2. IW = UINT16(x)
    BY DEF IW
  <1> HIDE DEF x
  <1> QED
    BY <1>1, <1>2, CastExact

\* CONGESTIONVAR before init_congestion sets the initial window.
Fresh == [cwnd |-> 0, ssthresh |-> UINT16(Scaled(InitSSThresh)), dupAckCount |-> 0,
          isFastRecovery |-> FALSE, recover |-> IF Variant = "NewReno" THEN ISS ELSE 0]

LEMMA InitEstablishes ==
    ASSUME Unscaled, Init
    PROVE  IInv
  <1>1. ISS \in Nat /\ MSS \in Nat
    BY ThresholdAssumption, SegmentAssumption DEF Word
  <1>2. Fresh \in CongestionVar /\ ~Fresh.isFastRecovery
    <2>1. UINT16(Scaled(InitSSThresh)) \in Word
      BY ThresholdAssumption, ScaledExact, CastType DEF Word
    <2>2. (IF Variant = "NewReno" THEN ISS ELSE 0) \in Nat
      BY <1>1
    <2>3. 0 \in Word
      BY DEF Word
    <2> QED
      BY <2>1, <2>2, <2>3 DEF Fresh, CongestionVar
  <1>3. cong = set_cwnd(Fresh, IW)
    BY DEF Init, Fresh
  <1>4. SameButCwnd(cong, Fresh) /\ cong.cwnd = IW
    BY <1>2, <1>3, InitialWindow, SetCwnd
  <1>5. GoodCong(cong, una, nxt) /\ ~cong.isFastRecovery
    BY <1>2, <1>4, InitialWindow DEF GoodCong, SameButCwnd
  <1>6. /\ una = ISS /\ nxt = ISS + 1 /\ buf = 0 /\ given = 0 /\ wait = FALSE
        /\ sndWnd = 0 /\ streak = 0
    BY DEF Init
  <1>7. TypeInv
    <2>1. wait \in BOOLEAN
      BY <1>6
    <2>2. /\ una \in Nat /\ nxt \in Nat /\ buf \in Nat /\ given \in Nat
          /\ sndWnd \in Nat /\ streak \in 0..DupThresh
      BY <1>1, <1>6 DEF DupThresh
    <2> QED
      BY <2>1, <2>2 DEF TypeInv
  <1>8. FlightInv
    BY <1>1, <1>6 DEF FlightInv
  <1>9. una < nxt
    BY <1>1, <1>6
  <1> QED
    BY <1>5, <1>7, <1>8, <1>9 DEF IInv, CongInv, WaitInv

\* GoodCong outlives a growth of SND.NXT.
LEMMA GoodGrowsFlight ==
    ASSUME NEW c, NEW u, NEW n \in Nat, NEW m \in Nat, n <= m, GoodCong(c, u, n)
    PROVE  GoodCong(c, u, m)
  <1>1. c.recover \in Nat
    BY Fields DEF GoodCong
  <1> QED
    BY <1>1 DEF GoodCong

\* What IInv says of the state an action starts from.
LEMMA IInvFacts ==
    ASSUME IInv
    PROVE  /\ ISS \in Nat /\ una \in Nat /\ nxt \in Nat /\ buf \in Nat /\ given \in Nat
           /\ wait \in BOOLEAN /\ sndWnd \in Nat /\ streak \in 0..DupThresh
           /\ ISS <= una /\ ISS < nxt /\ una <= nxt /\ nxt - una < 65536
           /\ GoodCong(cong, una, nxt)
           /\ cong \in CongestionVar /\ cong.cwnd >= MSS
  <1>1. /\ ISS \in Nat /\ una \in Nat /\ nxt \in Nat /\ buf \in Nat /\ given \in Nat
        /\ wait \in BOOLEAN /\ sndWnd \in Nat /\ streak \in 0..DupThresh
    BY ThresholdAssumption DEF IInv, TypeInv
  <1>2. ISS <= una /\ ISS < nxt /\ una <= nxt /\ nxt < una + 65536
    BY DEF IInv, FlightInv
  <1>3. nxt - una < 65536
    BY <1>1, <1>2
  <1>4. GoodCong(cong, una, nxt)
    BY DEF IInv, CongInv
  <1>5. cong \in CongestionVar /\ cong.cwnd >= MSS
    BY <1>4 DEF GoodCong
  <1> QED
    BY <1>1, <1>2, <1>3, <1>4, <1>5

LEMMA ConnectKeeps ==
    ASSUME Unscaled, IInv, Connect
    PROVE  IInv'
  <1>1. /\ una = ISS /\ una' = ISS + 1 /\ cong' = cong /\ given' = given
        /\ streak' = streak /\ wait' = (wait \/ buf = 0)
    BY DEF Connect
  <1>2. una' \in Nat /\ una' <= nxt
    BY <1>1, IInvFacts
  <1>3. nxt - una' < 65536
    BY <1>1, IInvFacts
  <1>4. send_segment(cong, una', buf)
    BY <1>1 DEF Connect
  <1>5. /\ nxt' \in Nat /\ nxt <= nxt' /\ nxt' < una' + 65536
        /\ buf' \in Nat /\ sndWnd' \in Nat
        /\ una' < nxt' \/ (buf = 0 /\ buf' = 0)
    BY <1>2, <1>3, <1>4, IInvFacts, SendSegment
  <1>6. TypeInv'
    <2>1. wait' \in BOOLEAN
      BY <1>1
    <2>2. given' \in Nat /\ streak' \in 0..DupThresh
      BY <1>1, IInvFacts
    <2> QED
      BY <1>2, <1>5, <2>1, <2>2 DEF TypeInv, DupThresh
  <1>7. FlightInv'
    BY <1>1, <1>2, <1>5, IInvFacts DEF FlightInv
  <1>8. CongInv'
    <2>1. GoodCong(cong, una, nxt) /\ ~cong.isFastRecovery
      BY <1>1 DEF IInv, CongInv
    <2>2. GoodCong(cong', una', nxt')
      BY <1>1, <2>1 DEF GoodCong
    <2> QED
      BY <1>1, <2>1, <2>2 DEF CongInv
  <1>9. WaitInv'
    <2>1. CASE una' < nxt'
      BY <1>1, <2>1 DEF WaitInv
    <2>2. CASE buf = 0 /\ buf' = 0
      <3>1. wait'
        BY <1>1, <2>2
      <3> QED
        BY <2>2, <3>1 DEF WaitInv
    <2> QED
      BY <1>5, <2>1, <2>2
  <1> QED
    BY <1>6, <1>7, <1>8, <1>9 DEF IInv

LEMMA AckNewKeeps ==
    ASSUME Unscaled, IInv, NEW ack \in Boundary, NEW rtt \in BOOLEAN, AckNew(ack, rtt)
    PROVE  IInv'
  <1>0. ack \in Nat /\ ISS < ack
    BY BoundaryType
  <1>1. /\ una < ack /\ ack <= nxt /\ cong' = ack_received(cong, ack, rtt) /\ una' = ack
        /\ given' = given /\ streak' = 0 /\ wait' = (wait \/ buf = 0)
        /\ send_segment(cong', ack, buf)
    BY DEF AckNew
  <1>2. ~isDupAck(ack)
    BY <1>0, <1>1, IInvFacts DEF isDupAck
  <1>3. GoodCong(cong', ack, nxt)
    BY <1>0, <1>1, <1>2, IInvFacts, AckReceivedKeeps
  <1>4. cong' \in CongestionVar /\ cong'.cwnd >= MSS
    BY <1>3 DEF GoodCong
  <1>5. nxt - ack < 65536
    BY <1>0, <1>1, IInvFacts
  <1>6. /\ nxt' \in Nat /\ nxt <= nxt' /\ nxt' < ack + 65536
        /\ buf' \in Nat /\ sndWnd' \in Nat
        /\ ack < nxt' \/ (buf = 0 /\ buf' = 0)
    BY <1>0, <1>1, <1>4, <1>5, IInvFacts, SendSegment
  <1>7. TypeInv'
    <2>1. wait' \in BOOLEAN
      BY <1>1
    <2>2. given' \in Nat
      BY <1>1, IInvFacts
    <2> QED
      BY <1>0, <1>1, <1>6, <2>1, <2>2 DEF TypeInv, DupThresh
  <1>8. FlightInv'
    BY <1>0, <1>1, <1>6, IInvFacts DEF FlightInv
  <1>9. CongInv'
    <2>1. GoodCong(cong', una', nxt')
      BY <1>1, <1>3, <1>6, IInvFacts, GoodGrowsFlight
    <2>2. una' # ISS
      BY <1>0, <1>1, IInvFacts
    <2> QED
      BY <2>1, <2>2 DEF CongInv
  <1>10. WaitInv'
    <2>1. CASE ack < nxt'
      BY <1>1, <2>1 DEF WaitInv
    <2>2. CASE buf = 0 /\ buf' = 0
      <3>1. wait'
        BY <1>1, <2>2
      <3> QED
        BY <2>2, <3>1 DEF WaitInv
    <2> QED
      BY <1>6, <2>1, <2>2
  <1> QED
    BY <1>7, <1>8, <1>9, <1>10 DEF IInv

LEMMA AckDupKeeps ==
    ASSUME Unscaled, IInv, NEW ack \in Boundary, NEW rtt \in BOOLEAN, AckDup(ack, rtt)
    PROVE  IInv'
  <1>0. ack \in Nat /\ ISS < ack
    BY BoundaryType
  <1>1. /\ ack <= una /\ cong' = ack_received(cong, ack, rtt)
        /\ streak' = Smaller(streak + 1, DupThresh)
        /\ UNCHANGED <<una, nxt, buf, given, wait, sndWnd>>
    BY DEF AckDup
  <1>2. isDupAck(ack) /\ ack <= nxt
    BY <1>0, <1>1, IInvFacts DEF isDupAck
  <1>3. GoodCong(cong', una, nxt)
    BY <1>0, <1>1, <1>2, IInvFacts, AckReceivedKeeps
  <1>4. TypeInv'
    <2>1. streak' \in 0..DupThresh
      BY <1>1, IInvFacts DEF Smaller, DupThresh
    <2> QED
      BY <1>1, <2>1 DEF IInv, TypeInv
  <1>5. FlightInv'
    BY <1>1 DEF IInv, FlightInv
  <1>6. CongInv'
    <2>1. una # ISS
      BY <1>0, <1>1, IInvFacts
    <2> QED
      BY <1>1, <1>3, <2>1 DEF CongInv
  <1>7. WaitInv'
    BY <1>1 DEF IInv, WaitInv
  <1> QED
    BY <1>4, <1>5, <1>6, <1>7 DEF IInv

\* The two assignments of the NewReno branch of congestion_rto_timeout.
LeaveRecovery(c, n) == [c EXCEPT !.recover = n, !.isFastRecovery = FALSE]

LEMMA LeaveRecoveryKeeps ==
    ASSUME NEW c, NEW u, NEW n \in Nat, GoodCong(c, u, n)
    PROVE  GoodCong(LeaveRecovery(c, n), u, n)
  <1>1. /\ LeaveRecovery(c, n) \in CongestionVar /\ LeaveRecovery(c, n).cwnd = c.cwnd
        /\ ~LeaveRecovery(c, n).isFastRecovery
    BY DEF GoodCong, LeaveRecovery, CongestionVar
  <1> QED
    BY <1>1 DEF GoodCong

LEMMA TimeoutKeeps ==
    ASSUME Unscaled, IInv, congestion_rto_timeout
    PROVE  IInv'
  <1>1. /\ una > ISS /\ UNCHANGED <<una, nxt, buf, given, wait, sndWnd, streak>>
        /\ cong' = IF Variant = "NewReno"
                   THEN LeaveRecovery(OnTimeout(cong), nxt) ELSE OnTimeout(cong)
    BY DEF congestion_rto_timeout, OnTimeout, LeaveRecovery
  <1>2. GoodCong(OnTimeout(cong), una, nxt)
    BY IInvFacts, OnTimeoutKeeps
  <1>3. GoodCong(LeaveRecovery(OnTimeout(cong), nxt), una, nxt)
    BY <1>2, IInvFacts, LeaveRecoveryKeeps
  <1>4. CongInv'
    <2>1. una # ISS
      BY <1>1, IInvFacts
    <2> QED
      BY <1>1, <1>2, <1>3, <2>1 DEF CongInv
  <1>5. TypeInv'
    BY <1>1 DEF IInv, TypeInv
  <1>6. FlightInv'
    BY <1>1 DEF IInv, FlightInv
  <1>7. WaitInv'
    BY <1>1 DEF IInv, WaitInv
  <1> QED
    BY <1>4, <1>5, <1>6, <1>7 DEF IInv

LEMMA FromAppKeeps ==
    ASSUME Unscaled, IInv, FromApp
    PROVE  IInv'
  <1>1. given' = given + 1 /\ UNCHANGED <<cong, una, streak>>
    BY DEF FromApp
  <1>2. given' \in Nat
    BY <1>1, IInvFacts
  <1>3. CASE wait
    <2>1. send_segment(cong, una, buf + 1) /\ wait' = FALSE
      BY <1>3 DEF FromApp
    <2>2. buf + 1 \in Nat /\ buf + 1 # 0
      BY IInvFacts
    <2>3. /\ nxt' \in Nat /\ nxt <= nxt' /\ nxt' < una + 65536
          /\ buf' \in Nat /\ sndWnd' \in Nat /\ una < nxt'
      BY <2>1, <2>2, IInvFacts, SendSegment
    <2>4. TypeInv'
      <3>1. wait' \in BOOLEAN
        BY <2>1
      <3>2. una' \in Nat /\ streak' \in 0..DupThresh
        BY <1>1, IInvFacts
      <3> QED
        BY <1>2, <2>3, <3>1, <3>2 DEF TypeInv, DupThresh
    <2>5. FlightInv'
      BY <1>1, <2>3, IInvFacts DEF FlightInv
    <2>6. CongInv'
      <3>1. GoodCong(cong, una, nxt')
        BY <2>3, IInvFacts, GoodGrowsFlight
      <3> QED
        BY <1>1, <3>1 DEF IInv, CongInv
    <2>7. WaitInv'
      BY <1>1, <2>3 DEF WaitInv
    <2> QED
      BY <2>4, <2>5, <2>6, <2>7 DEF IInv
  <1>4. CASE ~wait
    <2>1. buf' = buf + 1 /\ UNCHANGED <<nxt, sndWnd, wait>>
      BY <1>4 DEF FromApp
    <2>2. TypeInv'
      BY <1>1, <1>2, <2>1 DEF IInv, TypeInv, DupThresh
    <2>3. FlightInv' /\ CongInv'
      BY <1>1, <2>1 DEF IInv, FlightInv, CongInv
    <2>4. WaitInv'
      BY <1>1, <1>4, <2>1 DEF IInv, WaitInv
    <2> QED
      BY <2>2, <2>3, <2>4 DEF IInv
  <1> QED
    BY <1>3, <1>4

LEMMA StepKeeps ==
    ASSUME Unscaled, IInv, [Next]_vars
    PROVE  IInv'
  <1>1. CASE Connect
    BY <1>1, ConnectKeeps
  <1>2. ASSUME NEW ack \in Boundary, NEW rtt \in BOOLEAN, AckNew(ack, rtt)
        PROVE  IInv'
    BY <1>2, AckNewKeeps
  <1>3. ASSUME NEW ack \in Boundary, NEW rtt \in BOOLEAN, AckDup(ack, rtt)
        PROVE  IInv'
    BY <1>3, AckDupKeeps
  <1>4. CASE congestion_rto_timeout
    BY <1>4, TimeoutKeeps
  <1>5. CASE FromApp
    BY <1>5, FromAppKeeps
  <1>6. CASE UNCHANGED vars
    BY <1>6 DEF vars, IInv, TypeInv, FlightInv, CongInv, WaitInv
  <1> QED
    BY <1>1, <1>2, <1>3, <1>4, <1>5, <1>6 DEF Next

LEMMA Invariance ==
    ASSUME Unscaled
    PROVE  Spec => []IInv
  <1>1. Init => IInv
    BY InitEstablishes
  <1>2. IInv /\ [Next]_vars => IInv'
    BY StepKeeps
  <1> QED
    BY <1>1, <1>2, PTL DEF Spec

-----------------------------------------------------------------------------
(* The theorems. *)

\* Every window, counter and sequence number keeps its type: cwnd and ssthresh
\* stay UINT16 whatever the acknowledgements and timeouts.
THEOREM TypeCorrect ==
    ASSUME Unscaled
    PROVE  Spec => []TypeOK
  <1>1. IInv => TypeOK
    BY IInvFacts DEF TypeOK
  <1> QED
    BY <1>1, Invariance, PTL

\* The window of Congestion.c admits one segment in every reachable state.
THEOREM WindowNeverCloses ==
    ASSUME Unscaled
    PROVE  Spec => []WindowAdmitsSegment
  <1>1. IInv => WindowAdmitsSegment
    BY IInvFacts, GetWindows DEF WindowAdmitsSegment
  <1> QED
    BY <1>1, Invariance, PTL

\* A sender with nothing in flight waits for the application with an empty
\* buffer: process_ack_in_establishedState and FromApp never leave data behind.
THEOREM NeverStalls ==
    ASSUME Unscaled
    PROVE  Spec => []NoStall
  <1>1. IInv => NoStall
    <2>1. SUFFICES ASSUME IInv, una = nxt
                   PROVE  wait /\ buf = 0
      BY DEF NoStall
    <2>2. ~(una < nxt)
      BY <2>1, IInvFacts
    <2> QED
      BY <2>1, <2>2 DEF IInv, WaitInv
  <1> QED
    BY <1>1, Invariance, PTL

\* The UINT16 cast of the flight size is exact.
THEOREM FlightFitsWord ==
    ASSUME Unscaled
    PROVE  Spec => []FlightSizeIsExact
  <1>1. IInv => FlightSizeIsExact
    BY IInvFacts DEF FlightSizeIsExact
  <1> QED
    BY <1>1, Invariance, PTL

\* While NewReno recovery lasts, recover lies between SND.UNA and SND.NXT.
THEOREM RecoveryEnds ==
    ASSUME Unscaled
    PROVE  Spec => []RecoveryCanEnd
  <1>1. IInv => RecoveryCanEnd
    BY DEF IInv, CongInv, GoodCong, RecoveryCanEnd
  <1> QED
    BY <1>1, Invariance, PTL
=============================================================================
