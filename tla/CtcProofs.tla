----------------------------- MODULE CtcProofs -----------------------------
(***************************************************************************)
(* The invariants of CtcSystem, for every prescaler, every set of control  *)
(* words and time constants, and slices of any length.                     *)
(***************************************************************************)
EXTENDS MCCtc, Z80CtcProofs

\* A CTC whose software reprograms it in the middle of a count, that is ticked
\* in slices of any length and pulsed from outside, keeps every count in its
\* 16 bits, although ctc_tick lets it go negative and ctc_write takes 1 from a
\* constant of 0; and a channel that has its interrupts off never has one
\* pending.
THEOREM CtcCorrect == Spec => []CtcTypeOK
<1>1. CtcTypeOK <=> Good(ctc)
  BY DEF CtcTypeOK, TypeOK, DisabledIsSilent, Good, Silent
<1>2. Init => Good(ctc)
  BY CtcCreatedType DEF Init, Good, Silent
<1>3. Good(ctc) /\ [Next]_vars => Good(ctc')
  <2> SUFFICES ASSUME Good(ctc), [Next]_vars  PROVE Good(ctc')
    OBVIOUS
  <2>1. CASE Tick
    BY <2>1, TickGood, CtcUseAssumption DEF Tick
  <2>2. ASSUME NEW i \in Fed, ReceivePulse(i)  PROVE Good(ctc')
    BY <2>2, PulseGood, CtcUseAssumption DEF ReceivePulse
  <2>3. ASSUME NEW i \in Channel, Reti(i)  PROVE Good(ctc')
    BY <2>3, WriteGood, CtcUseAssumption DEF Reti
  <2>4. ASSUME NEW i \in Channel, Write(i)  PROVE Good(ctc')
    <3>1. i \in CtcChan /\ Words \subseteq Control /\ TimeConst \subseteq 0 .. Wrap - 1
          /\ 16 \in 0 .. 255
      BY CtcUseAssumption
    <3>2. /\ \A v \in TimeConst : Good(LoadConstant(ctc, i, v))
          /\ \A w \in Words : Good(LoadControl(ctc, i, w))
          /\ Good(LoadVector(ctc, i, 16))
      BY <3>1, WriteGood
    <3> QED
      BY <2>4, <3>2 DEF Write
  <2>5. CASE UNCHANGED vars
    BY <2>5 DEF vars
  <2> QED
    BY <2>1, <2>2, <2>3, <2>4, <2>5 DEF Next
<1>4. Good(ctc)' <=> Good(ctc')
  BY DEF Good, Silent
<1>5. CtcTypeOK /\ [Next]_vars => CtcTypeOK'
  BY <1>3 DEF CtcTypeOK, TypeOK, DisabledIsSilent, Good, Silent
<1>6. Init => CtcTypeOK
  BY <1>1, <1>2
<1> QED
  BY <1>5, <1>6, PTL DEF Spec

\* The main loop may cut time as it likes: from every state the CTC can be in,
\* two slices do to the counts, to the pending interrupts and to the pulses
\* from channel 2 to channel 3 what one slice of their sum does.
THEOREM SlicesAddUp == Spec => []SlicingIsInvisible
<1>1. CtcTypeOK => SlicingIsInvisible
  BY TickAdd, CtcUseAssumption DEF CtcTypeOK, TypeOK, SlicingIsInvisible
<1> QED
  BY <1>1, CtcCorrect, PTL

-----------------------------------------------------------------------------
(* The chained pair of MCCtc *)

Pair ==
    INSTANCE CtcChainProofs WITH
        ctc <- pair, clock <- pairClock,
        Scale <- 256, Ratio <- 16, Wrap <- 256, Chained <- TRUE,
        TimerConst <- {0, 8, 72, 255}, CounterConst <- {1, 2, 3, 100, 255},
        Slice <- {921, 3650}, MaxClock <- 60000

\* MCCtc and CtcChainProofs take the same CtcChain with the same constants.
LEMMA SamePulse == \A k, i, n : Chain!ctc_pulse(k, i, n) = Pair!ctc_pulse(k, i, n)
  BY Zenon DEF Chain!ctc_pulse, Pair!ctc_pulse, Chain!Pulsed, Pair!Pulsed,
     Chain!ctc_interrupt, Pair!ctc_interrupt, Chain!Expires, Pair!Expires,
     Chain!CTC_STOPPED, Pair!CTC_STOPPED

LEMMA SameChan ==
    \A c, t : /\ Chain!CTC_STOPPED(c) = Pair!CTC_STOPPED(c) /\ Chain!Reloaded(c) = Pair!Reloaded(c)
              /\ Chain!Period(c) = Pair!Period(c) /\ Chain!Remaining(c, t) = Pair!Remaining(c, t)
              /\ Chain!Wraps(c, t) = Pair!Wraps(c, t)
<1>1. \A c : Chain!CTC_STOPPED(c) = Pair!CTC_STOPPED(c)
  BY Zenon DEF Chain!CTC_STOPPED, Pair!CTC_STOPPED
<1>2. \A c : Chain!Reloaded(c) = Pair!Reloaded(c)
  BY Zenon DEF Chain!Reloaded, Pair!Reloaded
<1>3. \A c : Chain!Period(c) = Pair!Period(c)
  BY Zenon DEF Chain!Period, Pair!Period
<1>4. \A c, t : Chain!Remaining(c, t) = Pair!Remaining(c, t)
  BY Zenon DEF Chain!Remaining, Pair!Remaining
<1>5. \A c, t : Chain!Wraps(c, t) = Pair!Wraps(c, t)
  BY <1>3, <1>4, Zenon DEF Chain!Wraps, Pair!Wraps
<1> QED
  BY <1>1, <1>2, <1>3, <1>4, <1>5, Zenon

LEMMA SameInterrupt == \A k, i : Chain!ctc_interrupt(k, i) = Pair!ctc_interrupt(k, i)
  BY Zenon DEF Chain!ctc_interrupt, Pair!ctc_interrupt

LEMMA SameTimer == \A k, i, t : Chain!TimerTicked(k, i, t) = Pair!TimerTicked(k, i, t)
<1> SUFFICES ASSUME NEW k, NEW i, NEW t  PROVE Chain!TimerTicked(k, i, t) = Pair!TimerTicked(k, i, t)
  OBVIOUS
<1>1. Chain!TimerTicked(k, i, t) =
        IF Chain!CTC_STOPPED(k.ch[i]) \/ k.ch[i].ctrl.counter THEN k
        ELSE IF Chain!Wraps(k.ch[i], t) = 0
        THEN [k EXCEPT !.ch[i].count = Chain!Remaining(k.ch[i], t)
                                           + Chain!Wraps(k.ch[i], t) * Chain!Period(k.ch[i])]
        ELSE Chain!ctc_pulse(Chain!ctc_interrupt(
                 [k EXCEPT !.ch[i].count = Chain!Remaining(k.ch[i], t)
                                               + Chain!Wraps(k.ch[i], t) * Chain!Period(k.ch[i])], i),
                 i, Chain!Wraps(k.ch[i], t))
  BY Zenon DEF Chain!TimerTicked
<1>2. Pair!TimerTicked(k, i, t) =
        IF Pair!CTC_STOPPED(k.ch[i]) \/ k.ch[i].ctrl.counter THEN k
        ELSE IF Pair!Wraps(k.ch[i], t) = 0
        THEN [k EXCEPT !.ch[i].count = Pair!Remaining(k.ch[i], t)
                                           + Pair!Wraps(k.ch[i], t) * Pair!Period(k.ch[i])]
        ELSE Pair!ctc_pulse(Pair!ctc_interrupt(
                 [k EXCEPT !.ch[i].count = Pair!Remaining(k.ch[i], t)
                                               + Pair!Wraps(k.ch[i], t) * Pair!Period(k.ch[i])], i),
                 i, Pair!Wraps(k.ch[i], t))
  BY Zenon DEF Pair!TimerTicked
<1> DEFINE c == k.ch[i]
           v == Chain!Wraps(c, t)
           w == Pair!Wraps(c, t)
           x == [k EXCEPT !.ch[i].count = Chain!Remaining(c, t) + v * Chain!Period(c)]
           y == [k EXCEPT !.ch[i].count = Pair!Remaining(c, t) + w * Pair!Period(c)]
<1>3. Chain!TimerTicked(k, i, t) =
        IF Chain!CTC_STOPPED(c) \/ c.ctrl.counter THEN k ELSE IF v = 0 THEN x
        ELSE Chain!ctc_pulse(Chain!ctc_interrupt(x, i), i, v)
  BY <1>1, Zenon
<1>4. Pair!TimerTicked(k, i, t) =
        IF Pair!CTC_STOPPED(c) \/ c.ctrl.counter THEN k ELSE IF w = 0 THEN y
        ELSE Pair!ctc_pulse(Pair!ctc_interrupt(y, i), i, w)
  BY <1>2, Zenon
<1> HIDE DEF c
<1>5. /\ Chain!CTC_STOPPED(c) = Pair!CTC_STOPPED(c) /\ v = w
      /\ Chain!Period(c) = Pair!Period(c) /\ Chain!Remaining(c, t) = Pair!Remaining(c, t)
  BY SameChan, Zenon
<1>6. x = y
  BY <1>5, Zenon
<1> HIDE DEF v, w, x, y
<1>7. Chain!ctc_interrupt(x, i) = Pair!ctc_interrupt(y, i)
  BY <1>6, SameInterrupt, Zenon
<1>8. Chain!ctc_pulse(Chain!ctc_interrupt(x, i), i, v) = Pair!ctc_pulse(Pair!ctc_interrupt(y, i), i, w)
  BY <1>5, <1>7, SamePulse, Zenon
<1> QED
  BY <1>3, <1>4, <1>5, <1>6, <1>8

LEMMA SameTick == \A k, t : Chain!ctc_tick(k, t) = Pair!ctc_tick(k, t)
  BY SameTimer DEF Chain!ctc_tick, Pair!ctc_tick

LEMMA SameProgram == \A k, i, c, v : Chain!Program(k, i, c, v) = Pair!Program(k, i, c, v)
<1>1. ASSUME NEW k, NEW i, NEW v  PROVE Chain!LoadConstant(k, i, v) = Pair!LoadConstant(k, i, v)
  <2> DEFINE c == [k.ch[i] EXCEPT !.reload = v]
             x == IF Chain!CTC_STOPPED(c) THEN Chain!Reloaded(c) ELSE c
             y == IF Pair!CTC_STOPPED(c) THEN Pair!Reloaded(c) ELSE c
  <2>1. Chain!LoadConstant(k, i, v) = [k EXCEPT !.ch[i] = [x EXCEPT !.ctrl.tconst = FALSE]]
    BY Zenon DEF Chain!LoadConstant
  <2>2. Pair!LoadConstant(k, i, v) = [k EXCEPT !.ch[i] = [y EXCEPT !.ctrl.tconst = FALSE]]
    BY Zenon DEF Pair!LoadConstant
  <2> HIDE DEF c
  <2>3. x = y
    BY SameChan, Zenon
  <2> HIDE DEF x, y
  <2> QED
    BY <2>1, <2>2, <2>3, Zenon
<1>2. ASSUME NEW k, NEW i, NEW w  PROVE Chain!LoadControl(k, i, w) = Pair!LoadControl(k, i, w)
  <2> DEFINE c == [k.ch[i] EXCEPT !.ctrl = w]
             x == IF w.reset /\ ~w.tconst THEN Chain!Reloaded(c) ELSE c
             y == IF w.reset /\ ~w.tconst THEN Pair!Reloaded(c) ELSE c
  <2>1. Chain!LoadControl(k, i, w) = [k EXCEPT !.ch[i] = x, !.irqmask = IF w.irq THEN @ ELSE @ \ {i}]
    BY Zenon DEF Chain!LoadControl
  <2>2. Pair!LoadControl(k, i, w) = [k EXCEPT !.ch[i] = y, !.irqmask = IF w.irq THEN @ ELSE @ \ {i}]
    BY Zenon DEF Pair!LoadControl
  <2> HIDE DEF c
  <2>3. x = y
    BY SameChan, Zenon
  <2> HIDE DEF x, y
  <2> QED
    BY <2>1, <2>2, <2>3, Zenon
<1> QED
  BY <1>1, <1>2 DEF Chain!Program, Pair!Program

LEMMA SameInit == Chain!Init => Pair!Init
<1>1. Chain!CtcCreated = Pair!CtcCreated
  BY Zenon DEF Chain!CtcCreated, Pair!CtcCreated, Chain!CtcChan, Pair!CtcChan
<1>2. \A r2, r3 : Chain!Program(Chain!Program(Chain!CtcCreated, 3, TRUE, r3), 2, FALSE, r2)
                   = Pair!Program(Pair!Program(Pair!CtcCreated, 3, TRUE, r3), 2, FALSE, r2)
  BY <1>1, SameProgram
<1> SUFFICES ASSUME Chain!Init  PROVE Pair!Init
  OBVIOUS
<1> DEFINE R == {0, 8, 72, 255}
           Q == {1, 2, 3, 100, 255}
<1>3. \E r2 \in R, r3 \in Q :
          pair = Chain!Program(Chain!Program(Chain!CtcCreated, 3, TRUE, r3), 2, FALSE, r2)
  BY Zenon DEF Chain!Init
<1> HIDE DEF R, Q
<1>4. \E r2 \in R, r3 \in Q :
          pair = Pair!Program(Pair!Program(Pair!CtcCreated, 3, TRUE, r3), 2, FALSE, r2)
  BY <1>2, <1>3
<1>5. pairClock = 0
  BY Zenon DEF Chain!Init
<1> QED
  BY <1>4, <1>5, Zenon DEF Pair!Init, R, Q

LEMMA SameNext == Chain!Next <=> Pair!Next
  BY SameTick DEF Chain!Next, Pair!Next, Chain!Tick, Pair!Tick

LEMMA SameCounts == Pair!PairCountsExactly <=> Chain!PairCountsExactly
  BY Zenon DEF Chain!PairCountsExactly, Pair!PairCountsExactly, Chain!NoDrift,
     Pair!NoDrift, Chain!DividesExactly, Pair!DividesExactly, Chain!Timeouts,
     Pair!Timeouts, Chain!First, Pair!First, Chain!TimerPeriod, Pair!TimerPeriod

\* Whatever slices of 921 or 3650 clocks the main loop hands to ctc_tick, for any
\* of the time constants at the ends of their range, the pair of the run has
\* counted exactly.
THEOREM PairOfTheRun == MCSpec => []PairCountsExactly
<1>1. Pair!ChainConst
  BY DEF Pair!ChainConst
<1>2. Pair!Spec => []Pair!PairCountsExactly
  BY <1>1, Pair!PairCounts
<1>3. MCInit => Pair!Init
  BY SameInit, Zenon DEF MCInit
<1>4. [MCNext]_<<ctc, pair, pairClock, alone>> => [Pair!Next]_Pair!vars
  <2> SUFFICES ASSUME [MCNext]_<<ctc, pair, pairClock, alone>>
               PROVE  [Pair!Next]_Pair!vars
    OBVIOUS
  <2>1. CASE AnySoftware
    BY <2>1, Zenon DEF AnySoftware, Pair!vars
  <2>2. CASE ChainedPair
    BY <2>2, SameNext, Zenon DEF ChainedPair
  <2>3. CASE UNCHANGED <<ctc, pair, pairClock, alone>>
    BY <2>3, Zenon DEF Pair!vars
  <2> QED
    BY <2>1, <2>2, <2>3, Zenon DEF MCNext
<1>5. Pair!PairCountsExactly => PairCountsExactly
  BY SameCounts, Zenon DEF PairCountsExactly
<1>6. MCSpec => Pair!Spec
  BY <1>3, <1>4, PTL DEF MCSpec, Pair!Spec
<1> QED
  BY <1>2, <1>5, <1>6, PTL
=============================================================================
