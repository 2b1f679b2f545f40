---------------------------- MODULE Z80CtcProofs ----------------------------
(***************************************************************************)
(* What the operators of Z80Ctc do to a chip, for every prescaler, every   *)
(* number of time constants and every length of a slice.                   *)
(***************************************************************************)
EXTENDS Z80Ctc, TLAPS, WellFoundedInduction

-----------------------------------------------------------------------------
(* Induction and arithmetic *)

\* Induction over the natural numbers, with the induction hypothesis a set.
LEMMA SetInduction ==
    ASSUME NEW S, 0 \in S, \A n \in Nat : n \in S => n + 1 \in S
    PROVE  \A n \in Nat : n \in S
<1> DEFINE T == Nat \ S
           R == OpToRel(<, Nat)
<1> SUFFICES ASSUME T # {}  PROVE FALSE
  OBVIOUS
<1>1. PICK x \in T : \A y \in T : ~(<<y, x>> \in R)
  <2> HIDE DEF R
  <2>1. IsWellFoundedOn(R, Nat)
    BY NatLessThanWellFounded DEF R
  <2>2. T \subseteq Nat
    OBVIOUS
  <2> HIDE DEF T
  <2> QED
    BY <2>1, <2>2, WFMin
<1>2. x \in Nat /\ x # 0
  OBVIOUS
<1>3. x - 1 \in Nat /\ (x - 1) + 1 = x
  BY <1>2
<1>4. x - 1 \in T
  BY <1>2, <1>3
<1>5. <<x - 1, x>> \in R
  BY <1>2, <1>3 DEF OpToRel
<1> QED
  BY <1>1, <1>4, <1>5

\* A reloaded count fits.
LEMMA ReloadFits ==
    ASSUME NEW v \in 0 .. Wrap - 1
    PROVE  v * Scale \in 0 .. Scale * Wrap - 1
  BY CtcAssumption

\* Division with remainder.
LEMMA DivRest ==
    ASSUME NEW x \in Nat, NEW p \in Nat \ {0}
    PROVE  x \div p \in Nat /\ \E r \in 0 .. p - 1 : x = p * (x \div p) + r
  OBVIOUS

\* Only one multiple of p brings n into a period.
LEMMA OneTurn ==
    ASSUME NEW u \in Nat, NEW v \in Nat, NEW p \in Nat \ {0}, NEW n \in Int,
           n + u * p \in 0 .. p - 1, n + v * p \in 0 .. p - 1
    PROVE  u = v
  OBVIOUS

-----------------------------------------------------------------------------
(* One channel *)

\* What a pulse and a slice do to channel c, number i, and the interrupt they
\* make it want; how often it times out in the slice.
PulsedChan(c) ==
    IF ~c.ctrl.counter \/ CTC_STOPPED(c) THEN c
    ELSE [c EXCEPT !.count = IF Expires(c) THEN c.reload * Scale ELSE c.count - Scale]

PulseIrq(c, i) == IF Expires(c) /\ c.ctrl.irq THEN {i} ELSE {}

TimerRuns(c) == ~CTC_STOPPED(c) /\ ~c.ctrl.counter

TimerChan(c, t) ==
    IF TimerRuns(c) THEN [c EXCEPT !.count = Remaining(c, t) + Wraps(c, t) * Period(c)] ELSE c

Turns(c, t) == IF TimerRuns(c) THEN Wraps(c, t) ELSE 0

TimerIrq(c, i, t) == IF Turns(c, t) # 0 /\ c.ctrl.irq THEN {i} ELSE {}

\* One channel of the chip changes, and new interrupts are wanted.
WithChan(k, i, c, irqs) == [k EXCEPT !.ch[i] = c, !.irqmask = @ \cup irqs]

LEMMA WithChanType ==
    ASSUME NEW k \in CtcState, NEW i \in CtcChan, NEW c \in CtcChanState,
           NEW irqs \in SUBSET CtcChan
    PROVE  /\ WithChan(k, i, c, irqs) \in CtcState
           /\ WithChan(k, i, c, irqs).ch[i] = c
           /\ \A j \in CtcChan \ {i} : WithChan(k, i, c, irqs).ch[j] = k.ch[j]
           /\ WithChan(k, i, c, irqs).irqmask = k.irqmask \cup irqs
           /\ WithChan(k, i, c, irqs).vector = k.vector
  BY DEF WithChan, CtcState

\* A channel keeps its control word and its constant through a pulse, and its
\* count in range.
LEMMA PulsedChanType ==
    ASSUME NEW c \in CtcChanState
    PROVE  /\ PulsedChan(c) \in CtcChanState
           /\ PulsedChan(c).ctrl = c.ctrl /\ PulsedChan(c).reload = c.reload
           /\ \A i \in CtcChan : PulseIrq(c, i) \in SUBSET CtcChan
<1>1. /\ c.ctrl \in Control /\ c.count \in 0 .. Scale * Wrap - 1 /\ c.reload \in 0 .. Wrap - 1
      /\ Scale \in Nat \ {0}
  BY CtcAssumption DEF CtcChanState
<1>2. c.reload * Scale \in 0 .. Scale * Wrap - 1
  BY <1>1, ReloadFits
<1>3. ~Expires(c) /\ c.ctrl.counter /\ ~CTC_STOPPED(c) => c.count - Scale \in 0 .. Scale * Wrap - 1
  <2> DEFINE top == Scale * Wrap - 1
  <2>1. top \in Int
    BY CtcAssumption
  <2> HIDE DEF top
  <2>2. c.count \in 0 .. top /\ ~Expires(c) /\ c.ctrl.counter /\ ~CTC_STOPPED(c)
          => c.count - Scale \in 0 .. top
    BY <1>1, <2>1 DEF Expires
  <2> QED
    BY <1>1, <2>2 DEF top
<1>4. ASSUME NEW n \in 0 .. Scale * Wrap - 1
      PROVE  /\ [c EXCEPT !.count = n] \in CtcChanState
             /\ [c EXCEPT !.count = n].ctrl = c.ctrl
             /\ [c EXCEPT !.count = n].reload = c.reload
  BY DEF CtcChanState
<1>5. \A i \in CtcChan : PulseIrq(c, i) \in SUBSET CtcChan
  BY DEF PulseIrq
<1> QED
  BY <1>2, <1>3, <1>4, <1>5 DEF PulsedChan

\* The period of a timer, and what is left of its count.
LEMMA TimerNumbers ==
    ASSUME NEW c \in CtcChanState, NEW t \in Nat
    PROVE  /\ Period(c) \in Nat \ {0} /\ Period(c) <= Scale * Wrap
           /\ Remaining(c, t) \in Int /\ Remaining(c, t) <= c.count
           /\ Wraps(c, t) \in Nat
           /\ Wraps(c, t) = 0 <=> Remaining(c, t) >= 0
           /\ Wraps(c, t) # 0 => Remaining(c, t) + Wraps(c, t) * Period(c) \in 0 .. Period(c) - 1
<1> DEFINE p == Period(c)
           n == Remaining(c, t)
           w == Wraps(c, t)
<1>1. c.count \in Nat /\ c.reload \in 0 .. Wrap - 1
  BY CtcAssumption DEF CtcChanState
<1>2. p \in Nat \ {0} /\ p <= Scale * Wrap
  BY <1>1, CtcAssumption DEF Period
<1>3. n \in Int /\ n <= c.count
  <2>1. t * Ratio \in Nat
    BY CtcAssumption
  <2> QED
    BY <1>1, <2>1 DEF Remaining
<1>4. CASE n >= 0
  BY <1>2, <1>3, <1>4 DEF Wraps
<1>5. CASE n < 0
  <2>1. w = (p - 1 - n) \div p
    BY <1>3, <1>5 DEF Wraps
  <2> HIDE DEF p, n, w
  <2>2. p - 1 - n \in Nat /\ p - 1 - n >= p
    BY <1>2, <1>3, <1>5
  <2>3. w \in Nat /\ \E r \in 0 .. p - 1 : p - 1 - n = p * w + r
    BY <1>2, <2>1, <2>2, DivRest
  <2>4. PICK r \in 0 .. p - 1 : p - 1 - n = p * w + r
    BY <2>3
  <2>5. w # 0
    BY <1>2, <2>2, <2>3, <2>4
  <2>6. n + w * p = p - 1 - r
    BY <1>2, <1>3, <2>3, <2>4
  <2>7. n + w * p \in 0 .. p - 1
    BY <1>2, <2>4, <2>6
  <2> QED
    BY <1>2, <1>3, <1>5, <2>3, <2>5, <2>7 DEF p, n, w
<1> QED
  BY <1>3, <1>4, <1>5

\* The same for a slice: whatever its length, ctc_tick's while loop brings the
\* count back into range.
LEMMA TimerChanType ==
    ASSUME NEW c \in CtcChanState, NEW t \in Nat
    PROVE  /\ TimerChan(c, t) \in CtcChanState
           /\ TimerChan(c, t).ctrl = c.ctrl /\ TimerChan(c, t).reload = c.reload
           /\ Turns(c, t) \in Nat
           /\ \A i \in CtcChan : TimerIrq(c, i, t) \in SUBSET CtcChan
           /\ TimerRuns(c) => TimerChan(c, t).count = Remaining(c, t) + Wraps(c, t) * Period(c)
<1> DEFINE m == Remaining(c, t) + Wraps(c, t) * Period(c)
<1>1. c.ctrl \in Control /\ c.count \in 0 .. Scale * Wrap - 1 /\ Scale * Wrap \in Nat
  BY CtcAssumption DEF CtcChanState
<1>2. m \in 0 .. Scale * Wrap - 1
  <2>1. CASE Remaining(c, t) >= 0
    <3>1. m = Remaining(c, t)
      BY <2>1, TimerNumbers
    <3> QED
      BY <1>1, <2>1, <3>1, TimerNumbers
  <2>2. CASE Remaining(c, t) < 0
    <3>1. m \in 0 .. Period(c) - 1 /\ Period(c) \in Nat /\ Period(c) <= Scale * Wrap
      BY <2>2, TimerNumbers
    <3> HIDE DEF m
    <3> QED
      BY <1>1, <3>1
  <2> QED
    BY <2>1, <2>2, TimerNumbers
<1>3. Wraps(c, t) \in Nat
  BY TimerNumbers
<1>4. Turns(c, t) \in Nat /\ \A i \in CtcChan : TimerIrq(c, i, t) \in SUBSET CtcChan
  BY <1>1, <1>3 DEF Turns, TimerIrq
<1> HIDE DEF m
<1>5. /\ [c EXCEPT !.count = m] \in CtcChanState
      /\ [c EXCEPT !.count = m].ctrl = c.ctrl
      /\ [c EXCEPT !.count = m].reload = c.reload
      /\ [c EXCEPT !.count = m].count = m
  BY <1>2 DEF CtcChanState
<1> QED
  BY <1>4, <1>5 DEF TimerChan, m

-----------------------------------------------------------------------------
(* Pulses *)

\* Pulsed, ctc_interrupt included, changes one channel.
LEMMA PulsedIs ==
    ASSUME NEW k \in CtcState, NEW i \in CtcChan
    PROVE  /\ Pulsed(k, i) = WithChan(k, i, PulsedChan(k.ch[i]), PulseIrq(k.ch[i], i))
           /\ Pulsed(k, i) \in CtcState
<1>1. k.ch[i] \in CtcChanState
  BY DEF CtcState
<1>2. Pulsed(k, i) = WithChan(k, i, PulsedChan(k.ch[i]), PulseIrq(k.ch[i], i))
  BY <1>1 DEF Pulsed, WithChan, PulsedChan, PulseIrq, ctc_interrupt, Expires, CtcState,
              CtcChanState
<1>3. WithChan(k, i, PulsedChan(k.ch[i]), PulseIrq(k.ch[i], i)) \in CtcState
  BY <1>1, PulsedChanType, WithChanType
<1> QED
  BY <1>2, <1>3

\* The chip after n pulses into channel 3, as ctc_pulse computes it.
PulsesBody(k, n, f) == [m \in 0 .. n |-> IF m = 0 THEN k ELSE Pulsed(f[m - 1], 3)]

AfterPulses(k, n) ==
    LET after[m \in 0 .. n] == IF m = 0 THEN k ELSE Pulsed(after[m - 1], 3) IN after[n]

\* The recursion of ctc_pulse has a solution, for every number of pulses.
LEMMA PulsesExist ==
    ASSUME NEW k
    PROVE  \A n \in Nat : \E f : f = PulsesBody(k, n, f)
<1> DEFINE S == {n \in Nat : \E f : f = PulsesBody(k, n, f)}
<1>1. 0 \in S
  <2> DEFINE f == [m \in 0 .. 0 |-> k]
  <2>1. f = PulsesBody(k, 0, f)
    BY DEF PulsesBody
  <2> HIDE DEF f
  <2> QED
    BY <2>1
<1>2. ASSUME NEW n \in Nat, n \in S  PROVE n + 1 \in S
  <2>1. PICK f : f = PulsesBody(k, n, f)
    BY <1>2
  <2> DEFINE g == [m \in 0 .. n + 1 |-> IF m = n + 1 THEN Pulsed(f[n], 3) ELSE f[m]]
  <2>2. \A m \in 0 .. n : f[m] = IF m = 0 THEN k ELSE Pulsed(f[m - 1], 3)
    BY <2>1 DEF PulsesBody
  <2>3. \A m \in 0 .. n + 1 : g[m] = IF m = 0 THEN k ELSE Pulsed(g[m - 1], 3)
    <3> TAKE m \in 0 .. n + 1
    <3>1. CASE m = n + 1
      BY <3>1
    <3>2. CASE m # n + 1 /\ m # 0
      <4>1. m \in 0 .. n /\ m - 1 \in 0 .. n + 1 /\ m - 1 # n + 1
        BY <3>2
      <4>2. g[m] = f[m] /\ g[m - 1] = f[m - 1]
        BY <3>2, <4>1
      <4> QED
        BY <2>2, <3>2, <4>1, <4>2
    <3>3. CASE m = 0
      BY <2>2, <3>3
    <3> QED
      BY <3>1, <3>2, <3>3
  <2>4. g = [m \in 0 .. n + 1 |-> g[m]]
    OBVIOUS
  <2> HIDE DEF g
  <2>5. g = PulsesBody(k, n + 1, g)
    BY <2>3, <2>4 DEF PulsesBody
  <2> QED
    BY <2>5
<1> HIDE DEF S
<1>3. \A n \in Nat : n \in S
  BY <1>1, <1>2, SetInduction
<1> QED
  BY <1>3 DEF S

\* So the function ctc_pulse defines obeys its recursion,
LEMMA PulsesSolve ==
    ASSUME NEW k, NEW n \in Nat
    PROVE  \E f : f = PulsesBody(k, n, f) /\ AfterPulses(k, n) = f[n]
<1> DEFINE g == CHOOSE f : f = PulsesBody(k, n, f)
<1>1. AfterPulses(k, n) = g[n]
  BY DEF AfterPulses, PulsesBody
<1>2. g = PulsesBody(k, n, g)
  BY PulsesExist
<1> QED
  BY <1>1, <1>2

\* which has one solution.
LEMMA PulsesAgree ==
    ASSUME NEW k, NEW n \in Nat, NEW m \in Nat, NEW f, NEW g,
           f = PulsesBody(k, n, f), g = PulsesBody(k, m, g), n <= m
    PROVE  f[n] = g[n]
<1> DEFINE S == {i \in Nat : i <= n => f[i] = g[i]}
<1>1. \A i \in 0 .. n : f[i] = IF i = 0 THEN k ELSE Pulsed(f[i - 1], 3)
  BY DEF PulsesBody
<1>2. \A i \in 0 .. m : g[i] = IF i = 0 THEN k ELSE Pulsed(g[i - 1], 3)
  BY DEF PulsesBody
<1>3. 0 \in S
  BY <1>1, <1>2
<1>4. ASSUME NEW i \in Nat, i \in S  PROVE i + 1 \in S
  <2> SUFFICES ASSUME i + 1 <= n  PROVE f[i + 1] = g[i + 1]
    BY DEF S
  <2>1. i + 1 \in 0 .. n /\ i + 1 \in 0 .. m /\ i + 1 # 0 /\ (i + 1) - 1 = i /\ f[i] = g[i]
    BY <1>4
  <2> QED
    BY <1>1, <1>2, <2>1
<1> HIDE DEF S
<1>5. n \in S
  BY <1>3, <1>4, SetInduction
<1> QED
  BY <1>5 DEF S

\* One more pulse, and none.
LEMMA PulsesStep ==
    ASSUME NEW k, NEW n \in Nat
    PROVE  /\ AfterPulses(k, 0) = k
           /\ AfterPulses(k, n + 1) = Pulsed(AfterPulses(k, n), 3)
<1>1. PICK f : f = PulsesBody(k, n, f) /\ AfterPulses(k, n) = f[n]
  BY PulsesSolve
<1>2. PICK g : g = PulsesBody(k, n + 1, g) /\ AfterPulses(k, n + 1) = g[n + 1]
  BY PulsesSolve
<1>3. PICK h : h = PulsesBody(k, 0, h) /\ AfterPulses(k, 0) = h[0]
  BY PulsesSolve
<1>4. h[0] = k
  BY <1>3 DEF PulsesBody
<1>5. g[n + 1] = Pulsed(g[n], 3)
  BY <1>2 DEF PulsesBody
<1>6. f[n] = g[n]
  BY <1>1, <1>2, PulsesAgree
<1> QED
  BY <1>1, <1>2, <1>3, <1>4, <1>5, <1>6

\* Any number of pulses, ctc_pulse's while channel 2 clocks channel 3.
LEMMA PulseIs ==
    ASSUME NEW k, NEW i, NEW n
    PROVE  ctc_pulse(k, i, n) = IF i = 2 /\ Chained THEN AfterPulses(k, n) ELSE k
  BY DEF ctc_pulse, AfterPulses

\* Pulses keep the types.
LEMMA PulsesType ==
    ASSUME NEW k \in CtcState
    PROVE  \A n \in Nat : AfterPulses(k, n) \in CtcState
<1> DEFINE S == {n \in Nat : AfterPulses(k, n) \in CtcState}
<1>1. 0 \in S
  BY PulsesStep
<1>2. ASSUME NEW n \in Nat, n \in S  PROVE n + 1 \in S
  <2>1. Pulsed(AfterPulses(k, n), 3) \in CtcState
    BY <1>2, PulsedIs DEF CtcChan
  <2> QED
    BY <2>1, PulsesStep
<1> HIDE DEF S
<1>3. \A n \in Nat : n \in S
  BY <1>1, <1>2, SetInduction
<1> QED
  BY <1>3 DEF S

\* m pulses and then n are m + n pulses.
LEMMA PulsesAdd ==
    ASSUME NEW k, NEW m \in Nat
    PROVE  \A n \in Nat : AfterPulses(AfterPulses(k, m), n) = AfterPulses(k, m + n)
<1> DEFINE S == {n \in Nat : AfterPulses(AfterPulses(k, m), n) = AfterPulses(k, m + n)}
<1>1. 0 \in S
  BY PulsesStep
<1>2. ASSUME NEW n \in Nat, n \in S  PROVE n + 1 \in S
  <2>1. m + n \in Nat /\ m + (n + 1) = (m + n) + 1
    OBVIOUS
  <2>2. AfterPulses(k, m + (n + 1)) = Pulsed(AfterPulses(k, m + n), 3)
    BY <2>1, PulsesStep
  <2>3. AfterPulses(AfterPulses(k, m), n + 1) = Pulsed(AfterPulses(AfterPulses(k, m), n), 3)
    BY PulsesStep
  <2> QED
    BY <1>2, <2>2, <2>3
<1> HIDE DEF S
<1>3. \A n \in Nat : n \in S
  BY <1>1, <1>2, SetInduction
<1> QED
  BY <1>3 DEF S

\* What n pulses make of channel 3, seen in a chip where nothing is pending.
Only(c)        == [CtcCreated EXCEPT !.ch[3] = c]
PulsedTo(c, n) == AfterPulses(Only(c), n).ch[3]
PulsesIrq(c, n) == AfterPulses(Only(c), n).irqmask

LEMMA CtcCreatedType == CtcCreated \in CtcState /\ CtcCreated.irqmask = {}
<1> DEFINE w == [irq |-> FALSE, counter |-> FALSE, presc |-> FALSE, tconst |-> FALSE,
                 reset |-> TRUE]
           c == [ctrl |-> w, count |-> 0, reload |-> 0]
<1>1. w \in Control
  BY DEF Control
<1>2. 0 \in 0 .. Scale * Wrap - 1 /\ 0 \in 0 .. Wrap - 1
  BY CtcAssumption
<1> HIDE DEF w
<1>3. c \in CtcChanState
  BY <1>1, <1>2 DEF CtcChanState
<1> HIDE DEF c
<1> QED
  BY <1>3 DEF CtcCreated, CtcState, c, w

LEMMA OnlyType ==
    ASSUME NEW c \in CtcChanState
    PROVE  Only(c) \in CtcState /\ Only(c).irqmask = {} /\ Only(c).ch[3] = c
  BY CtcCreatedType DEF Only, CtcState, CtcChan

\* Pulses only see and change channel 3.
LEMMA PulsesAre ==
    ASSUME NEW k \in CtcState
    PROVE  \A n \in Nat :
             /\ AfterPulses(k, n) = WithChan(k, 3, PulsedTo(k.ch[3], n), PulsesIrq(k.ch[3], n))
             /\ PulsedTo(k.ch[3], n) \in CtcChanState /\ PulsesIrq(k.ch[3], n) \in SUBSET CtcChan
<1> DEFINE c == k.ch[3]
           o == Only(c)
           S == {n \in Nat : AfterPulses(k, n) = WithChan(k, 3, PulsedTo(c, n), PulsesIrq(c, n))}
<1>0. 3 \in CtcChan /\ c \in CtcChanState
  BY DEF CtcState, CtcChan
<1>1. o \in CtcState /\ o.irqmask = {} /\ o.ch[3] = c
  BY <1>0, OnlyType
<1>2. \A n \in Nat : /\ AfterPulses(o, n) \in CtcState
                     /\ PulsedTo(c, n) \in CtcChanState /\ PulsesIrq(c, n) \in SUBSET CtcChan
  BY ZenonT(60), <1>0, <1>1, PulsesType DEF PulsedTo, PulsesIrq, CtcState
<1>3. 0 \in S
  <2>1. PulsedTo(c, 0) = c /\ PulsesIrq(c, 0) = {}
    BY <1>1, PulsesStep DEF PulsedTo, PulsesIrq
  <2>2. WithChan(k, 3, c, {}) = k
    BY <1>0 DEF WithChan, CtcState
  <2> QED
    BY <2>1, <2>2, PulsesStep
<1>4. ASSUME NEW n \in Nat, n \in S  PROVE n + 1 \in S
  <2> DEFINE x == AfterPulses(k, n)
             y == AfterPulses(o, n)
             d == PulsedTo(c, n)
             f == PulsesIrq(c, n)
             e == PulsedChan(d)
             g == PulseIrq(d, 3)
  <2>1. AfterPulses(k, n + 1) = Pulsed(x, 3) /\ AfterPulses(o, n + 1) = Pulsed(y, 3)
    BY PulsesStep
  <2>2. x = WithChan(k, 3, d, f) /\ y.ch[3] = d /\ y.irqmask = f
    BY <1>4 DEF PulsedTo, PulsesIrq
  <2>3. d \in CtcChanState /\ f \in SUBSET CtcChan /\ x \in CtcState /\ y \in CtcState
    BY <1>2, PulsesType
  <2>4. e \in CtcChanState /\ g \in SUBSET CtcChan
    BY <1>0, <2>3, PulsedChanType
  <2>5. PulsedTo(c, n + 1) = AfterPulses(o, n + 1).ch[3]
        /\ PulsesIrq(c, n + 1) = AfterPulses(o, n + 1).irqmask
    BY DEF PulsedTo, PulsesIrq
  <2> HIDE DEF x, y, d, f
  <2>6. x.ch[3] = d
    BY <1>0, <2>2, <2>3, WithChanType
  <2>7. Pulsed(x, 3) = WithChan(x, 3, e, g) /\ Pulsed(y, 3) = WithChan(y, 3, e, g)
    BY <1>0, <2>2, <2>3, <2>6, PulsedIs
  <2> HIDE DEF e, g
  <2>8. PulsedTo(c, n + 1) = e
    BY <1>0, <2>1, <2>3, <2>4, <2>5, <2>7, WithChanType
  <2>9. PulsesIrq(c, n + 1) = f \cup g
    BY <1>0, <2>1, <2>2, <2>3, <2>4, <2>5, <2>7, WithChanType
  <2>10. WithChan(x, 3, e, g) = WithChan(k, 3, e, f \cup g)
    BY ZenonT(60), <1>0, <2>2, <2>3, <2>4 DEF WithChan, CtcState
  <2>11. AfterPulses(k, n + 1) = WithChan(k, 3, PulsedTo(c, n + 1), PulsesIrq(c, n + 1))
    BY Zenon, <2>1, <2>7, <2>8, <2>9, <2>10
  <2>12. n + 1 \in Nat
    OBVIOUS
  <2> QED
    BY Zenon, <2>11, <2>12
<1> HIDE DEF S
<1>5. \A n \in Nat : n \in S
  BY <1>3, <1>4, SetInduction
<1> QED
  BY <1>2, <1>5 DEF S

\* A channel that is not counting does not see them, and a channel that is
\* keeps its control word.
LEMMA PulsesKeep ==
    ASSUME NEW c \in CtcChanState
    PROVE  \A n \in Nat : /\ PulsedTo(c, n).ctrl = c.ctrl
                          /\ TimerRuns(c) => PulsedTo(c, n) = c /\ PulsesIrq(c, n) = {}
                          /\ PulsesIrq(c, n) # {} => c.ctrl.irq /\ PulsesIrq(c, n) = {3}
<1> DEFINE o == Only(c)
           S == {n \in Nat : /\ PulsedTo(c, n).ctrl = c.ctrl
                             /\ TimerRuns(c) => PulsedTo(c, n) = c /\ PulsesIrq(c, n) = {}
                             /\ PulsesIrq(c, n) # {} => c.ctrl.irq /\ PulsesIrq(c, n) = {3}}
<1>0. 3 \in CtcChan
  BY DEF CtcChan
<1>1. o \in CtcState /\ o.irqmask = {} /\ o.ch[3] = c
  BY OnlyType
<1>2. 0 \in S
  BY <1>1, PulsesStep DEF PulsedTo, PulsesIrq
<1>3. ASSUME NEW n \in Nat, n \in S  PROVE n + 1 \in S
  <2> DEFINE y == AfterPulses(o, n)
             d == y.ch[3]
  <2>1. AfterPulses(o, n + 1) = Pulsed(y, 3) /\ y \in CtcState
    BY <1>1, PulsesStep, PulsesType
  <2>2. /\ d.ctrl = c.ctrl /\ (TimerRuns(c) => d = c /\ y.irqmask = {})
        /\ y.irqmask # {} => c.ctrl.irq /\ y.irqmask = {3}
    BY <1>3 DEF PulsedTo, PulsesIrq
  <2>3. PulsedTo(c, n + 1) = Pulsed(y, 3).ch[3] /\ PulsesIrq(c, n + 1) = Pulsed(y, 3).irqmask
    BY <2>1 DEF PulsedTo, PulsesIrq
  <2> HIDE DEF y
  <2>4. d \in CtcChanState
    BY <1>0, <2>1 DEF CtcState
  <2>5. /\ PulsedChan(d) \in CtcChanState /\ PulsedChan(d).ctrl = d.ctrl
        /\ PulseIrq(d, 3) \in SUBSET CtcChan
    BY <1>0, <2>4, PulsedChanType
  <2>6. Pulsed(y, 3) = WithChan(y, 3, PulsedChan(d), PulseIrq(d, 3))
    BY <1>0, <2>1, PulsedIs
  <2>7. PulsedTo(c, n + 1) = PulsedChan(d) /\ PulsesIrq(c, n + 1) = y.irqmask \cup PulseIrq(d, 3)
    BY <1>0, <2>1, <2>3, <2>5, <2>6, WithChanType
  <2>8. /\ TimerRuns(c) => PulsedChan(d) = d /\ PulseIrq(d, 3) = {}
        /\ PulseIrq(d, 3) # {} => c.ctrl.irq /\ PulseIrq(d, 3) = {3}
    BY <2>2 DEF TimerRuns, PulsedChan, PulseIrq, Expires
  <2>9. /\ TimerRuns(c) => PulsedTo(c, n + 1) = c /\ PulsesIrq(c, n + 1) = {}
        /\ PulsesIrq(c, n + 1) # {} => c.ctrl.irq /\ PulsesIrq(c, n + 1) = {3}
    BY <2>2, <2>7, <2>8
  <2> QED
    BY <2>2, <2>5, <2>7, <2>9
<1> HIDE DEF S
<1>4. \A n \in Nat : n \in S
  BY <1>2, <1>3, SetInduction
<1> QED
  BY <1>4 DEF S

\* Pulses into one channel add up too.
LEMMA PulsedToAdd ==
    ASSUME NEW c \in CtcChanState, NEW m \in Nat, NEW n \in Nat
    PROVE  /\ PulsedTo(PulsedTo(c, m), n) = PulsedTo(c, m + n)
           /\ PulsesIrq(c, m) \cup PulsesIrq(PulsedTo(c, m), n) = PulsesIrq(c, m + n)
<1> DEFINE o == Only(c)
           x == AfterPulses(o, m)
           d == PulsedTo(c, m)
<1>1. 3 \in CtcChan /\ o \in CtcState /\ o.irqmask = {} /\ o.ch[3] = c
  BY OnlyType DEF CtcChan
<1>2. x \in CtcState /\ x.ch[3] = d /\ x.irqmask = PulsesIrq(c, m)
  BY <1>1, PulsesType DEF PulsedTo, PulsesIrq
<1>3. AfterPulses(x, n) = AfterPulses(o, m + n)
  BY PulsesAdd
<1> HIDE DEF x, d
<1>4. /\ AfterPulses(x, n) = WithChan(x, 3, PulsedTo(d, n), PulsesIrq(d, n))
      /\ PulsedTo(d, n) \in CtcChanState /\ PulsesIrq(d, n) \in SUBSET CtcChan
  BY <1>2, PulsesAre
<1>5. /\ AfterPulses(x, n).ch[3] = PulsedTo(d, n)
      /\ AfterPulses(x, n).irqmask = x.irqmask \cup PulsesIrq(d, n)
  BY <1>1, <1>2, <1>4, WithChanType
<1> QED
  BY <1>2, <1>3, <1>5 DEF PulsedTo, PulsesIrq, d

-----------------------------------------------------------------------------
(* Slices *)

\* Two slices leave a timer where one of their sum leaves it, after as many
\* timeouts.
LEMMA TimerAdd ==
    ASSUME NEW c \in CtcChanState, NEW a \in Nat, NEW b \in Nat, NEW t, t = a + b
    PROVE  /\ TimerChan(TimerChan(c, a), b) = TimerChan(c, t)
           /\ Turns(c, a) + Turns(TimerChan(c, a), b) = Turns(c, t)
<1> DEFINE d == TimerChan(c, a)
           p == Period(c)
           w == Wraps(c, a)
           x == Wraps(d, b)
           y == Wraps(c, t)
<1>1. /\ d \in CtcChanState /\ d.ctrl = c.ctrl /\ d.reload = c.reload
      /\ TimerRuns(c) => d.count = Remaining(c, a) + w * p
  BY TimerChanType
<1>2. Period(d) = p /\ (TimerRuns(d) <=> TimerRuns(c))
  BY <1>1 DEF Period, TimerRuns, CTC_STOPPED
<1>3. CASE ~TimerRuns(c)
  BY <1>3 DEF TimerChan, Turns
<1>4. CASE TimerRuns(c)
  <2>1. t \in Nat
    OBVIOUS
  <2>2. /\ p \in Nat \ {0} /\ w \in Nat /\ x \in Nat /\ y \in Nat
        /\ Remaining(c, a) \in Int /\ Remaining(d, b) \in Int /\ Remaining(c, t) \in Int
        /\ w = 0 <=> Remaining(c, a) >= 0
        /\ x = 0 <=> Remaining(d, b) >= 0
        /\ y = 0 <=> Remaining(c, t) >= 0
        /\ w # 0 => Remaining(c, a) + w * p \in 0 .. p - 1
        /\ x # 0 => Remaining(d, b) + x * p \in 0 .. p - 1
        /\ y # 0 => Remaining(c, t) + y * p \in 0 .. p - 1
    BY <1>1, <1>2, <2>1, TimerNumbers
  <2> DEFINE e == IF c.ctrl.presc THEN b ELSE b * Ratio
             n == Remaining(c, a)
  <2>3. e \in Nat /\ Remaining(c, t) = n - e /\ Remaining(d, b) = n + w * p - e
    <3>1. /\ e \in Nat /\ c.count \in Int /\ n \in Int /\ w * p \in Int
          /\ (a + b) * Ratio = a * Ratio + b * Ratio
          /\ a * Ratio \in Nat /\ b * Ratio \in Nat
      BY <2>2, CtcAssumption DEF CtcChanState
    <3>2. Remaining(c, t) = n - e
      BY <3>1 DEF Remaining
    <3>3. Remaining(d, b) = d.count - e
      BY <1>1 DEF Remaining
    <3> QED
      BY <1>1, <1>4, <3>1, <3>2, <3>3
  <2> HIDE DEF e, n, p, w, x, y, d
  <2>4. w + x = y
    <3>1. CASE n - e >= 0
      <4>1. n >= 0 /\ w = 0 /\ w * p = 0 /\ y = 0
        BY <2>2, <2>3, <3>1 DEF n
      <4> QED
        BY <2>2, <2>3, <3>1, <4>1 DEF n
    <3>2. CASE n - e < 0
      <4>1. y # 0 /\ (n - e) + y * p \in 0 .. p - 1
        BY <2>2, <2>3, <3>2
      <4>2. (w + x) * p = w * p + x * p /\ w * p \in Int /\ x * p \in Int
        BY <2>2
      <4>3. (n - e) + (w + x) * p \in 0 .. p - 1
        <5>1. CASE x # 0
          <6>1. (n + w * p - e) + x * p \in 0 .. p - 1
            BY <2>2, <2>3, <5>1
          <6> QED
            BY <2>2, <2>3, <4>2, <6>1 DEF n
        <5>2. CASE x = 0
          <6>1. n + w * p - e >= 0 /\ x * p = 0
            BY <2>2, <2>3, <5>2
          <6>2. w # 0
            BY <2>2, <2>3, <3>2, <6>1 DEF n
          <6>3. n + w * p \in 0 .. p - 1
            BY <2>2, <6>2 DEF n
          <6> QED
            BY <2>2, <2>3, <4>2, <6>1, <6>3 DEF n
        <5> QED
          BY <5>1, <5>2
      <4>4. n - e \in Int /\ w + x \in Nat
        BY <2>2, <2>3
      <4> QED
        BY <2>2, <4>1, <4>3, <4>4, OneTurn
    <3> QED
      BY <2>2, <2>3, <3>1, <3>2 DEF n
  <2>5. Remaining(d, b) + x * p = Remaining(c, t) + y * p
    <3>1. y * p = w * p + x * p /\ w * p \in Int /\ x * p \in Int
      BY <2>2, <2>4
    <3> QED
      BY <2>2, <2>3, <3>1 DEF n
  <2>6. /\ TimerChan(d, b) = [d EXCEPT !.count = Remaining(d, b) + x * p]
        /\ TimerChan(c, t) = [c EXCEPT !.count = Remaining(c, t) + y * p]
    BY <1>2, <1>4 DEF TimerChan, x, y, p
  <2>7. TimerChan(d, b) = TimerChan(c, t)
    BY <1>1, <2>5, <2>6 DEF CtcChanState
  <2>8. Turns(c, a) = w /\ Turns(d, b) = x /\ Turns(c, t) = y
    BY <1>2, <1>4 DEF Turns, w, x, y
  <2> QED
    BY <2>4, <2>7, <2>8 DEF d
<1> QED
  BY <1>3, <1>4

\* And it has asked for an interrupt in one of the two if it does in their sum.
LEMMA TimerIrqAdd ==
    ASSUME NEW c \in CtcChanState, NEW i \in CtcChan, NEW a \in Nat, NEW b \in Nat, NEW t, t = a + b
    PROVE  TimerIrq(c, i, t) = TimerIrq(c, i, a) \cup TimerIrq(TimerChan(c, a), i, b)
<1> DEFINE d == TimerChan(c, a)
<1>1. d \in CtcChanState /\ d.ctrl = c.ctrl /\ Turns(c, a) \in Nat /\ Turns(d, b) \in Nat
  BY TimerChanType
<1>2. Turns(c, a) + Turns(d, b) = Turns(c, t)
  BY TimerAdd
<1>3. Turns(c, t) = 0 <=> (Turns(c, a) = 0 /\ Turns(d, b) = 0)
  BY <1>1, <1>2
<1> QED
  BY <1>1, <1>3 DEF TimerIrq

\* A slice of one channel.
SliceOne(k, i, t) == WithChan(k, i, TimerChan(k.ch[i], t), TimerIrq(k.ch[i], i, t))

LEMMA SliceOneIs ==
    ASSUME NEW k \in CtcState, NEW i \in CtcChan, NEW t \in Nat, NEW u, u = SliceOne(k, i, t)
    PROVE  /\ u \in CtcState
           /\ u.ch[i] = TimerChan(k.ch[i], t)
           /\ \A j \in CtcChan \ {i} : u.ch[j] = k.ch[j]
           /\ u.irqmask = k.irqmask \cup TimerIrq(k.ch[i], i, t)
           /\ u.vector = k.vector
<1> DEFINE d == TimerChan(k.ch[i], t)
           f == TimerIrq(k.ch[i], i, t)
<1>1. d \in CtcChanState /\ f \in SUBSET CtcChan
  BY TimerChanType DEF CtcState
<1>2. u = WithChan(k, i, d, f)
  BY DEF SliceOne
<1> HIDE DEF d, f
<1>3. /\ u \in CtcState /\ u.ch[i] = d
      /\ \A j \in CtcChan \ {i} : u.ch[j] = k.ch[j]
      /\ u.irqmask = k.irqmask \cup f
      /\ u.vector = k.vector
  BY <1>1, <1>2, WithChanType
<1> QED
  BY <1>3 DEF d, f

\* A turn, with the channel's count taken down in s.
LEMMA TickedDown ==
    ASSUME NEW k, NEW i, NEW t
    PROVE  TimerTicked(k, i, t) =
             IF CTC_STOPPED(k.ch[i]) \/ k.ch[i].ctrl.counter THEN k
             ELSE IF Wraps(k.ch[i], t) = 0
             THEN [k EXCEPT !.ch[i].count =
                      Remaining(k.ch[i], t) + Wraps(k.ch[i], t) * Period(k.ch[i])]
             ELSE ctc_pulse(ctc_interrupt([k EXCEPT !.ch[i].count =
                      Remaining(k.ch[i], t) + Wraps(k.ch[i], t) * Period(k.ch[i])], i),
                      i, Wraps(k.ch[i], t))
  BY Zenon DEF TimerTicked

\* One turn of ctc_tick's loop over the channels.
LEMMA TimerTickedIs ==
    ASSUME NEW k \in CtcState, NEW i \in CtcChan, NEW t \in Nat
    PROVE  TimerTicked(k, i, t) = IF i = 2 /\ Chained
                                  THEN AfterPulses(SliceOne(k, i, t), Turns(k.ch[i], t))
                                  ELSE SliceOne(k, i, t)
<1> DEFINE c == k.ch[i]
           u == SliceOne(k, i, t)
           s == [k EXCEPT !.ch[i].count = Remaining(c, t) + Wraps(c, t) * Period(c)]
<1>1. c \in CtcChanState
  BY DEF CtcState
<1>3. AfterPulses(u, 0) = u
  BY PulsesStep
<1>2. TimerTicked(k, i, t) =
        IF CTC_STOPPED(c) \/ c.ctrl.counter THEN k
        ELSE IF Wraps(c, t) = 0 THEN s ELSE ctc_pulse(ctc_interrupt(s, i), i, Wraps(c, t))
  BY Zenon, TickedDown
<1>4. CASE ~TimerRuns(c)
  <2>1. u = k
    BY <1>4 DEF SliceOne, TimerChan, TimerIrq, Turns, WithChan, CtcState
  <2>2. TimerTicked(k, i, t) = k /\ Turns(c, t) = 0
    <3>1. CTC_STOPPED(c) \/ c.ctrl.counter
      BY <1>4 DEF TimerRuns
    <3>2. TimerTicked(k, i, t) = k
      BY Zenon, <3>1, <1>2
    <3> QED
      BY <1>4, <3>2 DEF Turns
  <2> QED
    BY <1>3, <2>1, <2>2
<1>5. CASE TimerRuns(c) /\ Wraps(c, t) = 0
  <2>1. u = s
    BY <1>5 DEF SliceOne, TimerChan, TimerIrq, Turns, WithChan, CtcState
  <2>2. TimerTicked(k, i, t) = s /\ Turns(c, t) = 0
    <3>1. ~(CTC_STOPPED(c) \/ c.ctrl.counter)
      BY <1>5 DEF TimerRuns
    <3>2. TimerTicked(k, i, t) = s
      BY Zenon, <1>5, <3>1, <1>2
    <3> QED
      BY <1>5, <3>2 DEF Turns
  <2> QED
    BY <1>3, <2>1, <2>2
<1>6. CASE TimerRuns(c) /\ Wraps(c, t) # 0
  <2>1. s.ch[i].ctrl.irq = c.ctrl.irq
    BY <1>1 DEF CtcState, CtcChanState
  <2>2. u = ctc_interrupt(s, i)
    BY <1>6, <2>1 DEF SliceOne, TimerChan, TimerIrq, Turns, WithChan, ctc_interrupt, CtcState
  <2>3. TimerTicked(k, i, t) = ctc_pulse(ctc_interrupt(s, i), i, Wraps(c, t))
        /\ Turns(c, t) = Wraps(c, t)
    <3>1. ~(CTC_STOPPED(c) \/ c.ctrl.counter)
      BY <1>6 DEF TimerRuns
    <3>2. TimerTicked(k, i, t) = ctc_pulse(ctc_interrupt(s, i), i, Wraps(c, t))
      BY Zenon, <1>6, <3>1, <1>2
    <3> QED
      BY <1>6, <3>2 DEF Turns
  <2> QED
    BY <2>2, <2>3, PulseIs
<1> QED
  BY <1>4, <1>5, <1>6

\* The pulses channel 3 gets in a slice.
PulsesIn(k, t) == IF Chained THEN Turns(k.ch[2], t) ELSE 0

\* ctc_tick, channel by channel.
LEMMA TickIs ==
    ASSUME NEW k \in CtcState, NEW t \in Nat
    PROVE  LET r == ctc_tick(k, t)
               d == PulsedTo(k.ch[3], PulsesIn(k, t))
           IN  /\ r \in CtcState /\ d \in CtcChanState /\ PulsesIn(k, t) \in Nat
               /\ \A i \in 0 .. 2 : r.ch[i] = TimerChan(k.ch[i], t)
               /\ r.ch[3] = TimerChan(d, t)
               /\ r.vector = k.vector
               /\ r.irqmask = k.irqmask \cup TimerIrq(k.ch[0], 0, t) \cup TimerIrq(k.ch[1], 1, t)
                                \cup TimerIrq(k.ch[2], 2, t)
                                \cup PulsesIrq(k.ch[3], PulsesIn(k, t)) \cup TimerIrq(d, 3, t)
<1> DEFINE q  == PulsesIn(k, t)
           d  == PulsedTo(k.ch[3], q)
           k0 == SliceOne(k, 0, t)
           k1 == SliceOne(k0, 1, t)
           k2 == SliceOne(k1, 2, t)
           kp == WithChan(k2, 3, d, PulsesIrq(k.ch[3], q))
           k3 == SliceOne(kp, 3, t)
<1>0. 0 \in CtcChan /\ 1 \in CtcChan /\ 2 \in CtcChan /\ 3 \in CtcChan /\ CtcChan = 0 .. 3
  BY DEF CtcChan
<1>1. /\ TimerTicked(k, 0, t) = k0 /\ k0 \in CtcState
      /\ k0.ch[0] = TimerChan(k.ch[0], t) /\ k0.ch[1] = k.ch[1] /\ k0.ch[2] = k.ch[2]
      /\ k0.ch[3] = k.ch[3] /\ k0.vector = k.vector
      /\ k0.irqmask = k.irqmask \cup TimerIrq(k.ch[0], 0, t)
  <2>1. TimerTicked(k, 0, t) = k0
    BY <1>0, TimerTickedIs
  <2>2. 1 \in CtcChan \ {0} /\ 2 \in CtcChan \ {0} /\ 3 \in CtcChan \ {0}
    BY <1>0
  <2>3. k \in CtcState /\ 0 \in CtcChan
    BY <1>0
  <2>4. k0 \in CtcState /\ k0.ch[0] = TimerChan(k.ch[0], t) /\ k0.vector = k.vector
    BY <2>3, SliceOneIs
  <2>5. \A j \in CtcChan \ {0} : k0.ch[j] = k.ch[j]
    BY <2>3, SliceOneIs
  <2>6. k0.ch[1] = k.ch[1] /\ k0.ch[2] = k.ch[2] /\ k0.ch[3] = k.ch[3]
    BY <2>2, <2>5
  <2>7. k0.irqmask = k.irqmask \cup TimerIrq(k.ch[0], 0, t)
    BY <2>3, SliceOneIs
  <2> QED
    BY <2>1, <2>4, <2>6, <2>7
<1>2. q \in Nat
  <2>1. Turns(k.ch[2], t) \in Nat
    BY <1>0, TimerChanType DEF CtcState
  <2> QED
    BY <2>1 DEF PulsesIn
<1> HIDE DEF q, k0
<1>4. /\ TimerTicked(k0, 1, t) = k1 /\ k1 \in CtcState
      /\ k1.ch[0] = k0.ch[0] /\ k1.ch[1] = TimerChan(k.ch[1], t) /\ k1.ch[2] = k.ch[2]
      /\ k1.ch[3] = k.ch[3] /\ k1.vector = k.vector
      /\ k1.irqmask = k0.irqmask \cup TimerIrq(k.ch[1], 1, t)
  <2>1. TimerTicked(k0, 1, t) = k1
    BY <1>0, <1>1, TimerTickedIs
  <2>2. 0 \in CtcChan \ {1} /\ 2 \in CtcChan \ {1} /\ 3 \in CtcChan \ {1}
    BY <1>0
  <2>3. k0 \in CtcState /\ 1 \in CtcChan
    BY <1>0, <1>1
  <2>4. k1 \in CtcState /\ k1.ch[1] = TimerChan(k0.ch[1], t) /\ k1.vector = k0.vector
    BY <2>3, SliceOneIs
  <2>5. \A j \in CtcChan \ {1} : k1.ch[j] = k0.ch[j]
    BY <2>3, SliceOneIs
  <2>6. k1.ch[0] = k0.ch[0] /\ k1.ch[2] = k0.ch[2] /\ k1.ch[3] = k0.ch[3]
    BY <2>2, <2>5
  <2>7. k1.irqmask = k0.irqmask \cup TimerIrq(k0.ch[1], 1, t)
    BY <2>3, SliceOneIs
  <2> HIDE DEF k1
  <2> QED
    BY <1>1, <2>1, <2>4, <2>6, <2>7
<1> HIDE DEF k1
<1>5. /\ k2 \in CtcState
      /\ k2.ch[0] = k0.ch[0] /\ k2.ch[1] = k1.ch[1] /\ k2.ch[2] = TimerChan(k.ch[2], t)
      /\ k2.ch[3] = k.ch[3] /\ k2.vector = k.vector
      /\ k2.irqmask = k1.irqmask \cup TimerIrq(k.ch[2], 2, t)
      /\ TimerTicked(k1, 2, t) = IF Chained THEN AfterPulses(k2, Turns(k.ch[2], t)) ELSE k2
  <2>1. TimerTicked(k1, 2, t) = IF Chained THEN AfterPulses(k2, Turns(k.ch[2], t)) ELSE k2
    BY <1>0, <1>4, TimerTickedIs
  <2>2. 0 \in CtcChan \ {2} /\ 1 \in CtcChan \ {2} /\ 3 \in CtcChan \ {2}
    BY <1>0
  <2>3. k1 \in CtcState /\ 2 \in CtcChan
    BY <1>0, <1>4
  <2>4. k2 \in CtcState /\ k2.ch[2] = TimerChan(k1.ch[2], t) /\ k2.vector = k1.vector
    BY <2>3, SliceOneIs
  <2>5. \A j \in CtcChan \ {2} : k2.ch[j] = k1.ch[j]
    BY Z3T(60), <2>3, SliceOneIs
  <2>6. k2.ch[0] = k1.ch[0] /\ k2.ch[1] = k1.ch[1] /\ k2.ch[3] = k1.ch[3]
    BY <2>2, <2>5
  <2>7. k2.irqmask = k1.irqmask \cup TimerIrq(k1.ch[2], 2, t)
    BY <2>3, SliceOneIs
  <2> HIDE DEF k2
  <2> QED
    BY <1>4, <2>1, <2>4, <2>6, <2>7
<1> HIDE DEF k2
<1>6. TimerTicked(k1, 2, t) = AfterPulses(k2, q)
  <2>1. AfterPulses(k2, 0) = k2
    BY PulsesStep
  <2> QED
    BY <1>5, <2>1 DEF q, PulsesIn
<1>7. /\ AfterPulses(k2, q) = kp
      /\ d \in CtcChanState /\ PulsesIrq(k.ch[3], q) \in SUBSET CtcChan
  BY <1>2, <1>5, PulsesAre
<1> HIDE DEF d
<1>8. /\ kp \in CtcState
      /\ kp.ch[0] = k0.ch[0] /\ kp.ch[1] = k1.ch[1] /\ kp.ch[2] = k2.ch[2]
      /\ kp.ch[3] = d /\ kp.vector = k.vector
      /\ kp.irqmask = k2.irqmask \cup PulsesIrq(k.ch[3], q)
  <2>1. 0 \in CtcChan \ {3} /\ 1 \in CtcChan \ {3} /\ 2 \in CtcChan \ {3}
    BY <1>0
  <2> QED
    BY <1>0, <1>5, <1>7, <2>1, WithChanType
<1> HIDE DEF kp
<1>10. /\ k3 \in CtcState
       /\ k3.ch[0] = k0.ch[0] /\ k3.ch[1] = k1.ch[1] /\ k3.ch[2] = k2.ch[2]
       /\ k3.ch[3] = TimerChan(d, t) /\ k3.vector = k.vector
       /\ k3.irqmask = kp.irqmask \cup TimerIrq(d, 3, t)
       /\ TimerTicked(kp, 3, t) = k3
  <2>1. TimerTicked(kp, 3, t) = k3
    BY <1>0, <1>8, TimerTickedIs
  <2>2. 0 \in CtcChan \ {3} /\ 1 \in CtcChan \ {3} /\ 2 \in CtcChan \ {3}
    BY <1>0
  <2>3. kp \in CtcState /\ 3 \in CtcChan
    BY <1>0, <1>8
  <2>4. k3 \in CtcState /\ k3.ch[3] = TimerChan(kp.ch[3], t) /\ k3.vector = kp.vector
    BY <2>3, SliceOneIs
  <2>5. \A j \in CtcChan \ {3} : k3.ch[j] = kp.ch[j]
    BY <2>3, SliceOneIs
  <2>6. k3.ch[0] = kp.ch[0] /\ k3.ch[1] = kp.ch[1] /\ k3.ch[2] = kp.ch[2]
    BY <2>2, <2>5
  <2>7. k3.irqmask = kp.irqmask \cup TimerIrq(kp.ch[3], 3, t)
    BY <2>3, SliceOneIs
  <2> HIDE DEF k3
  <2> QED
    BY <1>8, <2>1, <2>4, <2>6, <2>7
<1> HIDE DEF k3
<1>11. ctc_tick(k, t) = k3
  BY <1>1, <1>4, <1>6, <1>7, <1>10 DEF ctc_tick
<1>12. \A i \in 0 .. 2 : k3.ch[i] = TimerChan(k.ch[i], t)
  <2>1. \A i \in 0 .. 2 : i = 0 \/ i = 1 \/ i = 2
    OBVIOUS
  <2> QED
    BY <1>1, <1>4, <1>5, <1>8, <1>10, <2>1
<1>13. k3.irqmask = k.irqmask \cup TimerIrq(k.ch[0], 0, t) \cup TimerIrq(k.ch[1], 1, t)
                      \cup TimerIrq(k.ch[2], 2, t) \cup PulsesIrq(k.ch[3], q) \cup TimerIrq(d, 3, t)
  BY <1>1, <1>4, <1>5, <1>8, <1>10
<1> QED
  BY <1>2, <1>7, <1>10, <1>11, <1>12, <1>13 DEF q, d

\* A chip is what its fields are.
LEMMA CtcEqual ==
    ASSUME NEW s \in CtcState, NEW z \in CtcState, s.ch = z.ch, s.irqmask = z.irqmask,
           s.vector = z.vector
    PROVE  s = z
  BY DEF CtcState

\* Time has no seams: two slices and one of their sum are the same to the chip.
LEMMA TickAdd ==
    ASSUME NEW k \in CtcState, NEW a \in Nat, NEW b \in Nat
    PROVE  ctc_tick(ctc_tick(k, a), b) = ctc_tick(k, a + b)
<1> DEFINE t == a + b
           r == ctc_tick(k, a)
           s == ctc_tick(r, b)
           z == ctc_tick(k, t)
           m == PulsesIn(k, a)
           n == PulsesIn(r, b)
           c == k.ch[3]
           d == PulsedTo(c, m)
           e == PulsedTo(c, m + n)
           f == PulsedTo(r.ch[3], n)
<1>0. t \in Nat /\ t = a + b /\ CtcChan = 0 .. 3
  BY DEF CtcChan
<1> HIDE DEF t
<1>1. /\ r \in CtcState /\ d \in CtcChanState /\ m \in Nat
      /\ \A i \in 0 .. 2 : r.ch[i] = TimerChan(k.ch[i], a)
      /\ r.ch[3] = TimerChan(d, a)
      /\ r.vector = k.vector
      /\ r.irqmask = k.irqmask \cup TimerIrq(k.ch[0], 0, a) \cup TimerIrq(k.ch[1], 1, a)
                       \cup TimerIrq(k.ch[2], 2, a) \cup PulsesIrq(c, m) \cup TimerIrq(d, 3, a)
  BY TickIs
<1> HIDE DEF r
<1>2. /\ s \in CtcState /\ f \in CtcChanState /\ n \in Nat
      /\ \A i \in 0 .. 2 : s.ch[i] = TimerChan(r.ch[i], b)
      /\ s.ch[3] = TimerChan(f, b)
      /\ s.vector = r.vector
      /\ s.irqmask = r.irqmask \cup TimerIrq(r.ch[0], 0, b) \cup TimerIrq(r.ch[1], 1, b)
                       \cup TimerIrq(r.ch[2], 2, b) \cup PulsesIrq(r.ch[3], n) \cup TimerIrq(f, 3, b)
  BY <1>1, TickIs
<1>3. \A i \in 0 .. 3 : k.ch[i] \in CtcChanState
  BY <1>0 DEF CtcState
<1>4. PulsesIn(k, t) = m + n
  <2>1. Turns(k.ch[2], a) + Turns(r.ch[2], b) = Turns(k.ch[2], t)
    <3>1. k.ch[2] \in CtcChanState /\ r.ch[2] = TimerChan(k.ch[2], a)
      BY <1>1, <1>3
    <3> QED
      BY <1>0, <3>1, TimerAdd
  <2> QED
    BY <2>1 DEF PulsesIn
<1>5. /\ z \in CtcState /\ e \in CtcChanState
      /\ \A i \in 0 .. 2 : z.ch[i] = TimerChan(k.ch[i], t)
      /\ z.ch[3] = TimerChan(e, t)
      /\ z.vector = k.vector
      /\ z.irqmask = k.irqmask \cup TimerIrq(k.ch[0], 0, t) \cup TimerIrq(k.ch[1], 1, t)
                       \cup TimerIrq(k.ch[2], 2, t) \cup PulsesIrq(c, m + n)
                       \cup TimerIrq(e, 3, t)
  BY ZenonT(60), <1>0, <1>4, TickIs
<1>6. /\ PulsedTo(d, n) = e /\ PulsesIrq(c, m) \cup PulsesIrq(d, n) = PulsesIrq(c, m + n)
      /\ d.ctrl = c.ctrl /\ e.ctrl = c.ctrl
  <2>1. c \in CtcChanState /\ m \in Nat /\ n \in Nat /\ m + n \in Nat
    BY <1>1, <1>2, <1>3
  <2> HIDE DEF c, m, n
  <2>2. PulsedTo(d, n) = e /\ PulsesIrq(c, m) \cup PulsesIrq(d, n) = PulsesIrq(c, m + n)
    BY <2>1, PulsedToAdd
  <2>3. d.ctrl = c.ctrl /\ e.ctrl = c.ctrl
    BY <2>1, PulsesKeep
  <2> QED
    BY <2>2, <2>3
<1> HIDE DEF s, z, m, n, d, e, f
<1>7. /\ TimerChan(f, b) = TimerChan(e, t)
      /\ PulsesIrq(c, m) \cup PulsesIrq(r.ch[3], n) = PulsesIrq(c, m + n)
      /\ TimerIrq(d, 3, a) \cup TimerIrq(f, 3, b) = TimerIrq(e, 3, t)
  <2>1. TimerRuns(d) <=> TimerRuns(c)
    BY <1>6 DEF TimerRuns, CTC_STOPPED
  <2>2. TimerRuns(e) <=> TimerRuns(c)
    BY <1>6 DEF TimerRuns, CTC_STOPPED
  <2>3. CASE TimerRuns(c)
    <3>1. d = c /\ e = c /\ PulsesIrq(c, m) = {} /\ PulsesIrq(c, m + n) = {}
      BY <1>1, <1>2, <1>3, <2>3, PulsesKeep DEF d, e
    <3>2. TimerRuns(r.ch[3]) /\ r.ch[3] = TimerChan(c, a) /\ r.ch[3] \in CtcChanState
      <4> HIDE DEF c
      <4>1. c \in CtcChanState /\ r.ch[3] = TimerChan(c, a)
        BY <1>1, <1>3, <3>1 DEF c
      <4>2. TimerChan(c, a) \in CtcChanState /\ TimerChan(c, a).ctrl = c.ctrl
        BY <4>1, TimerChanType
      <4> QED
        BY <2>3, <4>1, <4>2 DEF TimerRuns, CTC_STOPPED
    <3>3. f = r.ch[3] /\ PulsesIrq(r.ch[3], n) = {}
      BY <1>2, <3>2, PulsesKeep DEF f
    <3> QED
      <4> HIDE DEF c
      <4>1. c \in CtcChanState /\ 3 \in CtcChan
        BY <1>0, <1>3 DEF c
      <4>2. TimerChan(TimerChan(c, a), b) = TimerChan(c, t)
        BY <1>0, <4>1, TimerAdd
      <4>3. TimerIrq(c, 3, t) = TimerIrq(c, 3, a) \cup TimerIrq(TimerChan(c, a), 3, b)
        BY <1>0, <4>1, TimerIrqAdd
      <4> QED
        BY <3>1, <3>2, <3>3, <4>2, <4>3
  <2>4. CASE ~TimerRuns(c)
    <3>1. r.ch[3] = d /\ TimerIrq(d, 3, a) = {}
      BY <1>1, <2>1, <2>4 DEF TimerChan, TimerIrq, Turns
    <3>2. f = e
      BY <1>6, <3>1 DEF f
    <3>3. TimerChan(e, b) = e /\ TimerChan(e, t) = e
      BY <2>2, <2>4 DEF TimerChan
    <3>4. TimerIrq(e, 3, b) = {} /\ TimerIrq(e, 3, t) = {}
      BY <2>2, <2>4 DEF TimerIrq, Turns
    <3> QED
      BY <1>6, <3>1, <3>2, <3>3, <3>4
  <2> QED
    BY <2>3, <2>4
<1>8. \A i \in 0 .. 2 : /\ TimerChan(r.ch[i], b) = TimerChan(k.ch[i], t)
                        /\ TimerIrq(k.ch[i], i, a) \cup TimerIrq(r.ch[i], i, b)
                             = TimerIrq(k.ch[i], i, t)
  <2> TAKE i \in 0 .. 2
  <2> DEFINE x == k.ch[i]
  <2>1. x \in CtcChanState /\ i \in CtcChan
    BY <1>0, <1>3
  <2>2. r.ch[i] = TimerChan(x, a)
    BY <1>1
  <2>3. t = a + b
    BY <1>0
  <2> HIDE DEF x
  <2>4. TimerChan(TimerChan(x, a), b) = TimerChan(x, t)
    BY <2>1, <2>3, TimerAdd
  <2>5. TimerIrq(x, i, t) = TimerIrq(x, i, a) \cup TimerIrq(TimerChan(x, a), i, b)
    BY <2>1, <2>3, TimerIrqAdd
  <2> QED
    BY <2>2, <2>4, <2>5 DEF x
<1>9. s.ch = z.ch
  <2>1. \A i \in CtcChan : s.ch[i] = z.ch[i]
    BY <1>0, <1>2, <1>5, <1>7, <1>8
  <2> QED
    BY <1>2, <1>5, <2>1 DEF CtcState
<1>10. s.irqmask = z.irqmask
  <2>1. /\ TimerIrq(k.ch[0], 0, a) \cup TimerIrq(r.ch[0], 0, b) = TimerIrq(k.ch[0], 0, t)
        /\ TimerIrq(k.ch[1], 1, a) \cup TimerIrq(r.ch[1], 1, b) = TimerIrq(k.ch[1], 1, t)
        /\ TimerIrq(k.ch[2], 2, a) \cup TimerIrq(r.ch[2], 2, b) = TimerIrq(k.ch[2], 2, t)
    BY <1>8
  <2> QED
    BY <1>1, <1>2, <1>5, <1>7, <2>1
<1>11. s.vector = z.vector
  BY <1>1, <1>2, <1>5
<1>12. s = z
  BY <1>2, <1>5, <1>9, <1>10, <1>11, CtcEqual
<1> QED
  BY <1>12 DEF s, z, r, t

-----------------------------------------------------------------------------
(* Operations on a chip in order *)

\* A chip in order: the types, and no pending interrupt of a channel that
\* has its interrupts off.
Silent(k) == \A i \in k.irqmask : k.ch[i].ctrl.irq
Good(k)   == k \in CtcState /\ Silent(k)

\* A new interrupt of a channel that has its interrupts on.
LEMMA WithChanSilent ==
    ASSUME NEW k, Good(k), NEW i \in CtcChan, NEW c \in CtcChanState, NEW irqs \in SUBSET {i},
           c.ctrl = k.ch[i].ctrl, irqs # {} => c.ctrl.irq
    PROVE  Good(WithChan(k, i, c, irqs))
<1> DEFINE r == WithChan(k, i, c, irqs)
<1>1. /\ r \in CtcState /\ r.ch[i] = c
      /\ \A j \in CtcChan \ {i} : r.ch[j] = k.ch[j]
      /\ r.irqmask = k.irqmask \cup irqs
  BY WithChanType DEF Good
<1> HIDE DEF r
<1>2. k.irqmask \subseteq CtcChan /\ r.irqmask \subseteq CtcChan
  BY <1>1 DEF Good, CtcState
<1>3. ASSUME NEW j \in r.irqmask  PROVE r.ch[j].ctrl.irq
  <2>1. CASE j = i
    BY <1>1, <1>3, <2>1 DEF Good, Silent
  <2>2. CASE j # i
    BY <1>1, <1>2, <1>3, <2>2 DEF Good, Silent
  <2> QED
    BY <2>1, <2>2
<1>4. Good(r)
  BY <1>1, <1>3 DEF Good, Silent
<1> QED
  BY <1>4 DEF r

\* A pulse from outside, the pulse channel 2 sends on included.
LEMMA PulseGood ==
    ASSUME NEW k, Good(k), NEW i \in CtcChan
    PROVE  Good(ctc_receive_pulse(k, i))
<1> DEFINE p == Pulsed(k, i)
<1>1. ASSUME NEW q, Good(q), NEW j \in CtcChan  PROVE Good(Pulsed(q, j))
  <2> DEFINE c == q.ch[j]
  <2>1. q \in CtcState /\ c \in CtcChanState
    BY <1>1 DEF Good, CtcState
  <2>2. PulsedChan(c) \in CtcChanState /\ PulsedChan(c).ctrl = c.ctrl
    BY <2>1, PulsedChanType
  <2>3. PulseIrq(c, j) \in SUBSET {j} /\ (PulseIrq(c, j) # {} => c.ctrl.irq)
    BY DEF PulseIrq
  <2>4. Pulsed(q, j) = WithChan(q, j, PulsedChan(c), PulseIrq(c, j))
    BY <2>1, PulsedIs
  <2> QED
    BY <1>1, <2>2, <2>3, <2>4, WithChanSilent
<1>2. Good(p) /\ Good(Pulsed(p, 3))
  BY <1>1 DEF CtcChan
<1>3. AfterPulses(p, 1) = Pulsed(p, 3)
  <2>1. AfterPulses(p, 0 + 1) = Pulsed(AfterPulses(p, 0), 3) /\ AfterPulses(p, 0) = p
    BY PulsesStep
  <2> QED
    BY <2>1
<1>4. ctc_receive_pulse(k, i) \in {p, AfterPulses(p, 1)}
  BY PulseIs DEF ctc_receive_pulse
<1> QED
  BY <1>2, <1>3, <1>4

\* A slice.
LEMMA TickGood ==
    ASSUME NEW k, Good(k), NEW t \in Nat
    PROVE  Good(ctc_tick(k, t))
<1> DEFINE r == ctc_tick(k, t)
           n == PulsesIn(k, t)
           d == PulsedTo(k.ch[3], n)
<1>1. /\ k \in CtcState /\ r \in CtcState /\ d \in CtcChanState /\ n \in Nat
      /\ \A i \in 0 .. 2 : r.ch[i] = TimerChan(k.ch[i], t)
      /\ r.ch[3] = TimerChan(d, t)
      /\ r.irqmask = k.irqmask \cup TimerIrq(k.ch[0], 0, t) \cup TimerIrq(k.ch[1], 1, t)
                       \cup TimerIrq(k.ch[2], 2, t) \cup PulsesIrq(k.ch[3], n) \cup TimerIrq(d, 3, t)
  BY TickIs DEF Good
<1>2. CtcChan = 0 .. 3 /\ \A i \in 0 .. 3 : k.ch[i] \in CtcChanState
  BY <1>1 DEF CtcState, CtcChan
<1>3. d.ctrl = k.ch[3].ctrl /\ (PulsesIrq(k.ch[3], n) # {} => k.ch[3].ctrl.irq)
      /\ PulsesIrq(k.ch[3], n) \subseteq {3}
  BY <1>1, <1>2, PulsesKeep
<1> HIDE DEF r, d, n
<1>4. \A i \in 0 .. 3 : r.ch[i].ctrl = k.ch[i].ctrl
  <2>1. \A i \in 0 .. 2 : TimerChan(k.ch[i], t).ctrl = k.ch[i].ctrl
    <3>1. \A c \in CtcChanState : TimerChan(c, t).ctrl = c.ctrl
      BY TimerChanType
    <3>2. \A i \in 0 .. 2 : k.ch[i] \in CtcChanState
      BY <1>2
    <3> QED
      BY <3>1, <3>2
  <2>2. TimerChan(d, t).ctrl = d.ctrl
    BY <1>1, TimerChanType
  <2> QED
    BY <1>1, <1>3, <2>1, <2>2
<1>5. \A c, i : TimerIrq(c, i, t) \subseteq {i} /\ (TimerIrq(c, i, t) # {} => c.ctrl.irq)
  BY DEF TimerIrq
<1>6. ASSUME NEW j \in r.irqmask  PROVE r.ch[j].ctrl.irq
  <2>1. j \in 0 .. 3
    BY <1>1, <1>2, <1>6 DEF CtcState
  <2>2. k.ch[j].ctrl.irq
    <3>1. CASE j \in k.irqmask
      BY <3>1 DEF Good, Silent
    <3>2. CASE j \in PulsesIrq(k.ch[3], n)
      BY <1>3, <3>2
    <3>3. CASE j \in TimerIrq(k.ch[0], 0, t)
      BY <1>5, <3>3
    <3>4. CASE j \in TimerIrq(k.ch[1], 1, t)
      BY <1>5, <3>4
    <3>5. CASE j \in TimerIrq(k.ch[2], 2, t)
      BY <1>5, <3>5
    <3>6. CASE j \in TimerIrq(d, 3, t)
      BY <1>3, <1>5, <3>6
    <3> QED
      BY <1>1, <1>6, <3>1, <3>2, <3>3, <3>4, <3>5, <3>6
  <2> QED
    BY <1>4, <2>1, <2>2
<1>7. Good(r)
  BY <1>1, <1>6 DEF Good, Silent
<1> QED
  BY <1>7 DEF r

\* What software writes.
LEMMA WriteGood ==
    ASSUME NEW k, Good(k), NEW i \in CtcChan
    PROVE  /\ Good(ctc_reti(k, i))
           /\ \A v \in 0 .. Wrap - 1 : Good(LoadConstant(k, i, v))
           /\ \A w \in Control : Good(LoadControl(k, i, w))
           /\ \A v \in 0 .. 255 : Good(LoadVector(k, i, v))
<1>0. k \in CtcState /\ k.ch[i] \in CtcChanState /\ Silent(k)
  BY DEF Good, CtcState
<1>1. Good(ctc_reti(k, i))
  BY <1>0 DEF Good, Silent, ctc_reti, CtcState
<1>2. \A v \in 0 .. 255 : Good(LoadVector(k, i, v))
  BY <1>0 DEF Good, Silent, LoadVector, CtcState
<1>3. ASSUME NEW c \in CtcChanState  PROVE Reloaded(c) \in CtcChanState /\ Reloaded(c).ctrl = c.ctrl
  <2> DEFINE n == ((c.reload - 1) % Wrap) * Scale
  <2>1. c.reload \in 0 .. Wrap - 1
    BY DEF CtcChanState
  <2>2. (c.reload - 1) % Wrap \in 0 .. Wrap - 1
    BY <2>1, CtcAssumption
  <2>3. n \in 0 .. Scale * Wrap - 1
    BY <2>2, ReloadFits
  <2> HIDE DEF n
  <2>4. [c EXCEPT !.count = n] \in CtcChanState /\ [c EXCEPT !.count = n].ctrl = c.ctrl
    BY <2>3 DEF CtcChanState
  <2> QED
    BY <2>4 DEF Reloaded, n
<1>4. ASSUME NEW v \in 0 .. Wrap - 1  PROVE Good(LoadConstant(k, i, v))
  <2> DEFINE c == [k.ch[i] EXCEPT !.reload = v]
             d == IF CTC_STOPPED(c) THEN Reloaded(c) ELSE c
             e == [d EXCEPT !.ctrl.tconst = FALSE]
  <2>1. c \in CtcChanState /\ c.ctrl = k.ch[i].ctrl
    BY <1>0 DEF CtcChanState
  <2> HIDE DEF c
  <2>2. d \in CtcChanState /\ d.ctrl = k.ch[i].ctrl
    BY <1>3, <2>1
  <2> HIDE DEF d
  <2>3. e \in CtcChanState /\ e.ctrl.irq = k.ch[i].ctrl.irq
    <3>1. d.ctrl \in Control
      BY <2>2 DEF CtcChanState
    <3>2. [d.ctrl EXCEPT !.tconst = FALSE] \in Control
      BY <3>1 DEF Control
    <3>3. [d.ctrl EXCEPT !.tconst = FALSE].irq = d.ctrl.irq
      BY <3>1 DEF Control
    <3> QED
      BY <2>2, <3>2, <3>3 DEF CtcChanState
  <2> HIDE DEF e
  <2>4. Good([k EXCEPT !.ch[i] = e])
    BY <1>0, <2>3 DEF Good, Silent, CtcState
  <2> QED
    BY <2>4 DEF LoadConstant, c, d, e
<1>5. ASSUME NEW w \in Control  PROVE Good(LoadControl(k, i, w))
  <2> DEFINE c == [k.ch[i] EXCEPT !.ctrl = w]
             d == IF w.reset /\ ~w.tconst THEN Reloaded(c) ELSE c
             m == IF w.irq THEN k.irqmask ELSE k.irqmask \ {i}
             r == [k EXCEPT !.ch[i] = d, !.irqmask = m]
  <2>1. c \in CtcChanState /\ c.ctrl = w
    BY <1>0 DEF CtcChanState
  <2> HIDE DEF c
  <2>2. d \in CtcChanState /\ d.ctrl = w
    BY <1>3, <2>1
  <2>3. m \subseteq k.irqmask /\ (i \in m => w.irq)
    OBVIOUS
  <2>4. LoadControl(k, i, w) = r
    BY DEF LoadControl, c
  <2> HIDE DEF d, m
  <2>5. Good(r)
    BY <1>0, <2>2, <2>3 DEF Good, Silent, CtcState
  <2> QED
    BY <2>4, <2>5
<1> QED
  BY <1>1, <1>2, <1>4, <1>5
=============================================================================
