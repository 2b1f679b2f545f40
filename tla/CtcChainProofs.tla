--------------------------- MODULE CtcChainProofs ---------------------------
(***************************************************************************)
(* The chained pair of channels counts exactly, for every prescaler, every *)
(* pair of time constants and slices of any length.                        *)
(***************************************************************************)
EXTENDS CtcChain, Z80CtcProofs

-----------------------------------------------------------------------------
(* Arithmetic *)

\* A number that is in a period after so many whole periods is the remainder.
LEMMA RestIs ==
    ASSUME NEW n \in Int, NEW w \in Int, NEW p \in Nat \ {0}, n + w * p \in 0 .. p - 1
    PROVE  n % p = n + w * p
<1>1. PICK q \in Int, r \in 0 .. p - 1 : n = p * q + r /\ r = n % p
  <2>1. n = p * (n \div p) + (n % p) /\ n \div p \in Int /\ n % p \in 0 .. p - 1
    OBVIOUS
  <2> QED
    BY <2>1
<1>2. PICK d \in Int : d = q + w
  OBVIOUS
<1>3. n + w * p = p * d + r
  BY <1>1, <1>2
<1>4. d = 0
  <2>1. d >= 1 => p * d >= p
    OBVIOUS
  <2>2. d <= -1 => p * d <= -p
    OBVIOUS
  <2> QED
    BY <1>3, <2>1, <2>2
<1> QED
  BY <1>1, <1>3, <1>4

\* How often a timer with first period f + 1 and then p has timed out after e.
Expiries(e, f, p) == IF e <= f THEN 0 ELSE 1 + ((e - f - 1) \div p)

LEMMA ExpiriesAre ==
    ASSUME NEW e \in Nat, NEW p \in Nat \ {0}, NEW f \in 0 .. p - 1
    PROVE  Expiries(e, f, p) \in Nat /\ (f - e) + Expiries(e, f, p) * p \in 0 .. p - 1
<1>1. CASE e <= f
  BY <1>1 DEF Expiries
<1>2. CASE e > f
  <2>1. PICK x \in Nat : x = e - f - 1
    BY <1>2
  <2>2. PICK q \in Nat, r \in 0 .. p - 1 : q = x \div p /\ x = p * q + r
    BY DivRest
  <2>3. Expiries(e, f, p) = 1 + q
    BY <1>2, <2>1, <2>2 DEF Expiries
  <2>4. (f - e) + (1 + q) * p = p - 1 - r
    BY <2>1, <2>2
  <2> QED
    BY <2>2, <2>3, <2>4
<1> QED
  BY <1>1, <1>2

\* What is left in a counter with constant r after t timeouts, in units, and
\* whether it has wanted to interrupt by then.
Left(r, t) == IF t = 0 THEN r - 1 ELSE r - ((t + 1) % r)
Asked(r, t) == t > 0 /\ t + 1 >= r

\* One more timeout takes a unit, or starts over when fewer than two are left.
LEMMA LeftNext ==
    ASSUME NEW r \in Nat \ {0}, NEW t \in Nat
    PROVE  /\ Left(r, t) \in 0 .. r
           /\ Left(r, t + 1) = IF Left(r, t) < 2 THEN r ELSE Left(r, t) - 1
           /\ Asked(r, t + 1) <=> Asked(r, t) \/ Left(r, t) < 2
<1>1. CASE t = 0
  <2>1. Left(r, t) = r - 1 /\ Left(r, t + 1) = r - (2 % r)
    BY <1>1 DEF Left
  <2>2. CASE r = 1
    <3>1. 2 % r = 0
      BY <2>2
    <3> QED
      BY <1>1, <2>1, <2>2, <3>1 DEF Asked
  <2>3. CASE r = 2
    <3>1. 2 % r = 0
      BY <2>3
    <3> QED
      BY <1>1, <2>1, <2>3, <3>1 DEF Asked
  <2>4. CASE r > 2
    <3>1. 2 % r = 2
      BY <2>4
    <3> QED
      BY <1>1, <2>1, <2>4, <3>1 DEF Asked
  <2> QED
    BY <2>2, <2>3, <2>4
<1>2. CASE t > 0
  <2>1. PICK n \in Nat : n = t + 1
    OBVIOUS
  <2>2. PICK q \in Nat, m \in 0 .. r - 1 : q = n \div r /\ n = r * q + m
    BY DivRest
  <2>3. n % r = m
    BY <2>2
  <2>4. Left(r, t) = r - m /\ Left(r, t + 1) = r - ((n + 1) % r)
    BY <1>2, <2>1, <2>3 DEF Left
  <2>5. Asked(r, t) <=> n >= r
    BY <1>2, <2>1 DEF Asked
  <2>6. Asked(r, t + 1) <=> n + 1 >= r
    BY <1>2, <2>1 DEF Asked
  <2>7. CASE m = r - 1
    <3>1. PICK w \in Int : w = -(q + 1)
      OBVIOUS
    <3>2. (n + 1) % r = 0
      <4>1. (n + 1) + w * r = 0
        BY <2>2, <2>7, <3>1
      <4> QED
        BY <4>1, RestIs
    <3>3. n + 1 >= r
      BY <2>2, <2>7
    <3> QED
      BY <2>2, <2>4, <2>6, <2>7, <3>2, <3>3
  <2>8. CASE m < r - 1
    <3>1. (n + 1) % r = m + 1
      BY <2>2, <2>8
    <3>2. n + 1 >= r <=> n >= r
      BY <2>2, <2>8
    <3> QED
      BY <2>2, <2>4, <2>5, <2>6, <2>8, <3>1, <3>2
  <2> QED
    BY <2>2, <2>7, <2>8
<1> QED
  BY <1>1, <1>2

-----------------------------------------------------------------------------
(* The counter *)

\* One pulse more.
LEMMA PulsedOnce ==
    ASSUME NEW c \in CtcChanState
    PROVE  /\ PulsedTo(c, 0) = c /\ PulsesIrq(c, 0) = {}
           /\ \A n \in Nat : /\ PulsedTo(c, n) \in CtcChanState
                             /\ PulsedTo(c, n + 1) = PulsedChan(PulsedTo(c, n))
                             /\ PulsesIrq(c, n + 1) = PulsesIrq(c, n) \cup PulseIrq(PulsedTo(c, n), 3)
<1> DEFINE o == Only(c)
<1>0. 3 \in CtcChan
  BY DEF CtcChan
<1>1. o \in CtcState /\ o.irqmask = {} /\ o.ch[3] = c
  BY OnlyType
<1>2. PulsedTo(c, 0) = c /\ PulsesIrq(c, 0) = {}
  BY <1>1, PulsesStep DEF PulsedTo, PulsesIrq
<1>3. ASSUME NEW n \in Nat
      PROVE  /\ PulsedTo(c, n) \in CtcChanState
             /\ PulsedTo(c, n + 1) = PulsedChan(PulsedTo(c, n))
             /\ PulsesIrq(c, n + 1) = PulsesIrq(c, n) \cup PulseIrq(PulsedTo(c, n), 3)
  <2> DEFINE y == AfterPulses(o, n)
             d == y.ch[3]
  <2>1. AfterPulses(o, n + 1) = Pulsed(y, 3) /\ y \in CtcState
    BY <1>1, PulsesStep, PulsesType
  <2>2. /\ PulsedTo(c, n) = d /\ PulsesIrq(c, n) = y.irqmask
        /\ PulsedTo(c, n + 1) = Pulsed(y, 3).ch[3] /\ PulsesIrq(c, n + 1) = Pulsed(y, 3).irqmask
    BY <2>1 DEF PulsedTo, PulsesIrq
  <2> HIDE DEF y
  <2>3. d \in CtcChanState
    BY <1>0, <2>1 DEF CtcState
  <2>4. PulsedChan(d) \in CtcChanState /\ PulseIrq(d, 3) \in SUBSET CtcChan
    BY <1>0, <2>3, PulsedChanType
  <2>5. Pulsed(y, 3) = WithChan(y, 3, PulsedChan(d), PulseIrq(d, 3))
    BY <1>0, <2>1, PulsedIs
  <2>6. Pulsed(y, 3).ch[3] = PulsedChan(d) /\ Pulsed(y, 3).irqmask = y.irqmask \cup PulseIrq(d, 3)
    BY <1>0, <2>1, <2>4, <2>5, WithChanType
  <2> QED
    BY <2>2, <2>3, <2>6
<1> QED
  BY <1>2, <1>3

\* Channel 3 after t timeouts of channel 2.
Counting(d, t) ==
    /\ d \in CtcChanState /\ d.reload \in 1 .. Wrap - 1
    /\ d.ctrl.counter /\ d.ctrl.irq /\ ~d.ctrl.tconst
    /\ d.count = Scale * Left(d.reload, t)

\* A pulse counts, and asks for the interrupt when the constant is used up.
LEMMA CountsOne ==
    ASSUME NEW d, NEW t \in Nat, Counting(d, t), NEW e, e = PulsedChan(d)
    PROVE  /\ Counting(e, t + 1) /\ e.reload = d.reload
           /\ Asked(d.reload, t + 1) <=> Asked(d.reload, t) \/ 3 \in PulseIrq(d, 3)
<1> DEFINE r == d.reload
           l == Left(r, t)
<1>1. d \in CtcChanState /\ r \in Nat \ {0} /\ Scale \in Nat \ {0}
  BY CtcAssumption DEF Counting
<1>2. /\ l \in 0 .. r /\ Left(r, t + 1) = (IF l < 2 THEN r ELSE l - 1)
      /\ Asked(r, t + 1) <=> Asked(r, t) \/ l < 2
  BY <1>1, LeftNext
<1>3. e \in CtcChanState /\ e.ctrl = d.ctrl /\ e.reload = r
  BY <1>1, PulsedChanType
<1>4. d.ctrl.counter /\ d.ctrl.irq /\ ~d.ctrl.tconst /\ ~CTC_STOPPED(d)
  BY DEF Counting, CTC_STOPPED
<1>5. d.count = Scale * l
  BY DEF Counting
<1> HIDE DEF l
<1>6. d.count < 2 * Scale <=> l < 2
  <2>1. l \in Nat
    BY <1>1, <1>2
  <2>2. PICK m \in Nat, b \in Nat : m = Scale * l /\ b = 2 * Scale
    BY <1>1, <2>1
  <2>3. l < 2 => m < b
    BY <1>1, <2>1, <2>2
  <2>4. l >= 2 => m >= b
    BY <1>1, <2>1, <2>2
  <2> QED
    BY <1>5, <2>1, <2>2, <2>3, <2>4
<1>7. Expires(d) <=> l < 2
  BY <1>4, <1>6 DEF Expires
<1>8. e.count = IF l < 2 THEN r * Scale ELSE d.count - Scale
  <2>1. e = [d EXCEPT !.count = IF Expires(d) THEN d.reload * Scale ELSE d.count - Scale]
    BY <1>4 DEF PulsedChan
  <2> QED
    BY <1>1, <1>7, <2>1 DEF CtcChanState
<1>9. e.count = Scale * Left(r, t + 1)
  <2>1. CASE l < 2
    BY <1>1, <1>2, <1>8, <2>1
  <2>2. CASE ~(l < 2)
    <3>1. Scale * l - Scale = Scale * (l - 1)
      BY <1>1, <1>2
    <3> QED
      BY <1>2, <1>5, <1>8, <2>2, <3>1
  <2> QED
    BY <2>1, <2>2
<1>10. Counting(e, t + 1)
  BY <1>3, <1>4, <1>9 DEF Counting
<1>11. 3 \in PulseIrq(d, 3) <=> l < 2
  BY <1>4, <1>7 DEF PulseIrq
<1> QED
  BY <1>2, <1>3, <1>10, <1>11

\* So do any number of pulses.
LEMMA CountsAll ==
    ASSUME NEW d, NEW t \in Nat, Counting(d, t)
    PROVE  \A n \in Nat : /\ Counting(PulsedTo(d, n), t + n) /\ PulsedTo(d, n).reload = d.reload
                          /\ Asked(d.reload, t + n) <=> Asked(d.reload, t) \/ 3 \in PulsesIrq(d, n)
<1> DEFINE Holds(n) ==
             /\ Counting(PulsedTo(d, n), t + n) /\ PulsedTo(d, n).reload = d.reload
             /\ Asked(d.reload, t + n) <=> Asked(d.reload, t) \/ 3 \in PulsesIrq(d, n)
           S == {n \in Nat : Holds(n)}
<1>1. d \in CtcChanState
  BY DEF Counting
<1>2. Holds(0)
  <2>1. PulsedTo(d, 0) = d /\ PulsesIrq(d, 0) = {} /\ t + 0 = t
    BY <1>1, PulsedOnce
  <2> QED
    BY <2>1
<1>3. ASSUME NEW n \in Nat, Holds(n)  PROVE Holds(n + 1)
  <2>1. PICK u \in Nat : u = t + n
    OBVIOUS
  <2>2. PICK c : c = PulsedTo(d, n)
    OBVIOUS
  <2>3. PICK e : e = PulsedChan(c)
    OBVIOUS
  <2>4. /\ Counting(c, u) /\ c.reload = d.reload
        /\ Asked(d.reload, u) <=> Asked(d.reload, t) \/ 3 \in PulsesIrq(d, n)
    BY <1>3, <2>1, <2>2
  <2>5. /\ Counting(e, u + 1) /\ e.reload = c.reload
        /\ Asked(c.reload, u + 1) <=> Asked(c.reload, u) \/ 3 \in PulseIrq(c, 3)
    BY <2>3, <2>4, CountsOne
  <2>6. PulsedTo(d, n + 1) = e /\ PulsesIrq(d, n + 1) = PulsesIrq(d, n) \cup PulseIrq(c, 3)
    BY <1>1, <2>2, <2>3, PulsedOnce
  <2>7. u + 1 = t + (n + 1)
    BY <2>1
  <2> QED
    BY <2>4, <2>5, <2>6, <2>7
<1> HIDE DEF Holds
<1>4. 0 \in S /\ \A n \in Nat : n \in S => n + 1 \in S
  BY <1>2, <1>3
<1> HIDE DEF S
<1>5. \A n \in Nat : n \in S
  BY <1>4, SetInduction
<1> QED
  BY <1>5 DEF S, Holds

-----------------------------------------------------------------------------
(* The pair *)

\* The chip after e counts of the smaller prescaler and t timeouts of channel 2.
PairGood(k, e, t) ==
    LET c == k.ch[2]
    IN  /\ k \in CtcState
        /\ ~c.ctrl.counter /\ ~c.ctrl.presc /\ ~c.ctrl.tconst
        /\ c.count = (Period(c) - Scale - e) + t * Period(c)
        /\ c.count \in 0 .. Period(c) - 1
        /\ Counting(k.ch[3], t)
        /\ 3 \in k.irqmask <=> Asked(k.ch[3].reload, t)

\* The timer loses nothing of a slice.
LEMMA TimerExact ==
    ASSUME NEW c \in CtcChanState, ~c.ctrl.counter, ~c.ctrl.presc, ~c.ctrl.tconst,
           NEW e \in Nat, NEW t \in Nat, NEW n \in Nat, NEW p, p = Period(c),
           c.count = (p - Scale - e) + t * p, c.count \in 0 .. p - 1,
           NEW b, b = TimerChan(c, n), NEW w, w = Turns(c, n)
    PROVE  /\ w \in Nat /\ b \in CtcChanState /\ b.ctrl = c.ctrl /\ b.reload = c.reload
           /\ Period(b) = p
           /\ b.count = (p - Scale - (e + n * Ratio)) + (t + w) * p /\ b.count \in 0 .. p - 1
<1>1. TimerRuns(c)
  BY DEF TimerRuns, CTC_STOPPED
<1>2. w = Wraps(c, n)
  BY <1>1 DEF Turns
<1>3. /\ b \in CtcChanState /\ b.ctrl = c.ctrl /\ b.reload = c.reload
      /\ b.count = Remaining(c, n) + w * p
  BY <1>1, <1>2, TimerChanType
<1>4. /\ p \in Nat \ {0} /\ Remaining(c, n) \in Int /\ Remaining(c, n) <= c.count /\ w \in Nat
      /\ w = 0 <=> Remaining(c, n) >= 0
      /\ w # 0 => Remaining(c, n) + w * p \in 0 .. p - 1
  BY <1>2, TimerNumbers
<1>5. PICK x \in Int : x = Remaining(c, n)
  BY <1>4
<1>6. PICK y \in Int : y = n * Ratio
  BY CtcAssumption
<1>7. x = c.count - y
  BY <1>5, <1>6 DEF Remaining
<1>8. b.count \in 0 .. p - 1
  <2>1. CASE w = 0
    <3>1. b.count = x /\ x >= 0 /\ x <= c.count
      BY <1>3, <1>4, <1>5, <2>1
    <3> QED
      BY <1>4, <3>1
  <2>2. CASE w # 0
    BY <1>3, <1>4, <2>2
  <2> QED
    BY <2>1, <2>2
<1>9. b.count = (p - Scale - (e + n * Ratio)) + (t + w) * p
  <2>1. PICK u \in Int, v \in Int : u = t * p /\ v = w * p
    BY <1>4
  <2>2. (t + w) * p = u + v
    BY <1>4, <2>1
  <2>3. b.count = ((p - Scale - e) + u) - y + v
    BY <1>3, <1>5, <1>7, <2>1
  <2>4. Scale \in Int
    BY CtcAssumption
  <2>5. ((p - Scale - e) + u) - y + v = (p - Scale - (e + y)) + (u + v)
    BY <1>4, <2>4
  <2> QED
    BY <1>6, <2>2, <2>3, <2>5, Zenon
<1>10. Period(b) = p
  BY <1>3 DEF Period
<1> QED
  BY <1>3, <1>4, <1>8, <1>9, <1>10

\* A slice of any length, with however many timeouts in it.
LEMMA TickPair ==
    ASSUME Chained, NEW k, NEW e \in Nat, NEW t \in Nat, PairGood(k, e, t), NEW n \in Nat
    PROVE  \E w \in Nat : PairGood(ctc_tick(k, n), e + n * Ratio, t + w)
<1> DEFINE c == k.ch[2]
           p == Period(c)
           d == k.ch[3]
<1>1. k \in CtcState /\ c \in CtcChanState /\ d \in CtcChanState
  BY DEF PairGood, CtcState, CtcChan
<1>2. PICK b : b = TimerChan(c, n)
  OBVIOUS
<1>3. PICK w : w = Turns(c, n)
  OBVIOUS
<1>4. PICK q : q = p
  OBVIOUS
<1>5. /\ ~c.ctrl.counter /\ ~c.ctrl.presc /\ ~c.ctrl.tconst
      /\ c.count = (q - Scale - e) + t * q /\ c.count \in 0 .. q - 1
  BY <1>4 DEF PairGood
<1>6. /\ w \in Nat /\ b \in CtcChanState /\ b.ctrl = c.ctrl /\ b.reload = c.reload
      /\ Period(b) = q
      /\ b.count = (q - Scale - (e + n * Ratio)) + (t + w) * q /\ b.count \in 0 .. q - 1
  <2> HIDE DEF c
  <2> QED
    BY SMTT(60), <1>1, <1>2, <1>3, <1>4, <1>5, TimerExact
<1>7. PICK r : r = ctc_tick(k, n)
  OBVIOUS
<1>8. PICK f : f = PulsedTo(d, w)
  OBVIOUS
<1>9. PulsesIn(k, n) = w
  BY <1>3 DEF PulsesIn
<1>10. /\ r \in CtcState /\ r.ch[2] = b /\ r.ch[3] = TimerChan(f, n)
       /\ r.irqmask = k.irqmask \cup TimerIrq(k.ch[0], 0, n) \cup TimerIrq(k.ch[1], 1, n)
                        \cup TimerIrq(c, 2, n) \cup PulsesIrq(d, w) \cup TimerIrq(f, 3, n)
  <2>1. 2 \in 0 .. 2
    OBVIOUS
  <2>2. LET z == ctc_tick(k, n)
            g == PulsedTo(k.ch[3], PulsesIn(k, n))
        IN  /\ z \in CtcState /\ \A i \in 0 .. 2 : z.ch[i] = TimerChan(k.ch[i], n)
            /\ z.ch[3] = TimerChan(g, n)
            /\ z.irqmask = k.irqmask \cup TimerIrq(k.ch[0], 0, n) \cup TimerIrq(k.ch[1], 1, n)
                             \cup TimerIrq(k.ch[2], 2, n)
                             \cup PulsesIrq(k.ch[3], PulsesIn(k, n)) \cup TimerIrq(g, 3, n)
    BY <1>1, TickIs
  <2> QED
    BY <1>7, <1>8, <1>9, <1>2, <2>1, <2>2, Zenon
<1> HIDE DEF c, p, d
<1>11. Counting(d, t) /\ (3 \in k.irqmask <=> Asked(d.reload, t))
       /\ ~c.ctrl.counter /\ ~c.ctrl.presc /\ ~c.ctrl.tconst
  BY DEF PairGood, c, d
<1>12. /\ Counting(f, t + w) /\ f.reload = d.reload
       /\ Asked(d.reload, t + w) <=> Asked(d.reload, t) \/ 3 \in PulsesIrq(d, w)
  BY <1>6, <1>8, <1>11, CountsAll
<1>13. ~TimerRuns(f)
  BY <1>12 DEF Counting, TimerRuns
<1>14. r.ch[3] = f /\ TimerIrq(f, 3, n) = {}
  BY <1>10, <1>13 DEF TimerChan, TimerIrq, Turns
<1>15. 3 \notin TimerIrq(k.ch[0], 0, n) /\ 3 \notin TimerIrq(k.ch[1], 1, n) /\ 3 \notin TimerIrq(c, 2, n)
  BY DEF TimerIrq
<1>16. 3 \in r.irqmask <=> Asked(f.reload, t + w)
  <2>1. 3 \in r.irqmask <=> 3 \in k.irqmask \/ 3 \in PulsesIrq(d, w)
    BY <1>10, <1>14, <1>15
  <2> QED
    BY <1>11, <1>12, <2>1
<1>17. PairGood(r, e + n * Ratio, t + w)
  BY <1>6, <1>10, <1>11, <1>12, <1>14, <1>16 DEF PairGood
<1> QED
  BY <1>6, <1>7, <1>17

-----------------------------------------------------------------------------
(* Programming the pair *)

\* A channel after its control word and its time constant.
Programmed(q, k, i, counter, v) ==
    /\ q \in CtcState
    /\ q.ch[i].ctrl.irq = counter /\ q.ch[i].ctrl.counter = counter
    /\ q.ch[i].ctrl.presc = FALSE /\ q.ch[i].ctrl.tconst = FALSE
    /\ q.ch[i].reload = v /\ q.ch[i].count = ((v - 1) % Wrap) * Scale
    /\ \A j \in CtcChan \ {i} : q.ch[j] = k.ch[j]
    /\ q.irqmask = IF counter THEN k.irqmask ELSE k.irqmask \ {i}

LEMMA ProgramIs ==
    ASSUME NEW k \in CtcState, NEW i \in CtcChan, NEW counter \in BOOLEAN, NEW v \in 0 .. Wrap - 1,
           NEW q, q = Program(k, i, counter, v)
    PROVE  Programmed(q, k, i, counter, v)
<1> DEFINE w == [irq |-> counter, counter |-> counter, presc |-> FALSE, tconst |-> TRUE, reset |-> TRUE]
           x == [w EXCEPT !.tconst = FALSE]
           a == [k.ch[i] EXCEPT !.ctrl = w]
           u == LoadControl(k, i, w)
           n == ((v - 1) % Wrap) * Scale
           c == [a EXCEPT !.reload = v]
           d == [c EXCEPT !.count = n]
           e == [d EXCEPT !.ctrl.tconst = FALSE]
<1>1. /\ w \in Control /\ w.irq = counter /\ w.counter = counter
      /\ w.presc = FALSE /\ w.tconst = TRUE /\ w.reset = TRUE
  BY DEF Control
<1>2. k.ch[i] \in CtcChanState
  BY DEF CtcState
<1>3. a \in CtcChanState /\ a.ctrl = w
  <2> HIDE DEF w
  <2> QED
    BY <1>1, <1>2 DEF CtcChanState
<1>4. PICK m \in SUBSET CtcChan : /\ m = IF counter THEN k.irqmask ELSE k.irqmask \ {i}
                                  /\ u = [k EXCEPT !.ch[i] = a, !.irqmask = m]
  <2> HIDE DEF w
  <2>1. u = [k EXCEPT !.ch[i] = a, !.irqmask = IF counter THEN k.irqmask ELSE k.irqmask \ {i}]
    BY <1>1, Zenon DEF LoadControl
  <2> HIDE DEF u, a
  <2> QED
    BY <2>1 DEF CtcState
<1>5. /\ x \in Control /\ x.irq = counter /\ x.counter = counter
      /\ x.presc = FALSE /\ x.tconst = FALSE
  <2> HIDE DEF w
  <2>1. FALSE \in BOOLEAN
    OBVIOUS
  <2> QED
    BY <1>1, <2>1, ZenonT(60) DEF Control
<1> HIDE DEF w, x, a, u
<1>6. u \in CtcState /\ u.ch[i] = a /\ (\A j \in CtcChan \ {i} : u.ch[j] = k.ch[j])
      /\ u.irqmask = IF counter THEN k.irqmask ELSE k.irqmask \ {i}
  BY <1>3, <1>4 DEF CtcState
<1>7. n \in 0 .. Scale * Wrap - 1
  <2>1. (v - 1) % Wrap \in 0 .. Wrap - 1
    BY CtcAssumption
  <2> QED
    BY <2>1, ReloadFits
<1> HIDE DEF n
<1>8. c \in CtcChanState /\ c.ctrl = w /\ c.reload = v
  BY <1>3 DEF CtcChanState
<1> HIDE DEF c
<1>9. d \in CtcChanState /\ d.ctrl = w /\ d.reload = v /\ d.count = n
  BY <1>7, <1>8 DEF CtcChanState
<1>10. CTC_STOPPED(c) /\ Reloaded(c) = d
  BY <1>1, <1>8, Zenon DEF CTC_STOPPED, Reloaded, d, n
<1>11. e \in CtcChanState /\ e.ctrl = x /\ e.reload = v /\ e.count = n
  <2>1. e = [d EXCEPT !.ctrl = x]
    <3> HIDE DEF d
    <3>1. e = [d EXCEPT !.ctrl = [d.ctrl EXCEPT !.tconst = FALSE]]
      OBVIOUS
    <3> QED
      BY <1>9, <3>1, Zenon DEF x
  <2> HIDE DEF d, e
  <2> QED
    BY <1>5, <1>9, <2>1 DEF CtcChanState
<1>12. LoadConstant(u, i, v) = [u EXCEPT !.ch[i] = e]
  <2> HIDE DEF d
  <2> QED
    BY <1>6, <1>10, Zenon DEF LoadConstant, c, e
<1>13. q = [u EXCEPT !.ch[i] = e]
  BY <1>12, Zenon DEF Program, u, w
<1> HIDE DEF e
<1>14. /\ q \in CtcState /\ q.ch[i] = e /\ q.irqmask = u.irqmask
       /\ \A j \in CtcChan \ {i} : q.ch[j] = u.ch[j]
  BY <1>6, <1>11, <1>13 DEF CtcState
<1> QED
  BY <1>5, <1>6, <1>11, <1>14, Zenon DEF Programmed, n

LEMMA PairStarts ==
    ASSUME NEW r2 \in 0 .. Wrap - 1, NEW r3 \in 1 .. Wrap - 1,
           NEW k, k = Program(Program(CtcCreated, 3, TRUE, r3), 2, FALSE, r2)
    PROVE  PairGood(k, 0, 0)
<1>1. 3 \in CtcChan /\ 2 \in CtcChan /\ 3 \in CtcChan \ {2} /\ 2 \in CtcChan \ {3}
      /\ TRUE \in BOOLEAN /\ FALSE \in BOOLEAN /\ r3 \in 0 .. Wrap - 1
  BY CtcAssumption DEF CtcChan
<1>2. CtcCreated \in CtcState /\ CtcCreated.irqmask = {}
  BY CtcCreatedType
<1>3. PICK j : j = Program(CtcCreated, 3, TRUE, r3)
  OBVIOUS
<1>4. /\ j \in CtcState /\ j.irqmask = {}
      /\ j.ch[3].ctrl.irq /\ j.ch[3].ctrl.counter /\ ~j.ch[3].ctrl.tconst
      /\ j.ch[3].reload = r3 /\ j.ch[3].count = ((r3 - 1) % Wrap) * Scale
  <2>1. PICK b \in BOOLEAN, i \in CtcChan, z \in CtcState, v \in 0 .. Wrap - 1 :
            b = TRUE /\ i = 3 /\ z = CtcCreated /\ v = r3
    BY <1>1, <1>2
  <2>2. j = Program(z, i, b, v)
    BY <1>3, <2>1
  <2>3. Programmed(j, z, i, b, v)
    BY <2>2, ProgramIs
  <2> QED
    BY <1>2, <2>1, <2>3, Zenon DEF Programmed
<1>5. /\ k \in CtcState /\ k.irqmask = {} /\ k.ch[3] = j.ch[3]
      /\ ~k.ch[2].ctrl.counter /\ ~k.ch[2].ctrl.presc /\ ~k.ch[2].ctrl.tconst
      /\ k.ch[2].reload = r2 /\ k.ch[2].count = ((r2 - 1) % Wrap) * Scale
  <2>1. PICK b \in BOOLEAN, i \in CtcChan : b = FALSE /\ i = 2
    BY <1>1
  <2>2. k = Program(j, i, b, r2) /\ j \in CtcState
    BY <1>3, <1>4, <2>1
  <2>3. Programmed(k, j, i, b, r2)
    BY <2>2, ProgramIs
  <2>4. {} \ {i} = {}
    OBVIOUS
  <2> QED
    BY <1>1, <1>4, <2>1, <2>3, <2>4, Zenon DEF Programmed
<1>6. Counting(k.ch[3], 0)
  <2>1. (r3 - 1) % Wrap = r3 - 1
    BY CtcAssumption
  <2>2. Left(r3, 0) = r3 - 1
    BY DEF Left
  <2>3. (r3 - 1) * Scale = Scale * (r3 - 1)
    BY CtcAssumption
  <2>4. k.ch[3] \in CtcChanState
    BY <1>1, <1>5 DEF CtcState
  <2> QED
    BY <1>4, <1>5, <2>1, <2>2, <2>3, <2>4 DEF Counting
<1>7. ~Asked(k.ch[3].reload, 0)
  BY DEF Asked
<1>8. PICK m \in Nat \ {0} : m = IF r2 = 0 THEN Wrap ELSE r2
  BY CtcAssumption
<1>9. PICK p \in Nat \ {0} : p = m * Scale
  BY CtcAssumption
<1>10. Period(k.ch[2]) = p
  BY <1>5, <1>8, <1>9 DEF Period
<1>11. k.ch[2].count = p - Scale /\ p - Scale \in 0 .. p - 1
  <2>1. (r2 - 1) % Wrap = m - 1
    <3>1. CASE r2 = 0
      <4>1. (-1) % Wrap = Wrap - 1
        BY CtcAssumption
      <4>2. r2 - 1 = -1
        BY <3>1
      <4> QED
        BY <1>8, <3>1, <4>1, <4>2
    <3>2. CASE r2 # 0
      BY <1>8, <3>2, CtcAssumption
    <3> QED
      BY <3>1, <3>2
  <2>2. (m - 1) * Scale = p - Scale
    BY <1>9, CtcAssumption
  <2>3. p - Scale >= 0
    <3>1. (m - 1) * Scale >= 0
      BY CtcAssumption
    <3> QED
      BY <2>2, <3>1
  <2>4. k.ch[2].count = p - Scale
    BY <1>5, <2>1, <2>2, Zenon
  <2>5. Scale \in Nat \ {0}
    BY CtcAssumption
  <2>6. p - Scale \in 0 .. p - 1
    BY <2>3, <2>5
  <2> QED
    BY <2>4, <2>6
<1>12. p - Scale = (p - Scale - 0) + 0 * p
  BY CtcAssumption
<1> QED
  BY <1>5, <1>6, <1>7, <1>10, <1>11, <1>12 DEF PairGood

-----------------------------------------------------------------------------
(* The machine *)

ChainInv == clock \in Nat /\ \E t \in Nat : PairGood(ctc, clock * Ratio, t)

\* What the pair has counted is the closed form: the number of timeouts is the
\* only one that leaves less than a period.
LEMMA ChainExact == ChainInv => PairCountsExactly
<1> SUFFICES ASSUME ChainInv  PROVE PairCountsExactly
  OBVIOUS
<1> DEFINE c == ctc.ch[2]
           d == ctc.ch[3]
<1>1. PICK e \in Nat : e = clock * Ratio
  BY CtcAssumption DEF ChainInv
<1>2. PICK t \in Nat : PairGood(ctc, e, t)
  BY <1>1 DEF ChainInv
<1>3. PICK m \in Nat \ {0} : m = TimerPeriod
  <2>1. c \in CtcChanState
    BY <1>2 DEF PairGood, CtcState, CtcChan
  <2> QED
    BY <2>1, CtcAssumption DEF TimerPeriod, CtcChanState
<1>4. PICK p \in Nat \ {0} : p = m * Scale
  BY CtcAssumption
<1>5. Period(c) = p /\ TimerPeriod * Scale = p
  BY <1>3, <1>4 DEF Period, TimerPeriod
<1>6. PICK f \in 0 .. p - 1 : f = First /\ f = p - Scale
  <2>1. (m - 1) * Scale = p - Scale
    BY <1>4, CtcAssumption
  <2>2. (m - 1) * Scale >= 0
    BY CtcAssumption
  <2> QED
    BY <1>3, <2>1, <2>2, CtcAssumption DEF First
<1>7. c.count = (f - e) + t * p /\ (f - e) + t * p \in 0 .. p - 1
  BY <1>2, <1>5, <1>6 DEF PairGood
<1>8. Timeouts = t
  <2>1. PICK u \in Nat : u = Expiries(e, f, p) /\ (f - e) + u * p \in 0 .. p - 1
    BY ExpiriesAre
  <2>2. f - e \in Int
    OBVIOUS
  <2>3. u = t
    BY <1>7, <2>1, <2>2, OneTurn
  <2> QED
    BY <1>1, <1>5, <1>6, <2>1, <2>3 DEF Timeouts, Expiries
<1>9. NoDrift
  <2>1. PICK n \in Int : n = f - e
    OBVIOUS
  <2>2. n % p = n + t * p
    <3>1. n + t * p \in 0 .. p - 1 /\ t \in Int
      BY <1>7, <2>1
    <3> QED
      BY <3>1, RestIs
  <2> QED
    BY <1>1, <1>5, <1>6, <1>7, <2>1, <2>2 DEF NoDrift
<1>10. DividesExactly
  <2>1. Counting(d, t) /\ (3 \in ctc.irqmask <=> Asked(d.reload, t))
    BY <1>2 DEF PairGood
  <2> QED
    BY <1>8, <2>1 DEF DividesExactly, Counting, Left, Asked
<1> QED
  BY <1>9, <1>10 DEF PairCountsExactly

\* Chained channels of the CTC lose no clock and no timeout: whatever slices the
\* main loop hands to ctc_tick, and however many timeouts fall into one of them,
\* the timer's count is the closed form of the time that has passed, the channel
\* that ctc_pulse feeds has counted each timeout once, and it has wanted to
\* interrupt as soon as its constant was used up. For every prescaler, every
\* pair of time constants, and slices of any length.
THEOREM PairCounts == ChainConst => (Spec => []PairCountsExactly)
<1> SUFFICES ASSUME ChainConst  PROVE Spec => []PairCountsExactly
  OBVIOUS
<1>1. Init => ChainInv
  <2> SUFFICES ASSUME Init  PROVE ChainInv
    OBVIOUS
  <2>1. PICK r2 \in TimerConst, r3 \in CounterConst :
            ctc = Program(Program(CtcCreated, 3, TRUE, r3), 2, FALSE, r2)
    BY DEF Init
  <2>2. r2 \in 0 .. Wrap - 1 /\ r3 \in 1 .. Wrap - 1
    BY DEF ChainConst
  <2>3. PairGood(ctc, 0, 0)
    BY <2>1, <2>2, PairStarts
  <2>4. clock = 0 /\ 0 * Ratio = 0
    BY CtcAssumption DEF Init
  <2> QED
    BY <2>3, <2>4 DEF ChainInv
<1>2. ChainInv /\ [Next]_vars => ChainInv'
  <2> SUFFICES ASSUME ChainInv, [Next]_vars  PROVE ChainInv'
    OBVIOUS
  <2>1. CASE UNCHANGED vars
    <3>1. ctc' = ctc /\ clock' = clock
      BY <2>1 DEF vars
    <3> QED
      BY <3>1, Zenon DEF ChainInv
  <2>2. CASE Next
    <3>1. PICK n \in Slice : ctc' = ctc_tick(ctc, n) /\ clock' = clock + n
      BY <2>2 DEF Next, Tick
    <3>2. n \in Nat /\ clock \in Nat /\ Chained
      BY DEF ChainConst, ChainInv
    <3>3. PICK e \in Nat : e = clock * Ratio
      BY <3>2, CtcAssumption
    <3>4. PICK t \in Nat : PairGood(ctc, e, t)
      BY <3>3 DEF ChainInv
    <3>5. PICK w \in Nat : PairGood(ctc_tick(ctc, n), e + n * Ratio, t + w)
      BY <3>2, <3>4, TickPair
    <3>6. e + n * Ratio = (clock + n) * Ratio
      BY <3>2, <3>3, CtcAssumption
    <3>7. clock' \in Nat /\ t + w \in Nat
      BY <3>1, <3>2
    <3> QED
      BY <3>1, <3>5, <3>6, <3>7, Zenon DEF ChainInv
  <2> QED
    BY <2>1, <2>2
<1> QED
  BY <1>1, <1>2, ChainExact, PTL DEF Spec
=============================================================================
