--------------------------- MODULE ProtocolProofs ---------------------------
(***************************************************************************)
(* What the parts that follow a protocol bit by bit or byte by byte keep,  *)
(* for every value of their constants: the RETI decoder of rc2014.c        *)
(* beside the opcode tables of libz80, the rings of the W5100, the frames  *)
(* of the PS/2 keyboard and the bits of the I2C bus and its clock chip.    *)
(***************************************************************************)
EXTENDS MCProtocols, WellFoundedInduction, TLAPS

-----------------------------------------------------------------------------
(* The RETI decoder *)

\* The decoder is one behind an ED exactly when the Z80 decodes with the ED
\* table, unless something that looked like a prefix came before the ED.
RetiInv ==
    /\ RetiTypeOK
    /\ rstate = 1 => table = "ed"
    /\ table \in {"ddfd", "cb", "ddcb"} => rstate = 2
    /\ rstate = 2 => PrefixBefore(0)
    /\ table = "ed" /\ rstate # 1 => PrefixBefore(1)
    /\ RetiSeenAsExecuted

LEMMA RetiStarts == RetiInit => RetiInv
<1> SUFFICES ASSUME RetiInit  PROVE RetiInv
  OBVIOUS
<1>1. /\ table = "main" /\ rstate = 0 /\ reads = <<>> /\ seen = FALSE /\ executed = FALSE
  BY DEF RetiInit
<1>2. reads \in Seq([byte : ByteClass, m1 : BOOLEAN]) /\ Len(reads) <= MaxReads /\ rstate \in 0 .. 2
  BY <1>1, ReadsAssumption
<1>3. RetiTypeOK
  BY <1>1, <1>2, Zenon DEF RetiTypeOK
<1> QED
  BY <1>1, <1>3 DEF RetiInv, RetiSeenAsExecuted, NoFalseReti, SeenAfterPlainByte

\* What the last byte but n was before a read is what the last but n + 1 is
\* after it.
LEMMA PrefixMoves ==
    ASSUME reads \in Seq([byte : ByteClass, m1 : BOOLEAN]),
           NEW b \in ByteClass, NEW m1 \in BOOLEAN, mem_read(b, m1)
    PROVE  /\ reads' \in Seq([byte : ByteClass, m1 : BOOLEAN])
           /\ Len(reads) < MaxReads /\ Len(reads) \in Nat /\ Len(reads') = Len(reads) + 1
           /\ PrefixBefore(0)' <=> m1 /\ b \in {"DDFD", "CB"}
           /\ PrefixBefore(1)' <=> PrefixBefore(0)
           /\ PrefixBefore(2)' <=> PrefixBefore(1)
<1> DEFINE e == [byte |-> b, m1 |-> m1]
           p == [byte : {"DDFD", "CB"}, m1 : {TRUE}]
           E == [byte : ByteClass, m1 : BOOLEAN]
<1>1. e \in E /\ reads' = Append(reads, e) /\ reads \in Seq(E)
  BY DEF mem_read
<1>2. e \in p <=> m1 /\ b \in {"DDFD", "CB"}
  OBVIOUS
<1>3. /\ PrefixBefore(0) <=> Len(reads) > 0 /\ reads[Len(reads) - 0] \in p
      /\ PrefixBefore(1) <=> Len(reads) > 1 /\ reads[Len(reads) - 1] \in p
      /\ PrefixBefore(0)' <=> Len(reads') > 0 /\ reads'[Len(reads') - 0] \in p
      /\ PrefixBefore(1)' <=> Len(reads') > 1 /\ reads'[Len(reads') - 1] \in p
      /\ PrefixBefore(2)' <=> Len(reads') > 2 /\ reads'[Len(reads') - 2] \in p
  BY DEF PrefixBefore
<1> HIDE DEF e, p, E
<1>4. /\ reads' \in Seq(E) /\ Len(reads') = Len(reads) + 1 /\ Len(reads) \in Nat
      /\ reads'[Len(reads')] = e
      /\ \A i \in 1 .. Len(reads) : reads'[i] = reads[i]
  BY <1>1
<1>5. /\ reads'[Len(reads') - 0] = e
      /\ Len(reads) > 0 => reads'[Len(reads') - 1] = reads[Len(reads) - 0]
      /\ Len(reads) > 1 => reads'[Len(reads') - 2] = reads[Len(reads) - 1]
  BY <1>4
<1>6. /\ PrefixBefore(0)' <=> e \in p
      /\ PrefixBefore(1)' <=> PrefixBefore(0)
      /\ PrefixBefore(2)' <=> PrefixBefore(1)
  BY <1>3, <1>4, <1>5
<1>7. Len(reads) < MaxReads
  BY DEF mem_read
<1> QED
  BY <1>2, <1>4, <1>6, <1>7 DEF E

LEMMA RetiStep == RetiInv /\ [RetiNext]_retiVars => RetiInv'
<1> SUFFICES ASSUME RetiInv, [RetiNext]_retiVars  PROVE RetiInv'
  OBVIOUS
<1>0. RetiTypeOK
  BY DEF RetiInv
<1>1. ASSUME NEW b \in ByteClass, Fetch(b)  PROVE RetiInv'
  <2>1. mem_read(b, TRUE) /\ Defined(b) /\ table' = NextTable(b)
        /\ executed' = (table = "ed" /\ b = "4D")
    BY <1>1 DEF Fetch
  <2>2. /\ reads' \in Seq([byte : ByteClass, m1 : BOOLEAN])
        /\ Len(reads) < MaxReads /\ Len(reads) \in Nat /\ Len(reads') = Len(reads) + 1
        /\ PrefixBefore(0)' <=> b \in {"DDFD", "CB"}
        /\ PrefixBefore(1)' <=> PrefixBefore(0)
        /\ PrefixBefore(2)' <=> PrefixBefore(1)
    BY <1>0, <2>1, PrefixMoves DEF RetiTypeOK
  <2>3. /\ rstate' = IF b \in {"DDFD", "CB"} THEN 2 ELSE IF b = "ED" /\ rstate = 0 THEN 1 ELSE 0
        /\ seen' = (b = "4D" /\ rstate = 1)
    BY <2>1 DEF mem_read
  <2>4. RetiTypeOK'
    <3>1. /\ table' \in {"main", "ddfd", "cb", "ed", "ddcb"} /\ rstate' \in 0 .. 2
          /\ seen' \in BOOLEAN /\ executed' \in BOOLEAN
      BY <2>1, <2>3 DEF NextTable
    <3>2. Len(reads') <= MaxReads
      BY <2>2, ReadsAssumption
    <3> QED
      BY <2>2, <3>1, <3>2 DEF RetiTypeOK
  <2>5. rstate' = 1 => table' = "ed"
    BY <1>0, <2>1, <2>3 DEF NextTable, Defined, RetiInv, RetiTypeOK
  <2>6. table' \in {"ddfd", "cb", "ddcb"} => rstate' = 2
    BY <2>1, <2>3 DEF NextTable, RetiInv
  <2>7. rstate' = 2 => PrefixBefore(0)'
    BY <2>2, <2>3
  <2>8. table' = "ed" /\ rstate' # 1 => PrefixBefore(1)'
    BY <1>0, <2>1, <2>2, <2>3 DEF NextTable, RetiInv, RetiTypeOK
  <2>9. RetiSeenAsExecuted'
    BY <2>1, <2>2, <2>3 DEF RetiSeenAsExecuted, NoFalseReti, SeenAfterPlainByte, RetiInv
  <2> QED
    BY <2>2, <2>4, <2>5, <2>6, <2>7, <2>8, <2>9 DEF RetiInv
<1>2. ASSUME NEW b \in ByteClass, ReadData(b)  PROVE RetiInv'
  <2>1. mem_read(b, FALSE) /\ table = "main" /\ table' = "main" /\ executed' = FALSE
    BY <1>2 DEF ReadData
  <2>2. /\ reads' \in Seq([byte : ByteClass, m1 : BOOLEAN])
        /\ Len(reads) < MaxReads /\ Len(reads) \in Nat /\ Len(reads') = Len(reads) + 1
    BY <1>0, <2>1, PrefixMoves DEF RetiTypeOK
  <2>3. rstate' = 0 /\ seen' = (b = "4D" /\ rstate = 1)
    BY <2>1 DEF mem_read
  <2>4. RetiSeenAsExecuted'
    BY <2>1, <2>3 DEF RetiSeenAsExecuted, NoFalseReti, SeenAfterPlainByte, RetiInv
  <2>5. RetiTypeOK'
    <3>1. Len(reads') <= MaxReads
      BY <2>2, ReadsAssumption
    <3>2. rstate' \in 0 .. 2
      BY <2>3
    <3>3. seen' \in BOOLEAN /\ executed' \in BOOLEAN
      BY <2>1, <2>3, Zenon
    <3>4. table' \in {"main", "ddfd", "cb", "ed", "ddcb"}
      BY <2>1
    <3> QED
      BY <2>2, <3>1, <3>2, <3>3, <3>4, Zenon DEF RetiTypeOK
  <2> QED
    BY <2>1, <2>3, <2>4, <2>5 DEF RetiInv
<1>3. CASE UNCHANGED retiVars
  BY <1>3 DEF retiVars, RetiInv, RetiTypeOK, PrefixBefore, RetiSeenAsExecuted, NoFalseReti, SeenAfterPlainByte
<1> QED
  BY <1>1, <1>2, <1>3 DEF RetiNext

\* For every sequence of opcodes that exist, with operand and data reads in
\* between, what mem_read of rc2014.c takes for a RETI is executed as one, and
\* a RETI is missed only behind a byte that looks like a prefix.
THEOREM RetiIsSeen == RetiSpec => []RetiSeenAsExecuted
<1>1. RetiInv => RetiSeenAsExecuted
  BY DEF RetiInv
<1> QED
  BY <1>1, RetiStarts, RetiStep, PTL DEF RetiSpec

-----------------------------------------------------------------------------
(* Induction and remainders *)

\* Induction over the natural numbers, with the induction hypothesis a set.
LEMMA NatSetInduction ==
    ASSUME NEW S, 0 \in S, \A n \in Nat : n \in S => n + 1 \in S
    PROVE  \A n \in Nat : n \in S
<1> DEFINE T == Nat \ S
           R == OpToRel(<, Nat)
<1> SUFFICES ASSUME T # {}  PROVE FALSE
  OBVIOUS
<1>1. PICK x \in T : \A y \in T : ~(<<y, x>> \in R)
  <2> HIDE DEF R
  <2>1. IsWellFoundedOn(R, Nat)
    BY NatLessThanWellFounded DEF R
  <2>2. T \subseteq Nat
    OBVIOUS
  <2> HIDE DEF T
  <2> QED
    BY <2>1, <2>2, WFMin
<1>2. x \in Nat /\ x # 0 /\ x - 1 \in Nat /\ (x - 1) + 1 = x
  OBVIOUS
<1>3. x - 1 \in T /\ <<x - 1, x>> \in R
  BY <1>2 DEF OpToRel
<1> QED
  BY <1>1, <1>3

\* Division with remainder.
LEMMA DivMod ==
    ASSUME NEW a \in Int, NEW m \in Nat, m > 0
    PROVE  a % m \in 0 .. m - 1 /\ a \div m \in Int /\ a = (a \div m) * m + (a % m)
  OBVIOUS

\* Two remainders that differ by a multiple are equal.
LEMMA ModEqual ==
    ASSUME NEW m \in Nat, m > 0, NEW q \in Int, NEW r \in 0 .. m - 1, NEW t \in 0 .. m - 1,
           r = q * m + t
    PROVE  r = t
<1>1. CASE q = 0
  BY <1>1
<1>2. CASE q >= 1
  <2>1. q * m >= m
    BY <1>2
  <2> QED
    BY <2>1
<1>3. CASE q <= -1
  <2>1. q * m <= -m
    BY <1>3
  <2> QED
    BY <2>1
<1> QED
  BY <1>1, <1>2, <1>3

\* The remainder is the one number in range that differs by a multiple.
LEMMA ModIs ==
    ASSUME NEW a \in Int, NEW m \in Nat, m > 0, NEW q \in Int, NEW r \in 0 .. m - 1, a = q * m + r
    PROVE  (a % m) = r
<1> DEFINE d == a \div m
<1>1. (a % m) \in 0 .. m - 1 /\ d \in Int /\ a = d * m + (a % m)
  BY DivMod
<1> HIDE DEF d
<1>2. d * m + (a % m) = q * m + r
  BY <1>1
<1>3. (d - q) * m = d * m - q * m /\ d - q \in Int
  BY <1>1
<1>4. r = (d - q) * m + (a % m)
  BY <1>1, <1>2, <1>3
<1> QED
  BY SMTT(60), <1>1, <1>4, ModEqual

\* Whole turns do not change a remainder.
LEMMA ModTurns ==
    ASSUME NEW a \in Int, NEW m \in Nat, m > 0, NEW q \in Int
    PROVE  (a + q * m) % m = (a % m)
<1> DEFINE d == a \div m
<1>1. (a % m) \in 0 .. m - 1 /\ d \in Int /\ a = d * m + (a % m)
  BY DivMod
<1> HIDE DEF d
<1>2. (d + q) * m = d * m + q * m /\ d + q \in Int /\ q * m \in Int
  BY <1>1
<1>3. a + q * m = (d + q) * m + (a % m) /\ a + q * m \in Int
  BY <1>1, <1>2
<1> QED
  BY <1>1, <1>2, <1>3, ModIs

LEMMA ModTurn ==
    ASSUME NEW a \in Int, NEW m \in Nat, m > 0
    PROVE  (a + m) % m = a % m
<1> DEFINE q == 1
<1>1. q \in Int /\ q * m = m
  OBVIOUS
<1> HIDE DEF q
<1>2. (a + q * m) % m = a % m
  BY <1>1, ModTurns
<1> QED
  BY <1>1, <1>2

\* A remainder taken first makes no difference to a sum,
LEMMA ModSum ==
    ASSUME NEW a \in Int, NEW b \in Int, NEW m \in Nat, m > 0
    PROVE  ((a % m) + b) % m = (a + b) % m /\ (b - (a % m)) % m = (b - a) % m
<1> DEFINE d == a \div m
<1>1. (a % m) \in 0 .. m - 1 /\ d \in Int /\ a = d * m + (a % m)
  BY DivMod
<1> HIDE DEF d
<1>2. a + b = ((a % m) + b) + d * m /\ (a % m) + b \in Int
  BY <1>1
<1>3. (a + b) % m = ((a % m) + b) % m
  BY ZenonT(60), <1>1, <1>2, ModTurns
<1>4. b - (a % m) = (b - a) + d * m /\ b - a \in Int
  BY <1>1
<1>5. ((b - a) + d * m) % m = (b - a) % m
  BY <1>1, <1>4, ModTurns
<1> QED
  BY <1>3, <1>4, <1>5

LEMMA ModLike ==
    ASSUME NEW a \in Int, NEW b \in Int, NEW c \in Int, NEW m \in Nat, m > 0, a % m = b % m
    PROVE  (a + c) % m = (b + c) % m
<1>1. (a + c) % m = ((a % m) + c) % m
  BY ModSum
<1>2. (b + c) % m = ((b % m) + c) % m
  BY ModSum
<1> QED
  BY <1>1, <1>2

\* nor to a number in range.
LEMMA ModSmall ==
    ASSUME NEW m \in Nat, m > 0, NEW r \in 0 .. m - 1
    PROVE  r % m = r
<1>1. r = 0 * m + r
  OBVIOUS
<1> QED
  BY <1>1, ModIs
-----------------------------------------------------------------------------
(* Recursive functions and powers of two *)

\* f follows F for N steps from a,
Iterated(F, a, N, f) == f[0] = a /\ \A i \in 1 .. N : f[i] = F[<<i, f[i - 1]>>]

\* and F stays in S.
Stays(F, S, N) == \A i \in 1 .. N, x \in S : F[<<i, x>>] \in S

\* A step that stays in S can be taken any number of times,
LEMMA Iterates ==
    ASSUME NEW S, NEW a \in S, NEW N \in Nat, NEW F, Stays(F, S, N)
    PROVE  \E f \in [0 .. N -> S] : Iterated(F, a, N, f)
<1> DEFINE T == {n \in Nat : n <= N => \E f \in [0 .. n -> S] : Iterated(F, a, n, f)}
<1>1. 0 \in T
  <2> DEFINE f == [i \in 0 .. 0 |-> a]
  <2>1. f \in [0 .. 0 -> S] /\ Iterated(F, a, 0, f)
    BY DEF Iterated
  <2> QED
    BY <2>1
<1>2. ASSUME NEW n \in Nat, n \in T  PROVE n + 1 \in T
  <2> SUFFICES ASSUME n + 1 <= N  PROVE \E f \in [0 .. n + 1 -> S] : Iterated(F, a, n + 1, f)
    OBVIOUS
  <2>1. PICK f \in [0 .. n -> S] : Iterated(F, a, n, f)
    BY <1>2
  <2> DEFINE y == F[<<n + 1, f[n]>>]
             g == [i \in 0 .. n + 1 |-> IF i = n + 1 THEN y ELSE f[i]]
  <2>2. y \in S
    <3>1. n + 1 \in 1 .. N /\ f[n] \in S
      OBVIOUS
    <3> QED
      BY <3>1 DEF Stays
  <2>3. g \in [0 .. n + 1 -> S]
    <3> HIDE DEF y
    <3> QED
      BY <2>2
  <2>4. g[0] = a
    BY <2>1 DEF Iterated
  <2>5. ASSUME NEW i \in 1 .. n + 1  PROVE g[i] = F[<<i, g[i - 1]>>]
    <3>1. CASE i = n + 1
      <4>1. i - 1 = n /\ i - 1 \in 0 .. n + 1 /\ i - 1 # n + 1 /\ i \in 0 .. n + 1
        BY <3>1
      <4>2. g[i - 1] = f[n] /\ g[i] = y
        BY <3>1, <4>1
      <4> QED
        BY <3>1, <4>1, <4>2
    <3>2. CASE i # n + 1
      <4>1. i \in 1 .. n /\ i - 1 \in 0 .. n + 1 /\ i - 1 # n + 1 /\ i \in 0 .. n + 1
        BY <3>2
      <4>2. g[i - 1] = f[i - 1] /\ g[i] = f[i]
        BY <3>2, <4>1
      <4> QED
        BY <2>1, <4>1, <4>2 DEF Iterated
    <3> QED
      BY <3>1, <3>2
  <2> HIDE DEF g
  <2> QED
    BY <2>3, <2>4, <2>5 DEF Iterated
<1> HIDE DEF T
<1>3. N \in T
  BY <1>1, <1>2, NatSetInduction
<1> QED
  BY <1>3 DEF T

\* and in one way only.
LEMMA IteratesAgree ==
    ASSUME NEW F, NEW a, NEW f, NEW g, NEW N \in Nat, NEW M \in Nat, N <= M,
           Iterated(F, a, N, f), Iterated(F, a, M, g)
    PROVE  \A n \in 0 .. N : f[n] = g[n]
<1> DEFINE T == {n \in Nat : n <= N => f[n] = g[n]}
<1>1. 0 \in T
  BY DEF Iterated
<1>2. ASSUME NEW n \in Nat, n \in T  PROVE n + 1 \in T
  <2> SUFFICES ASSUME n + 1 <= N  PROVE f[n + 1] = g[n + 1]
    OBVIOUS
  <2>1. n + 1 \in 1 .. N /\ n + 1 \in 1 .. M /\ (n + 1) - 1 = n /\ f[n] = g[n]
    BY <1>2
  <2> QED
    BY <2>1 DEF Iterated
<1> HIDE DEF T
<1>3. \A n \in Nat : n \in T
  BY <1>1, <1>2, NatSetInduction
<1> QED
  BY <1>3 DEF T

Pow2Body(f) == [n \in Nat |-> IF n = 0 THEN 1 ELSE 2 * f[n - 1]]

Doubling == [p \in Nat \X Nat |-> 2 * p[2]]

LEMMA DoublingIs ==
    \A i \in Nat, x \in Nat : Doubling[<<i, x>>] = 2 * x /\ Doubling[<<i, x>>] \in Nat
<1>1. \A p \in Nat \X Nat : Doubling[p] = 2 * p[2]
  BY DEF Doubling
<1>2. ASSUME NEW i \in Nat, NEW x \in Nat  PROVE Doubling[<<i, x>>] = 2 * x
  <2>1. <<i, x>> \in Nat \X Nat /\ <<i, x>>[2] = x
    OBVIOUS
  <2> QED
    BY <1>1, <2>1
<1>3. \A x \in Nat : 2 * x \in Nat
  OBVIOUS
<1> QED
  BY <1>2, <1>3

\* The first n powers.
FirstPowers(n) == CHOOSE f \in [0 .. n -> Nat] : Iterated(Doubling, 1, n, f)

LEMMA PowersExist ==
    \A n \in Nat : FirstPowers(n) \in [0 .. n -> Nat] /\ Iterated(Doubling, 1, n, FirstPowers(n))
<1> TAKE n \in Nat
<1>1. Stays(Doubling, Nat, n)
  <2>1. ASSUME NEW i \in 1 .. n, NEW x \in Nat  PROVE Doubling[<<i, x>>] \in Nat
    BY DoublingIs
  <2> QED
    BY <2>1 DEF Stays
<1>2. \E f \in [0 .. n -> Nat] : Iterated(Doubling, 1, n, f)
  BY <1>1, Iterates
<1> QED
  BY <1>2, Zenon DEF FirstPowers

LEMMA PowersAgree ==
    \A n \in Nat : FirstPowers(n + 1)[n] = FirstPowers(n)[n]
<1> TAKE n \in Nat
<1>1. n + 1 \in Nat /\ n <= n + 1 /\ n \in 0 .. n
  OBVIOUS
<1>2. Iterated(Doubling, 1, n + 1, FirstPowers(n + 1)) /\ Iterated(Doubling, 1, n, FirstPowers(n))
  BY <1>1, PowersExist
<1> QED
  BY <1>1, <1>2, IteratesAgree

\* The powers of two are what their recursion says.
LEMMA Pow2Is ==
    /\ \A n \in Nat : Pow2[n] \in Nat \ {0} /\ Pow2[n + 1] = 2 * Pow2[n]
    /\ Pow2[0] = 1 /\ Pow2[1] = 2
<1> DEFINE h == [n \in Nat |-> FirstPowers(n)[n]]
<1>4. h[0] = 1 /\ \A n \in Nat : h[n] \in Nat
  <2>1. ASSUME NEW n \in Nat  PROVE FirstPowers(n)[n] \in Nat
    <3>1. n \in 0 .. n
      OBVIOUS
    <3> QED
      BY <3>1, PowersExist
  <2>2. FirstPowers(0)[0] = 1
    BY PowersExist DEF Iterated
  <2> QED
    BY <2>1, <2>2
<1>5. \A n \in Nat : h[n + 1] = 2 * h[n]
  <2> TAKE n \in Nat
  <2>1. n + 1 \in 1 .. n + 1 /\ n \in 0 .. n + 1 /\ (n + 1) - 1 = n /\ n + 1 \in Nat
    OBVIOUS
  <2>2. FirstPowers(n + 1) \in [0 .. n + 1 -> Nat] /\ Iterated(Doubling, 1, n + 1, FirstPowers(n + 1))
    BY <2>1, PowersExist
  <2>3. FirstPowers(n + 1)[n + 1] = Doubling[<<n + 1, FirstPowers(n + 1)[n]>>] /\ FirstPowers(n + 1)[n] \in Nat
    BY <2>1, <2>2 DEF Iterated
  <2>4. FirstPowers(n + 1)[n + 1] = 2 * FirstPowers(n)[n]
    BY <2>1, <2>3, DoublingIs, PowersAgree
  <2> QED
    BY <2>1, <2>4
<1> HIDE DEF h
<1>6. h = Pow2Body(h)
  <2>1. ASSUME NEW n \in Nat  PROVE h[n] = IF n = 0 THEN 1 ELSE 2 * h[n - 1]
    <3>1. CASE n # 0
      <4>1. n - 1 \in Nat /\ (n - 1) + 1 = n
        BY <3>1
      <4> QED
        BY <1>5, <3>1, <4>1
    <3> QED
      BY <1>4, <3>1
  <2>2. h = [n \in Nat |-> h[n]]
    BY DEF h
  <2> HIDE DEF h
  <2>3. Pow2Body(h) = [n \in Nat |-> h[n]]
    BY <2>1 DEF Pow2Body
  <2> QED
    BY <2>2, <2>3
<1>7. Pow2 = Pow2Body(Pow2)
  BY <1>6 DEF Pow2, Pow2Body
<1>8. \A n \in Nat : Pow2[n] = IF n = 0 THEN 1 ELSE 2 * Pow2[n - 1]
  BY <1>7 DEF Pow2Body
<1> DEFINE T == {n \in Nat : Pow2[n] \in Nat \ {0}}
<1>9. \A n \in Nat : Pow2[n + 1] = 2 * Pow2[n]
  BY <1>8
<1>10. Pow2[0] = 1
  BY <1>8
<1>11. 0 \in T /\ \A n \in Nat : n \in T => n + 1 \in T
  BY <1>9, <1>10
<1>12. Pow2[1] = 2
  BY <1>9, <1>10
<1> HIDE DEF T
<1>13. \A n \in Nat : n \in T
  BY <1>11, NatSetInduction
<1> QED
  BY <1>9, <1>10, <1>12, <1>13 DEF T

LEMMA DivIs ==
    ASSUME NEW a \in Int, NEW m \in Nat, m > 0, NEW q \in Int, NEW r \in 0 .. m - 1, a = q * m + r
    PROVE  (a \div m) = q
<1>1. (a % m) = r
  BY ModIs
<1>2. (a % m) \in 0 .. m - 1 /\ a \div m \in Int /\ a = (a \div m) * m + (a % m)
  BY DivMod
<1> DEFINE d == a \div m
<1>3. d * m = q * m /\ d \in Int
  BY <1>1, <1>2
<1> HIDE DEF d
<1>4. (d - q) * m = d * m - q * m /\ d - q \in Int
  BY <1>3
<1>5. (d - q) * m = 0
  BY <1>3, <1>4
<1> DEFINE e == d - q
<1>6. e \in Int /\ e * m = 0
  BY <1>4, <1>5
<1> HIDE DEF e
<1>7. e = 0
  <2>1. CASE e >= 1
    <3>1. e * m >= m
      BY <2>1, <1>6
    <3> QED
      BY <3>1, <1>6
  <2>2. CASE e <= -1
    <3>1. e * m <= -m
      BY <2>2, <1>6
    <3> QED
      BY <3>1, <1>6
  <2> QED
    BY <2>1, <2>2, <1>6
<1> QED
  BY <1>3, <1>7 DEF d, e

\* Halving a quotient doubles the divisor.
LEMMA DivHalf ==
    ASSUME NEW a \in Nat, NEW m \in Nat \ {0}
    PROVE  (a \div m) \div 2 = a \div (2 * m)
<1> DEFINE d == a \div m
           e == d \div 2
<1>1. (a % m) \in 0 .. m - 1 /\ d \in Int /\ a = d * m + (a % m)
  BY DivMod
<1> HIDE DEF d
<1>2. (d % 2) \in 0 .. 1 /\ e \in Int /\ d = e * 2 + (d % 2)
  BY <1>1, DivMod
<1> HIDE DEF e
<1> DEFINE r == (d % 2) * m + (a % m)
<1>3. r \in 0 .. (2 * m) - 1
  <2>1. CASE d % 2 = 0
    BY <1>1, <2>1
  <2>2. CASE d % 2 = 1
    BY <1>1, <2>2
  <2> QED
    BY <1>2, <2>1, <2>2
<1>4. a = e * (2 * m) + r
  <2>1. PICK b \in 0 .. 1 : b = d % 2
    BY <1>2
  <2>2. d * m = (e * 2 + b) * m
    BY <1>2, <2>1
  <2>3. (e * 2 + b) * m = e * (2 * m) + b * m
    BY <1>2
  <2>4. r = b * m + (a % m)
    BY <2>1
  <2> DEFINE x == e * (2 * m)
             y == b * m
             z == d * m
             c == a % m
  <2>5. x \in Int /\ y \in Int /\ c \in Int
    BY <1>1, <1>2
  <2>6. z = x + y /\ a = z + c /\ r = y + c
    BY <1>1, <2>2, <2>3, <2>4
  <2> HIDE DEF x, y, z, c, r
  <2>7. a = x + r
    BY <2>5, <2>6
  <2> QED
    BY <2>7 DEF x
<1>5. 2 * m \in Nat /\ 2 * m > 0
  OBVIOUS
<1> HIDE DEF r
<1>6. a \div (2 * m) = e
  BY <1>2, <1>3, <1>4, <1>5, DivIs
<1> QED
  BY <1>6 DEF e, d

\* A quotient is below what the number is below.
LEMMA DivSmall ==
    ASSUME NEW a \in Nat, NEW m \in Nat \ {0}
    PROVE  a \div m \in 0 .. a
<1> DEFINE d == a \div m
<1>1. (a % m) \in 0 .. m - 1 /\ d \in Int /\ a = d * m + (a % m)
  BY DivMod
<1> HIDE DEF d
<1>2. d >= 0
  <2>1. CASE d <= -1
    <3>1. d * m <= -m
      BY <2>1, <1>1
    <3> QED
      BY <3>1, <1>1
  <2> QED
    BY <2>1, <1>1
<1>3. d <= d * m
  BY <1>1, <1>2
<1> QED
  BY <1>1, <1>2, <1>3 DEF d

\* The powers add up.
LEMMA Pow2Sum ==
    ASSUME NEW a \in Nat
    PROVE  \A b \in Nat : Pow2[a + b] = Pow2[a] * Pow2[b]
<1> DEFINE T == {b \in Nat : Pow2[a + b] = Pow2[a] * Pow2[b]}
<1>1. 0 \in T
  <2>1. Pow2[a] \in Nat /\ Pow2[0] = 1 /\ a + 0 = a
    BY Pow2Is
  <2> QED
    BY <2>1
<1>2. ASSUME NEW b \in Nat, b \in T  PROVE b + 1 \in T
  <2>1. PICK x \in Nat, y \in Nat : x = Pow2[a] /\ y = Pow2[b]
    BY Pow2Is
  <2>2. a + b \in Nat /\ a + (b + 1) = (a + b) + 1
    OBVIOUS
  <2>3. Pow2[a + b] = x * y
    BY <1>2, <2>1
  <2>4. Pow2[a + (b + 1)] = 2 * (x * y) /\ Pow2[b + 1] = 2 * y
    BY <2>1, <2>2, <2>3, Pow2Is
  <2>5. 2 * (x * y) = x * (2 * y)
    OBVIOUS
  <2> QED
    BY <2>1, <2>4, <2>5
<1> HIDE DEF T
<1>3. \A b \in Nat : b \in T
  BY <1>1, <1>2, NatSetInduction
<1> QED
  BY <1>3 DEF T

\* A remainder by a multiple first makes no difference.
LEMMA ModMod ==
    ASSUME NEW a \in Int, NEW m \in Nat \ {0}, NEW k \in Nat \ {0}
    PROVE  (a % (k * m)) % m = a % m
<1> DEFINE M == k * m
           d == a \div M
<1>1. M \in Nat /\ M > 0
  <2>1. k * m >= m
    OBVIOUS
  <2> QED
    BY <2>1
<1>2. a % M \in 0 .. M - 1 /\ d \in Int /\ a = d * M + (a % M)
  BY <1>1, DivMod
<1> HIDE DEF d
<1>3. d * M = (d * k) * m /\ d * k \in Int
  BY <1>2
<1> HIDE DEF M
<1> DEFINE r == a % M
           e == d * k
<1>4. r \in Int /\ e \in Int /\ a = r + e * m
  BY <1>1, <1>2, <1>3
<1> HIDE DEF r, e
<1>5. m \in Nat /\ m > 0
  OBVIOUS
<1>6. (r + e * m) % m = r % m
  BY <1>4, <1>5, ModTurns
<1> QED
  BY <1>4, <1>6 DEF r, M

\* A bit shifted in at the low end.
LEMMA ShiftIn ==
    ASSUME NEW a \in Nat, NEW m \in Nat \ {0}, NEW k \in Nat \ {0}, NEW d \in 0 .. 1
    PROVE  ((a * 2 + d) % (k * (2 * m))) % (2 * m) = (a % m) * 2 + d
<1> DEFINE q == a \div m
           v == a % m
           b == a * 2 + d
<1>1. v \in 0 .. m - 1 /\ q \in Int /\ a = q * m + v
  BY DivMod
<1> HIDE DEF q, v
<1>2. 2 * m \in Nat \ {0} /\ b \in Int /\ v * 2 + d \in 0 .. (2 * m) - 1
  BY <1>1
<1>3. b = q * (2 * m) + (v * 2 + d)
  <2>1. q * (2 * m) = 2 * (q * m)
    BY <1>1
  <2> DEFINE y == q * m
  <2>2. y \in Int /\ a = y + v /\ q * (2 * m) = 2 * y
    BY <1>1, <2>1
  <2> HIDE DEF y
  <2> QED
    BY <1>1, <2>2
<1> HIDE DEF b
<1> DEFINE n == 2 * m
           w == v * 2 + d
<1>4. n \in Nat \ {0} /\ n > 0 /\ n \in Nat /\ w \in 0 .. n - 1 /\ b = q * n + w
  BY <1>2, <1>3
<1> HIDE DEF n, w
<1>5. b % n = w
  BY <1>1, <1>2, <1>4, ModIs
<1>6. (b % (k * n)) % n = b % n
  BY <1>2, <1>4, ModMod
<1> QED
  BY <1>5, <1>6 DEF n, w, b, v

\* A shifted remainder.
LEMMA ModDouble ==
    ASSUME NEW a \in Nat, NEW m \in Nat \ {0}
    PROVE  ((a % m) * 2) % m = (2 * a) % m
<1> DEFINE d == a \div m
           r == a % m
<1>1. r \in 0 .. m - 1 /\ d \in Int /\ a = d * m + r
  BY DivMod
<1> HIDE DEF d, r
<1> DEFINE e == 2 * d
<1>2. 2 * a = r * 2 + e * m /\ e \in Int
  <2>1. (2 * d) * m = 2 * (d * m)
    BY <1>1
  <2> DEFINE y == d * m
  <2>2. y \in Int /\ a = y + r /\ (2 * d) * m = 2 * y
    BY <1>1, <2>1
  <2> HIDE DEF y
  <2>3. 2 * a = r * 2 + 2 * y
    BY <1>1, <2>2
  <2> QED
    BY <1>1, <2>2, <2>3
<1> HIDE DEF e
<1>3. (r * 2 + e * m) % m = (r * 2) % m
  BY SMTT(60), <1>1, <1>2, ModTurns
<1> QED
  BY <1>2, <1>3 DEF r

\* The bit that leaves a shift register at the top: n cells below it, of a
\* word that was shifted up by k.
LEMMA TopBit ==
    ASSUME NEW a \in Nat, NEW n \in Nat \ {0}, NEW k \in Nat \ {0}
    PROVE  ((a * k) % (2 * (n * k))) \div (n * k) = (a \div n) % 2
<1> DEFINE q == a \div n
           c == a % n
           u == q \div 2
           b == q % 2
           X == n * k
           ck == c * k
           bX == b * X
<1>1. c \in 0 .. n - 1 /\ q \in Int /\ a = q * n + c
  BY DivMod
<1> HIDE DEF q, c
<1>2. b \in 0 .. 1 /\ u \in Int /\ q = u * 2 + b
  BY <1>1, DivMod
<1> HIDE DEF b, u
<1>3. X \in Nat /\ X > 0
  <2>1. n * k >= n
    OBVIOUS
  <2> QED
    BY <2>1
<1>4. ck \in 0 .. X - 1
  <2>1. c * k >= 0 /\ c * k \in Int
    BY <1>1
  <2>2. c * k <= (n - 1) * k
    BY <1>1
  <2>3. (n - 1) * k = n * k - k
    OBVIOUS
  <2> QED
    BY <2>1, <2>2, <2>3
<1>5. a * k = u * (2 * X) + (bX + ck)
  <2>1. a * k = (q * n + c) * k
    BY <1>1
  <2>2. (q * n + c) * k = (q * n) * k + c * k
    BY <1>1
  <2>3. (q * n) * k = q * (n * k)
    BY <1>1
  <2>4. q * (n * k) = (u * 2 + b) * (n * k)
    BY <1>2
  <2>5. (u * 2 + b) * (n * k) = u * (2 * (n * k)) + b * (n * k)
    <3>1. PICK x \in Nat : x = n * k
      BY <1>3
    <3>2. (u * 2 + b) * x = u * (2 * x) + b * x
      BY <1>2
    <3> QED
      BY <3>1, <3>2
  <2> DEFINE y == u * (2 * (n * k))
  <2>6. y \in Int /\ bX \in Int /\ ck \in Int
    <3>1. PICK x \in Nat : x = n * k
      BY <1>3
    <3>2. u * (2 * x) \in Int /\ b * x \in Int
      BY <1>2
    <3> QED
      BY <1>4, <3>1, <3>2
  <2>7. a * k = (y + bX) + ck
    BY <2>1, <2>2, <2>3, <2>4, <2>5
  <2>8. y = u * (2 * X)
    OBVIOUS
  <2> HIDE DEF y, bX, ck
  <2>9. a * k = y + (bX + ck)
    BY <2>6, <2>7
  <2> QED
    BY <2>8, <2>9
<1>6. a * k \in Int
  OBVIOUS
<1>7. bX \in {0, X} /\ bX = b * X
  <2>1. CASE b = 0
    BY <1>3, <2>1
  <2>2. CASE b = 1
    BY <1>3, <2>2
  <2> QED
    BY <1>2, <2>1, <2>2
<1> DEFINE ak == a * k
<1>8. ak \in Int /\ ak = u * (2 * X) + (bX + ck)
  BY <1>5, <1>6
<1> HIDE DEF X, ck, bX, ak
<1> DEFINE D == 2 * X
           r == bX + ck
<1>9. D \in Nat /\ D > 0 /\ r \in 0 .. D - 1 /\ ak = u * D + r
  BY <1>3, <1>4, <1>7, <1>8
<1> HIDE DEF D
<1>10. r \in Int /\ r = b * X + ck
  BY <1>4, <1>7, <1>3
<1> HIDE DEF r
<1>11. ak % D = r
  BY <1>2, <1>8, <1>9, ModIs
<1>12. r \div X = b
  BY <1>2, <1>3, <1>4, <1>10, DivIs
<1>13. (ak % D) \div X = b
  BY <1>11, <1>12
<1> QED
  BY <1>13 DEF ak, D, X, b, q

\* Numbers closer to each other than m have different remainders.
LEMMA ModApart ==
    ASSUME NEW a \in Int, NEW b \in Int, NEW m \in Nat \ {0}, a < b, b < a + m
    PROVE  a % m # b % m
<1> DEFINE d == a \div m
           e == b \div m
           r == a % m
<1>1. r \in 0 .. m - 1 /\ d \in Int /\ a = d * m + r
  BY DivMod
<1>2. b % m \in 0 .. m - 1 /\ e \in Int /\ b = e * m + (b % m)
  BY DivMod
<1> HIDE DEF d, e, r
<1> SUFFICES ASSUME r = b % m  PROVE FALSE
  BY DEF r
<1>3. b = e * m + r
  BY <1>2
<1> DEFINE x == e - d
<1>4. x \in Int /\ x * m = e * m - d * m
  BY <1>1, <1>2
<1>5. x * m = b - a
  <2> DEFINE y == e * m
             z == d * m
  <2>1. y \in Int /\ z \in Int /\ b = y + r /\ a = z + r /\ x * m = y - z
    BY <1>1, <1>2, <1>3, <1>4
  <2> HIDE DEF x, y, z
  <2> QED
    BY <1>1, <2>1
<1> HIDE DEF x
<1>6. CASE x <= 0
  <2>1. x * m <= 0
    BY <1>4, <1>6
  <2> QED
    BY <1>5, <2>1
<1>7. CASE x >= 1
  <2>1. x * m >= m
    BY <1>4, <1>7
  <2> QED
    BY <1>5, <2>1
<1> QED
  BY <1>4, <1>6, <1>7

-----------------------------------------------------------------------------
(* The rings of the W5100 *)

\* The pointers go round at a multiple of the ring's size and of a byte.
LEMMA W5100Sizes ==
    /\ Wide \in Nat /\ Wide > 0 /\ Ring \in Nat /\ Ring > 0 /\ Ring < Wide /\ Low \in Nat /\ Low > 0
    /\ \E k \in Nat : Wide = k * Ring
    /\ \E k \in Nat : Wide = k * Low
<1>1. /\ Ring \in Nat /\ Ring > 0 /\ Ring < Wide /\ Low \in Nat /\ Low > 0
      /\ Wide \in {Low * k : k \in 1 .. Wide} /\ Wide \in {Ring * k : k \in 1 .. Wide}
  BY W5100Assumption
<1>2. PICK i : i \in 1 .. Wide /\ Wide = Low * i
  BY <1>1
<1>3. PICK j : j \in 1 .. Wide /\ Wide = Ring * j
  BY <1>1
<1>4. i \in Int /\ j \in Int
  BY <1>2, <1>3
<1>5. Wide \in Int
  BY <1>1, <1>2, <1>4
<1>6. i \in Nat /\ j \in Nat /\ Wide \in Nat /\ Wide > 0
  BY <1>1, <1>2, <1>3, <1>5
<1>7. Wide = i * Low /\ Wide = j * Ring
  BY <1>1, <1>2, <1>3, <1>6
<1> QED
  BY <1>1, <1>6, <1>7

\* The place of a pointer in its ring is that of the number it stands for.
LEMMA PlaceOf ==
    ASSUME NEW a \in Int
    PROVE  (a % Wide) % Ring = a % Ring
<1> DEFINE d == a \div Wide
<1>1. a % Wide \in 0 .. Wide - 1 /\ d \in Int /\ a = d * Wide + (a % Wide)
  BY DivMod, W5100Sizes
<1> HIDE DEF d
<1>2. PICK k \in Nat : Wide = k * Ring
  BY W5100Sizes
<1>3. d * Wide = (d * k) * Ring /\ d * k \in Int /\ a % Wide \in Int
  BY <1>1, <1>2, W5100Sizes
<1>4. a = (a % Wide) + (d * k) * Ring
  BY <1>1, <1>3, W5100Sizes
<1>5. ((a % Wide) + (d * k) * Ring) % Ring = (a % Wide) % Ring
  BY <1>3, ModTurns, W5100Sizes
<1> QED
  BY <1>4, <1>5

\* Bytes stored in a ring: each is in its place, and the others stay.
LEMMA StoredIs ==
    ASSUME NEW ring \in [Place -> Pointer], NEW start \in Nat, NEW n \in 0 .. Ring
    PROVE  /\ Stored(ring, start, n) \in [Place -> Pointer]
           /\ \A i \in 0 .. n - 1 :
                  Stored(ring, start, n)[(start + i) % Ring] = (start + i) % Wide
           /\ \A i \in n .. Ring - 1 :
                  Stored(ring, start, n)[(start + i) % Ring] = ring[(start + i) % Ring]
<1> DEFINE at(p) == (p - start) % Ring
<1>1. \A p \in Place : at(p) \in Int /\ (start + at(p)) % Wide \in Pointer
  BY DivMod, W5100Sizes DEF Place, Pointer
<1>2. \A i \in 0 .. Ring - 1 : (start + i) % Ring \in Place /\ at((start + i) % Ring) = i
  <2> TAKE i \in 0 .. Ring - 1
  <2> DEFINE d == (start + i) \div Ring
             r == (start + i) % Ring
  <2>1. r \in 0 .. Ring - 1 /\ d \in Int /\ start + i = d * Ring + r
    BY DivMod, W5100Sizes
  <2> HIDE DEF d, r
  <2>2. (-d) * Ring = -(d * Ring) /\ -d \in Int /\ d * Ring \in Int
    BY <2>1, W5100Sizes
  <2>3. r - start = (-d) * Ring + i /\ r - start \in Int
    BY <2>1, <2>2, W5100Sizes
  <2>4. (r - start) % Ring = i
    BY <2>2, <2>3, ModIs, W5100Sizes
  <2> QED
    BY <2>1, <2>4 DEF Place, r
<1>3. Stored(ring, start, n) = [p \in Place |-> IF at(p) < n THEN (start + at(p)) % Wide ELSE ring[p]]
  BY DEF Stored
<1> HIDE DEF at
<1>4. Stored(ring, start, n) \in [Place -> Pointer]
  BY <1>1, <1>3
<1>5. ASSUME NEW i \in 0 .. n - 1
      PROVE  Stored(ring, start, n)[(start + i) % Ring] = (start + i) % Wide
  <2>1. i \in 0 .. Ring - 1 /\ i < n
    BY W5100Sizes
  <2> QED
    BY <1>2, <1>3, <2>1
<1>6. ASSUME NEW i \in n .. Ring - 1
      PROVE  Stored(ring, start, n)[(start + i) % Ring] = ring[(start + i) % Ring]
  <2>1. i \in 0 .. Ring - 1 /\ ~(i < n)
    BY W5100Sizes
  <2> QED
    BY <1>2, <1>3, <2>1
<1> QED
  BY <1>4, <1>5, <1>6

LEMMA RingLike ==
    ASSUME NEW a \in Int, NEW b \in Int, NEW c \in Int, a % Ring = b % Ring, a % Wide = b % Wide
    PROVE  (a + c) % Ring = (b + c) % Ring /\ (a + c) % Wide = (b + c) % Wide
<1>1. Ring \in Nat /\ Ring > 0 /\ Wide \in Nat /\ Wide > 0
  BY W5100Sizes
<1>2. (a + c) % Ring = (b + c) % Ring
  BY <1>1, ModLike
<1>3. (a + c) % Wide = (b + c) % Wide
  BY <1>1, ModLike
<1> QED
  BY <1>2, <1>3

\* Bytes go behind those that are in the ring, if there is room for both.
LEMMA StoredBehind ==
    ASSUME NEW ring \in [Place -> Pointer], NEW first \in Pointer, NEW m \in Nat, NEW n \in Nat,
           m + n <= Ring,
           NEW start \in Nat, start % Ring = (first + m) % Ring, start % Wide = (first + m) % Wide,
           \A i \in 0 .. m - 1 : ring[(first + i) % Ring] = (first + i) % Wide
    PROVE  \A i \in 0 .. m + n - 1 :
               Stored(ring, start, n)[(first + i) % Ring] = (first + i) % Wide
<1> SUFFICES ASSUME NEW i \in 0 .. m + n - 1
             PROVE  Stored(ring, start, n)[(first + i) % Ring] = (first + i) % Wide
  OBVIOUS
<1> DEFINE e == first + m
<1>0. n \in 0 .. Ring /\ e \in Int /\ e = first + m /\ start % Ring = e % Ring
      /\ start % Wide = e % Wide /\ Ring \in Nat /\ first \in Int
  BY W5100Sizes DEF Pointer
<1> HIDE DEF e
<1>1. CASE i < m
  <2> DEFINE j == i - m + Ring
  <2>0. j \in Int /\ start \in Int
    BY <1>0
  <2>1. j \in n .. Ring - 1 /\ e + j = (first + i) + Ring
    BY <1>0, <1>1
  <2> HIDE DEF j
  <2>2. Stored(ring, start, n)[(start + j) % Ring] = ring[(start + j) % Ring]
    BY <1>0, <2>1, StoredIs
  <2>3. (start + j) % Ring = (e + j) % Ring
    BY <1>0, <2>0, RingLike
  <2>4. ((first + i) + Ring) % Ring = (first + i) % Ring
    BY SMTT(60), <1>0, ModTurn, W5100Sizes
  <2>5. ring[(first + i) % Ring] = (first + i) % Wide
    BY <1>1
  <2> QED
    BY <2>1, <2>2, <2>3, <2>4, <2>5
<1>2. CASE i >= m
  <2> DEFINE j == i - m
  <2>0. j \in Int /\ start \in Int
    BY <1>0
  <2>1. j \in 0 .. n - 1 /\ e + j = first + i
    BY <1>0, <1>2
  <2> HIDE DEF j
  <2>2. Stored(ring, start, n)[(start + j) % Ring] = (start + j) % Wide
    BY <1>0, <2>1, StoredIs
  <2>3. (start + j) % Ring = (e + j) % Ring
    BY <1>0, <2>0, RingLike
  <2>4. (start + j) % Wide = (e + j) % Wide
    BY <1>0, <2>0, RingLike
  <2> QED
    BY <2>1, <2>2, <2>3, <2>4
<1> QED
  BY <1>1, <1>2

LEMMA PointerIsNat == \A p \in Pointer : p \in Nat /\ p < Wide
<1>1. Wide \in Nat
  BY W5100Sizes
<1> QED
  BY <1>1 DEF Pointer

\* A stretch of a ring that holds the next n bytes of a stream.
Ordered(ring, first, n) == \A i \in 0 .. n - 1 : ring[(first + i) % Ring] = (first + i) % Wide

LEMMA OrderedStored ==
    ASSUME NEW ring \in [Place -> Pointer], NEW first \in Pointer, NEW m \in Nat, NEW n \in Nat,
           m + n <= Ring, NEW start \in Nat, start % Ring = (first + m) % Ring,
           start % Wide = (first + m) % Wide, Ordered(ring, first, m)
    PROVE  Ordered(Stored(ring, start, n), first, m + n)
<1>1. \A i \in 0 .. m - 1 : ring[(first + i) % Ring] = (first + i) % Wide
  BY DEF Ordered
<1>2. \A i \in 0 .. m + n - 1 : Stored(ring, start, n)[(first + i) % Ring] = (first + i) % Wide
  BY <1>1, StoredBehind
<1> QED
  BY <1>2 DEF Ordered

\* How far pointer b is ahead of pointer a.
Ahead(b, a) == (b - a) % Wide

LEMMA AheadType ==
    ASSUME NEW a \in Pointer, NEW b \in Pointer
    PROVE  Ahead(b, a) \in 0 .. Wide - 1 /\ Ahead(b, a) \in Pointer /\ Ahead(b, a) \in Nat
<1>1. Ahead(b, a) \in 0 .. Wide - 1
  BY DivMod, W5100Sizes DEF Ahead, Pointer
<1>2. Ahead(b, a) \in Pointer
  BY <1>1 DEF Pointer
<1> QED
  BY <1>1, <1>2, PointerIsNat

\* A pointer that is moved forward is as much further ahead,
LEMMA AheadMore ==
    ASSUME NEW a \in Pointer, NEW b \in Pointer, NEW n \in Nat, Ahead(b, a) + n < Wide
    PROVE  (b + n) % Wide \in Pointer /\ Ahead((b + n) % Wide, a) = Ahead(b, a) + n
<1>0. Wide \in Nat /\ Wide > 0 /\ Ahead(b, a) \in 0 .. Wide - 1
  BY W5100Sizes, AheadType
<1>1. a \in Int /\ b \in Int /\ b + n \in Int /\ b - a \in Int /\ -a \in Int /\ Wide \in Nat /\ Wide > 0
      /\ Ahead(b, a) + n \in 0 .. Wide - 1
  BY <1>0 DEF Pointer
<1>2. (b + n) % Wide \in 0 .. Wide - 1
  BY <1>1, DivMod
<1>3. (((b + n) % Wide) + (-a)) % Wide = ((b + n) + (-a)) % Wide
  BY <1>1, ModSum
<1>4. (((b - a) % Wide) + n) % Wide = ((b - a) + n) % Wide
  BY <1>1, ModSum
<1>5. (Ahead(b, a) + n) % Wide = Ahead(b, a) + n
  BY <1>1, ModSmall
<1>6. (b + n) + (-a) = (b - a) + n
  BY <1>1
<1>7. ((b + n) % Wide) - a = ((b + n) % Wide) + (-a)
  BY <1>1, <1>2
<1> QED
  BY <1>2, <1>3, <1>4, <1>5, <1>6, <1>7 DEF Ahead, Pointer

\* and one that it is ahead of may follow.
LEMMA AheadLess ==
    ASSUME NEW a \in Pointer, NEW b \in Pointer, NEW n \in Nat, n <= Ahead(b, a)
    PROVE  (a + n) % Wide \in Pointer /\ Ahead(b, (a + n) % Wide) = Ahead(b, a) - n
<1>0. Wide \in Nat /\ Wide > 0 /\ Ahead(b, a) \in 0 .. Wide - 1
  BY W5100Sizes, AheadType
<1>1. a \in Int /\ b \in Int /\ a + n \in Int /\ b - a \in Int /\ -n \in Int /\ Wide \in Nat /\ Wide > 0
      /\ Ahead(b, a) - n \in 0 .. Wide - 1
  BY <1>0 DEF Pointer
<1>2. (a + n) % Wide \in 0 .. Wide - 1
  BY <1>1, DivMod
<1>3. (b - ((a + n) % Wide)) % Wide = (b - (a + n)) % Wide
  BY <1>1, ModSum
<1>4. (((b - a) % Wide) + (-n)) % Wide = ((b - a) + (-n)) % Wide
  BY <1>1, ModSum
<1>5. (Ahead(b, a) - n) % Wide = Ahead(b, a) - n
  BY <1>1, ModSmall
<1>6. b - (a + n) = (b - a) + (-n)
  BY <1>1
<1>7. Ahead(b, a) - n = Ahead(b, a) + (-n)
  BY <1>1, AheadType
<1> QED
  BY <1>2, <1>3, <1>4, <1>5, <1>6, <1>7 DEF Ahead, Pointer

\* The pointer that far ahead is that one.
LEMMA AheadTo ==
    ASSUME NEW a \in Pointer, NEW b \in Pointer
    PROVE  (a + Ahead(b, a)) % Wide = b
<1>1. Wide \in Nat /\ Wide > 0 /\ a \in Int /\ b - a \in Int /\ b \in 0 .. Wide - 1 /\ b \in Int
  BY W5100Sizes DEF Pointer
<1>2. (((b - a) % Wide) + a) % Wide = ((b - a) + a) % Wide
  BY <1>1, ModSum
<1>3. (b - a) + a = b /\ b % Wide = b
  BY <1>1, ModSmall
<1>4. ((b - a) % Wide) + a = a + ((b - a) % Wide)
  BY <1>1, DivMod
<1> QED
  BY <1>2, <1>3, <1>4 DEF Ahead

\* A pointer between two others cuts the distance in two.
LEMMA AheadBetween ==
    ASSUME NEW a \in Pointer, NEW b \in Pointer, NEW c \in Pointer, Ahead(b, a) <= Ahead(c, a)
    PROVE  Ahead(c, b) = Ahead(c, a) - Ahead(b, a)
<1>1. Ahead(b, a) \in Nat
  BY AheadType
<1>2. (a + Ahead(b, a)) % Wide = b
  BY AheadTo
<1> QED
  BY <1>1, <1>2, AheadLess

\* What is behind the first d bytes of a stretch is a stretch.
LEMMA OrderedRest ==
    ASSUME NEW ring, NEW first \in Pointer, NEW n \in Nat, NEW d \in 0 .. n, Ordered(ring, first, n)
    PROVE  Ordered(ring, (first + d) % Wide, n - d)
<1> DEFINE f == (first + d) % Wide
<1> SUFFICES ASSUME NEW i \in 0 .. (n - d) - 1
             PROVE  ring[(f + i) % Ring] = (f + i) % Wide
  BY DEF Ordered
<1>1. Wide \in Nat /\ Wide > 0 /\ Ring \in Nat /\ Ring > 0 /\ first \in Int /\ first + d \in Int /\ i \in Int
      /\ d + i \in 0 .. n - 1 /\ first + (d + i) = (first + d) + i
  BY W5100Sizes DEF Pointer
<1>2. f \in Int
  BY <1>1, DivMod
<1>3. f % Ring = (first + d) % Ring
  BY <1>1, PlaceOf
<1>4. f % Wide = (first + d) % Wide
  BY <1>1, DivMod, ModSmall
<1> HIDE DEF f
<1>5. (f + i) % Ring = ((first + d) + i) % Ring /\ (f + i) % Wide = ((first + d) + i) % Wide
  BY <1>1, <1>2, <1>3, <1>4, RingLike
<1>6. ring[(first + (d + i)) % Ring] = (first + (d + i)) % Wide
  BY <1>1 DEF Ordered
<1> QED
  BY <1>1, <1>5, <1>6

\* A shorter stretch is one as well.
LEMMA OrderedLess ==
    ASSUME NEW ring, NEW first, NEW n \in Nat, NEW m \in Nat, m <= n, Ordered(ring, first, n)
    PROVE  Ordered(ring, first, m)
  BY DEF Ordered

\* A pointer written a byte at a time.
LEMMA HalvesType ==
    ASSUME NEW p \in Pointer, NEW to \in Pointer
    PROVE  /\ HighByte(p, to) \in Pointer /\ HighByte(p, to) \div Low = to \div Low
           /\ LowByte(p, to) \in Pointer
           /\ p \div Low = to \div Low => LowByte(p, to) = to
<1>1. Low \in Nat /\ Low > 0 /\ p \in Int /\ to \in Int /\ p >= 0 /\ to >= 0 /\ p < Wide /\ to < Wide
      /\ Wide \in Nat
  BY W5100Sizes DEF Pointer
<1>2. PICK k \in Nat : Wide = k * Low
  BY W5100Sizes
<1> DEFINE a == p \div Low
           b == p % Low
           c == to \div Low
           d == to % Low
<1>3. b \in 0 .. Low - 1 /\ a \in Int /\ p = a * Low + b
  BY <1>1, DivMod
<1>4. d \in 0 .. Low - 1 /\ c \in Int /\ to = c * Low + d
  BY <1>1, DivMod
<1> HIDE DEF a, b, c, d
<1>5. 0 <= a /\ a <= k - 1
  BY <1>1, <1>2, <1>3
<1>6. 0 <= c /\ c <= k - 1
  BY <1>1, <1>2, <1>4
<1>7. ASSUME NEW x \in 0 .. k - 1, NEW y \in 0 .. Low - 1  PROVE x * Low + y \in 0 .. Wide - 1
  <2>1. x * Low <= (k - 1) * Low /\ (k - 1) * Low = k * Low - Low /\ x * Low >= 0
    BY <1>1, <1>7
  <2> QED
    BY <1>1, <1>2, <1>7, <2>1
<1>8. HighByte(p, to) = c * Low + b /\ LowByte(p, to) = a * Low + d
  BY DEF HighByte, LowByte, a, b, c, d
<1>9. c * Low + b \in Pointer /\ a * Low + d \in Pointer
  BY <1>3, <1>4, <1>5, <1>6, <1>7 DEF Pointer
<1>10. (c * Low + b) \div Low = c
  BY <1>1, <1>3, <1>4
<1> QED
  BY <1>4, <1>8, <1>9, <1>10 DEF a, c

-----------------------------------------------------------------------------
(* The lengths of the datagrams *)

TotalBody(L, n, f) == [i \in 0 .. n |-> IF i = 0 THEN 0 ELSE f[i - 1] + L[i - 1]]

\* The sums of TotalLength exist.
LEMMA TotalExists ==
    ASSUME NEW L
    PROVE  \A n \in Nat : \E f : f = TotalBody(L, n, f)
<1> DEFINE S == {n \in Nat : \E f : f = TotalBody(L, n, f)}
<1>1. 0 \in S
  <2> DEFINE f == [i \in 0 .. 0 |-> 0]
  <2>1. f = TotalBody(L, 0, f)
    BY DEF TotalBody
  <2> HIDE DEF f
  <2> QED
    BY <2>1
<1>2. ASSUME NEW n \in Nat, n \in S  PROVE n + 1 \in S
  <2>1. PICK f : f = TotalBody(L, n, f)
    BY <1>2
  <2> DEFINE g == [i \in 0 .. n + 1 |-> IF i = n + 1 THEN f[n] + L[n] ELSE f[i]]
  <2>2. \A i \in 0 .. n : f[i] = IF i = 0 THEN 0 ELSE f[i - 1] + L[i - 1]
    BY <2>1 DEF TotalBody
  <2>3. \A i \in 0 .. n + 1 : g[i] = IF i = 0 THEN 0 ELSE g[i - 1] + L[i - 1]
    <3> TAKE i \in 0 .. n + 1
    <3>1. CASE i = n + 1
      BY <3>1
    <3>2. CASE i # n + 1 /\ i # 0
      <4>1. i \in 0 .. n /\ i - 1 \in 0 .. n + 1 /\ i - 1 # n + 1
        BY <3>2
      <4>2. g[i] = f[i] /\ g[i - 1] = f[i - 1]
        BY <3>2, <4>1
      <4> QED
        BY <2>2, <3>2, <4>1, <4>2
    <3>3. CASE i = 0
      BY <2>2, <3>3
    <3> QED
      BY <3>1, <3>2, <3>3
  <2>4. g = [i \in 0 .. n + 1 |-> g[i]]
    OBVIOUS
  <2> HIDE DEF g
  <2>5. g = TotalBody(L, n + 1, g)
    BY <2>3, <2>4 DEF TotalBody
  <2> QED
    BY <2>5
<1> HIDE DEF S
<1>3. \A n \in Nat : n \in S
  BY <1>1, <1>2, NatSetInduction
<1> QED
  BY <1>3 DEF S

\* Each is the one before it and one length more.
LEMMA TotalStep ==
    ASSUME NEW s
    PROVE  /\ TotalLength(s, 0) = 0
           /\ \A i \in 0 .. MaxDatagrams - 1 :
                  TotalLength(s, i + 1) = TotalLength(s, i) + s.datagram_lengths[i]
<1> DEFINE L == s.datagram_lengths
           g == CHOOSE f : f = TotalBody(L, MaxDatagrams, f)
<1>1. MaxDatagrams \in Nat
  BY W5100Assumption
<1>2. ASSUME NEW n  PROVE TotalLength(s, n) = g[n]
  BY DEF TotalLength, TotalBody
<1>3. g = TotalBody(L, MaxDatagrams, g)
  BY <1>1, TotalExists
<1> HIDE DEF g
<1>4. \A i \in 0 .. MaxDatagrams : g[i] = IF i = 0 THEN 0 ELSE g[i - 1] + L[i - 1]
  BY <1>3 DEF TotalBody
<1>5. g[0] = 0
  BY <1>1, <1>4
<1>6. ASSUME NEW i \in 0 .. MaxDatagrams - 1  PROVE g[i + 1] = g[i] + L[i]
  <2>1. i + 1 \in 0 .. MaxDatagrams /\ i + 1 # 0 /\ (i + 1) - 1 = i
    BY <1>1
  <2> QED
    BY <1>4, <2>1
<1> QED
  BY <1>2, <1>5, <1>6

\* The sums are numbers, and none is less than the first length.
LEMMA TotalType ==
    ASSUME NEW s, s.datagram_lengths \in [0 .. MaxDatagrams - 1 -> Pointer]
    PROVE  \A n \in 0 .. MaxDatagrams :
               TotalLength(s, n) \in Nat /\ (n > 0 => s.datagram_lengths[0] <= TotalLength(s, n))
<1> DEFINE L == s.datagram_lengths
           T(n) == TotalLength(s, n)
           S == {n \in Nat : n <= MaxDatagrams => T(n) \in Nat /\ (n > 0 => L[0] <= T(n))}
<1>1. /\ T(0) = 0
      /\ \A i \in 0 .. MaxDatagrams - 1 : T(i + 1) = T(i) + L[i]
  BY TotalStep
<1>2. MaxDatagrams \in Nat
  BY W5100Assumption
<1>3. \A i \in 0 .. MaxDatagrams - 1 : L[i] \in Nat
  BY PointerIsNat
<1> HIDE DEF T, L
<1>4. 0 \in S
  BY <1>1
<1>5. ASSUME NEW n \in Nat, n \in S  PROVE n + 1 \in S
  <2> SUFFICES ASSUME n + 1 <= MaxDatagrams  PROVE T(n + 1) \in Nat /\ L[0] <= T(n + 1)
    OBVIOUS
  <2>1. n \in 0 .. MaxDatagrams - 1 /\ T(n) \in Nat /\ (n > 0 => L[0] <= T(n))
    BY <1>2, <1>5
  <2>2. T(n + 1) = T(n) + L[n] /\ L[n] \in Nat /\ 0 \in 0 .. MaxDatagrams - 1
    BY <1>1, <1>2, <1>3, <2>1
  <2>3. L[0] \in Nat
    BY <1>3, <2>2
  <2>4. CASE n > 0
    BY <2>1, <2>2, <2>3, <2>4
  <2>5. CASE n = 0
    BY <1>1, <2>1, <2>2, <2>3, <2>5
  <2> QED
    BY <2>4, <2>5
<1> HIDE DEF S
<1>6. \A n \in Nat : n \in S
  BY <1>4, <1>5, NatSetInduction
<1>7. \A n \in 0 .. MaxDatagrams : T(n) \in Nat /\ (n > 0 => L[0] <= T(n))
  BY <1>2, <1>6 DEF S
<1> QED
  BY <1>7 DEF T, L

\* When the first length is taken out, every sum is less by it.
LEMMA TotalShift ==
    ASSUME NEW s, NEW t, s.datagram_lengths \in [0 .. MaxDatagrams - 1 -> Pointer],
           NEW c \in 1 .. MaxDatagrams,
           \A i \in 0 .. c - 2 : t.datagram_lengths[i] = s.datagram_lengths[i + 1]
    PROVE  TotalLength(t, c - 1) = TotalLength(s, c) - s.datagram_lengths[0]
<1> DEFINE L == s.datagram_lengths
           M == t.datagram_lengths
           T(n) == TotalLength(s, n)
           U(n) == TotalLength(t, n)
           S == {n \in Nat : n <= c - 1 => U(n) = T(n + 1) - L[0]}
<1>1. /\ T(0) = 0
      /\ \A i \in 0 .. MaxDatagrams - 1 : T(i + 1) = T(i) + L[i]
  BY TotalStep
<1>2. /\ U(0) = 0
      /\ \A i \in 0 .. MaxDatagrams - 1 : U(i + 1) = U(i) + M[i]
  BY TotalStep
<1>3. MaxDatagrams \in Nat /\ c - 1 \in 0 .. MaxDatagrams - 1 /\ 0 \in 0 .. MaxDatagrams - 1
  BY W5100Assumption
<1>4. \A i \in 0 .. MaxDatagrams - 1 : L[i] \in Nat
  BY PointerIsNat
<1>5. \A i \in 0 .. MaxDatagrams : T(i) \in Nat
  BY TotalType
<1>6. \A i \in 0 .. c - 2 : M[i] = L[i + 1]
  OBVIOUS
<1> HIDE DEF T, U, L, M
<1>7. 0 \in S
  <2>1. T(0 + 1) = T(0) + L[0] /\ L[0] \in Nat
    BY <1>1, <1>3, <1>4
  <2> QED
    BY <1>1, <1>2, <2>1
<1>8. ASSUME NEW n \in Nat, n \in S  PROVE n + 1 \in S
  <2> SUFFICES ASSUME n + 1 <= c - 1  PROVE U(n + 1) = T((n + 1) + 1) - L[0]
    OBVIOUS
  <2>1. n \in 0 .. c - 2 /\ n \in 0 .. MaxDatagrams - 1 /\ n + 1 \in 0 .. MaxDatagrams - 1
        /\ n + 1 \in 0 .. MaxDatagrams
    BY <1>3
  <2>2. U(n) = T(n + 1) - L[0]
    BY <1>8, <2>1
  <2>3. U(n + 1) = U(n) + M[n] /\ M[n] = L[n + 1]
    BY <1>2, <1>6, <2>1
  <2>4. T((n + 1) + 1) = T(n + 1) + L[n + 1]
    BY <1>1, <2>1
  <2>5. L[0] \in Nat /\ L[n + 1] \in Nat /\ T(n + 1) \in Nat
    BY <1>3, <1>4, <1>5, <2>1
  <2> QED
    BY <2>2, <2>3, <2>4, <2>5
<1> HIDE DEF S
<1>9. \A n \in Nat : n \in S
  BY <1>7, <1>8, NatSetInduction
<1>10. c - 1 \in Nat /\ (c - 1) + 1 = c
  OBVIOUS
<1> QED
  BY <1>9, <1>10 DEF S, T, U, L

\* A sum depends on the lengths before it alone.
LEMMA TotalAlike ==
    ASSUME NEW s, NEW t, NEW c \in 0 .. MaxDatagrams,
           \A i \in 0 .. c - 1 : t.datagram_lengths[i] = s.datagram_lengths[i]
    PROVE  TotalLength(t, c) = TotalLength(s, c)
<1> DEFINE L == s.datagram_lengths
           M == t.datagram_lengths
           T(n) == TotalLength(s, n)
           U(n) == TotalLength(t, n)
           S == {n \in Nat : n <= c => U(n) = T(n)}
<1>1. T(0) = 0 /\ \A i \in 0 .. MaxDatagrams - 1 : T(i + 1) = T(i) + L[i]
  BY TotalStep
<1>2. U(0) = 0 /\ \A i \in 0 .. MaxDatagrams - 1 : U(i + 1) = U(i) + M[i]
  BY TotalStep
<1>3. \A i \in 0 .. c - 1 : M[i] = L[i]
  OBVIOUS
<1>4. MaxDatagrams \in Nat
  BY W5100Assumption
<1> HIDE DEF T, U, L, M
<1>5. 0 \in S
  BY <1>1, <1>2
<1>6. ASSUME NEW n \in Nat, n \in S  PROVE n + 1 \in S
  <2> SUFFICES ASSUME n + 1 <= c  PROVE U(n + 1) = T(n + 1)
    OBVIOUS
  <2>1. n \in 0 .. c - 1 /\ n \in 0 .. MaxDatagrams - 1 /\ U(n) = T(n)
    BY <1>4, <1>6
  <2> QED
    BY <1>1, <1>2, <1>3, <2>1
<1> HIDE DEF S
<1>7. c \in S
  BY <1>5, <1>6, NatSetInduction
<1> QED
  BY <1>7 DEF S, T, U

-----------------------------------------------------------------------------
(* What the registers of a socket mean *)

Opening == {"init", "listen", "connecting"}

\* The TX_WR that software means, of which it may have written a half.
Aim(s, h) == IF h.which = "tx_wr" THEN LowByte(s.tx_wr, h.to) ELSE s.tx_wr

\* The receive ring holds what RX_RSR says, counted from the pointer of the
\* last RECV, and software reads no further.  Between the halves of a new RX_RD
\* the other half is already right, as nothing then resets the socket.
RxGood(s, h) ==
    /\ s.rx_rsr <= Ring
    /\ Ordered(s.rx_buffer, s.old_rx_rd, s.rx_rsr)
    /\ s.state \in Opening => s.rx_rsr = 0
    /\ h.which # "rx_rd" => Ahead(s.rx_rd, s.old_rx_rd) <= s.rx_rsr
    /\ h.which = "rx_rd" =>
           /\ s.rx_rsr > 0 /\ s.rx_rd \div Low = h.to \div Low
           /\ Ahead(h.to, s.old_rx_rd) <= s.rx_rsr

\* The datagrams that wait fill the ring from TX_RR to the TX_WR of the last
\* SEND, and what software has put behind them reaches to TX_WR.
QueuedData(s, h) ==
    /\ TotalLength(s, s.datagram_count) = Ahead(s.last_send, s.tx_rr)
    /\ TotalLength(s, s.datagram_count) <= Ahead(Aim(s, h), s.tx_rr)

\* The transmit ring holds what has not been sent, unless stray datagrams have
\* been sent from it.
TxGood(s, h) ==
    /\ s.state \notin {"udp", "closed"} => s.datagram_count = 0
    /\ s.state \in Opening => s.tx_rr = 0
    /\ h.which = "tx_wr" => (s.write_pending => s.state = "udp")
    /\ s.datagram_count >= 0 =>
           /\ Ordered(s.tx_buffer, s.tx_rr, Ahead(Aim(s, h), s.tx_rr))
           /\ s.state = "udp" => QueuedData(s, h)

\* A pending write belongs to a socket that is open, and to a datagram; a is
\* whether the socket was closed under one.
PendingGood(s, a) ==
    /\ a => s.write_pending
    /\ ~a => /\ s.datagram_count >= 0
             /\ s.write_pending => s.fd
             /\ s.state = "udp" => (s.write_pending <=> s.datagram_count > 0)

SockGood(s, a, h) == s \in SocketRecord /\ RxGood(s, h) /\ TxGood(s, h) /\ PendingGood(s, a)

-----------------------------------------------------------------------------
(* Registers one at a time *)

SameRx(s, t) ==
    /\ t.rx_rsr = s.rx_rsr /\ t.rx_rd = s.rx_rd /\ t.old_rx_rd = s.old_rx_rd
    /\ t.rx_buffer = s.rx_buffer

SameTx(s, t) ==
    /\ t.tx_rr = s.tx_rr /\ t.tx_wr = s.tx_wr /\ t.tx_buffer = s.tx_buffer
    /\ t.last_send = s.last_send /\ t.datagram_lengths = s.datagram_lengths
    /\ t.datagram_count = s.datagram_count

SameControl(s, t) ==
    t.state = s.state /\ t.write_pending = s.write_pending /\ t.fd = s.fd

\* Nothing that the rings depend on has changed.
Minor(s, t) == t \in SocketRecord /\ SameRx(s, t) /\ SameTx(s, t) /\ SameControl(s, t)

LEMMA MinorTwice ==
    ASSUME NEW s, NEW t, NEW u, Minor(s, t), Minor(t, u)
    PROVE  Minor(s, u)
  BY DEF Minor, SameRx, SameTx, SameControl

LEMMA SetMode ==
    ASSUME NEW s \in SocketRecord, NEW v \in SocketMode, NEW t, t = [s EXCEPT !.mode = v]
    PROVE  Minor(s, t)
<1>1. t \in SocketRecord
  BY DEF SocketRecord
<1>2. SameRx(s, t) /\ SameTx(s, t) /\ SameControl(s, t)
  BY DEF SocketRecord, SameRx, SameTx, SameControl
<1> QED
  BY <1>1, <1>2 DEF Minor

LEMMA SetSendOk ==
    ASSUME NEW s \in SocketRecord, NEW v \in BOOLEAN, NEW t, t = [s EXCEPT !.send_ok = v]
    PROVE  Minor(s, t)
<1>1. t \in SocketRecord
  BY DEF SocketRecord
<1>2. SameRx(s, t) /\ SameTx(s, t) /\ SameControl(s, t)
  BY DEF SocketRecord, SameRx, SameTx, SameControl
<1> QED
  BY <1>1, <1>2 DEF Minor

LEMMA SetBindCount ==
    ASSUME NEW s \in SocketRecord, NEW v \in 0 .. 1, NEW t, t = [s EXCEPT !.bind_count = v]
    PROVE  Minor(s, t)
<1>1. t \in SocketRecord
  BY DEF SocketRecord
<1>2. SameRx(s, t) /\ SameTx(s, t) /\ SameControl(s, t)
  BY DEF SocketRecord, SameRx, SameTx, SameControl
<1> QED
  BY <1>1, <1>2 DEF Minor

LEMMA SetSocketBound ==
    ASSUME NEW s \in SocketRecord, NEW v \in BOOLEAN, NEW t, t = [s EXCEPT !.socket_bound = v]
    PROVE  Minor(s, t)
<1>1. t \in SocketRecord
  BY DEF SocketRecord
<1>2. SameRx(s, t) /\ SameTx(s, t) /\ SameControl(s, t)
  BY DEF SocketRecord, SameRx, SameTx, SameControl
<1> QED
  BY <1>1, <1>2 DEF Minor

LEMMA SetOkForIo ==
    ASSUME NEW s \in SocketRecord, NEW v \in BOOLEAN, NEW t, t = [s EXCEPT !.ok_for_io = v]
    PROVE  Minor(s, t)
<1>1. t \in SocketRecord
  BY DEF SocketRecord
<1>2. SameRx(s, t) /\ SameTx(s, t) /\ SameControl(s, t)
  BY DEF SocketRecord, SameRx, SameTx, SameControl
<1> QED
  BY <1>1, <1>2 DEF Minor

LEMMA SetState ==
    ASSUME NEW s \in SocketRecord, NEW v \in SocketState, NEW t, t = [s EXCEPT !.state = v]
    PROVE  /\ t \in SocketRecord /\ SameRx(s, t) /\ SameTx(s, t)
           /\ t.state = v /\ t.write_pending = s.write_pending /\ t.fd = s.fd
<1>1. t \in SocketRecord
  BY DEF SocketRecord
<1>2. SameRx(s, t) /\ SameTx(s, t) /\ t.state = v /\ t.write_pending = s.write_pending /\ t.fd = s.fd
  BY DEF SocketRecord, SameRx, SameTx
<1> QED
  BY <1>1, <1>2

LEMMA SetWritePending ==
    ASSUME NEW s \in SocketRecord, NEW v \in BOOLEAN, NEW t, t = [s EXCEPT !.write_pending = v]
    PROVE  /\ t \in SocketRecord /\ SameRx(s, t) /\ SameTx(s, t)
           /\ t.write_pending = v /\ t.state = s.state /\ t.fd = s.fd
<1>1. t \in SocketRecord
  BY DEF SocketRecord
<1>2. SameRx(s, t) /\ SameTx(s, t) /\ t.write_pending = v /\ t.state = s.state /\ t.fd = s.fd
  BY DEF SocketRecord, SameRx, SameTx
<1> QED
  BY <1>1, <1>2

LEMMA SetFd ==
    ASSUME NEW s \in SocketRecord, NEW v \in BOOLEAN, NEW t, t = [s EXCEPT !.fd = v]
    PROVE  /\ t \in SocketRecord /\ SameRx(s, t) /\ SameTx(s, t)
           /\ t.fd = v /\ t.state = s.state /\ t.write_pending = s.write_pending
<1>1. t \in SocketRecord
  BY DEF SocketRecord
<1>2. SameRx(s, t) /\ SameTx(s, t) /\ t.fd = v /\ t.state = s.state /\ t.write_pending = s.write_pending
  BY DEF SocketRecord, SameRx, SameTx
<1> QED
  BY <1>1, <1>2

LEMMA SetRxRsr ==
    ASSUME NEW s \in SocketRecord, NEW v \in Pointer, NEW t, t = [s EXCEPT !.rx_rsr = v]
    PROVE  /\ t \in SocketRecord /\ SameTx(s, t) /\ SameControl(s, t) /\ t.rx_rsr = v
           /\ t.rx_rd = s.rx_rd /\ t.old_rx_rd = s.old_rx_rd /\ t.rx_buffer = s.rx_buffer
<1>1. t \in SocketRecord
  BY DEF SocketRecord
<1>2. /\ SameTx(s, t) /\ SameControl(s, t) /\ t.rx_rsr = v
      /\ t.rx_rd = s.rx_rd /\ t.old_rx_rd = s.old_rx_rd /\ t.rx_buffer = s.rx_buffer
  BY DEF SocketRecord, SameTx, SameControl
<1> QED
  BY <1>1, <1>2

LEMMA SetRxRd ==
    ASSUME NEW s \in SocketRecord, NEW v \in Pointer, NEW t, t = [s EXCEPT !.rx_rd = v]
    PROVE  /\ t \in SocketRecord /\ SameTx(s, t) /\ SameControl(s, t) /\ t.rx_rd = v
           /\ t.rx_rsr = s.rx_rsr /\ t.old_rx_rd = s.old_rx_rd /\ t.rx_buffer = s.rx_buffer
<1>1. t \in SocketRecord
  BY DEF SocketRecord
<1>2. /\ SameTx(s, t) /\ SameControl(s, t) /\ t.rx_rd = v
      /\ t.rx_rsr = s.rx_rsr /\ t.old_rx_rd = s.old_rx_rd /\ t.rx_buffer = s.rx_buffer
  BY DEF SocketRecord, SameTx, SameControl
<1> QED
  BY <1>1, <1>2

LEMMA SetOldRxRd ==
    ASSUME NEW s \in SocketRecord, NEW v \in Pointer, NEW t, t = [s EXCEPT !.old_rx_rd = v]
    PROVE  /\ t \in SocketRecord /\ SameTx(s, t) /\ SameControl(s, t) /\ t.old_rx_rd = v
           /\ t.rx_rsr = s.rx_rsr /\ t.rx_rd = s.rx_rd /\ t.rx_buffer = s.rx_buffer
<1>1. t \in SocketRecord
  BY DEF SocketRecord
<1>2. /\ SameTx(s, t) /\ SameControl(s, t) /\ t.old_rx_rd = v
      /\ t.rx_rsr = s.rx_rsr /\ t.rx_rd = s.rx_rd /\ t.rx_buffer = s.rx_buffer
  BY DEF SocketRecord, SameTx, SameControl
<1> QED
  BY <1>1, <1>2

LEMMA SetRxBuffer ==
    ASSUME NEW s \in SocketRecord, NEW v \in [Place -> Pointer], NEW t, t = [s EXCEPT !.rx_buffer = v]
    PROVE  /\ t \in SocketRecord /\ SameTx(s, t) /\ SameControl(s, t) /\ t.rx_buffer = v
           /\ t.rx_rsr = s.rx_rsr /\ t.rx_rd = s.rx_rd /\ t.old_rx_rd = s.old_rx_rd
<1>1. t \in SocketRecord
  BY DEF SocketRecord
<1>2. /\ SameTx(s, t) /\ SameControl(s, t) /\ t.rx_buffer = v
      /\ t.rx_rsr = s.rx_rsr /\ t.rx_rd = s.rx_rd /\ t.old_rx_rd = s.old_rx_rd
  BY DEF SocketRecord, SameTx, SameControl
<1> QED
  BY <1>1, <1>2

LEMMA SetTxRr ==
    ASSUME NEW s \in SocketRecord, NEW v \in Pointer, NEW t, t = [s EXCEPT !.tx_rr = v]
    PROVE  /\ t \in SocketRecord /\ SameRx(s, t) /\ SameControl(s, t) /\ t.tx_rr = v
           /\ t.tx_wr = s.tx_wr /\ t.tx_buffer = s.tx_buffer /\ t.last_send = s.last_send
           /\ t.datagram_lengths = s.datagram_lengths /\ t.datagram_count = s.datagram_count
<1>1. t \in SocketRecord
  BY DEF SocketRecord
<1>2. /\ SameRx(s, t) /\ SameControl(s, t) /\ t.tx_rr = v
      /\ t.tx_wr = s.tx_wr /\ t.tx_buffer = s.tx_buffer /\ t.last_send = s.last_send
           /\ t.datagram_lengths = s.datagram_lengths /\ t.datagram_count = s.datagram_count
  BY DEF SocketRecord, SameRx, SameControl
<1> QED
  BY <1>1, <1>2

LEMMA SetTxWr ==
    ASSUME NEW s \in SocketRecord, NEW v \in Pointer, NEW t, t = [s EXCEPT !.tx_wr = v]
    PROVE  /\ t \in SocketRecord /\ SameRx(s, t) /\ SameControl(s, t) /\ t.tx_wr = v
           /\ t.tx_rr = s.tx_rr /\ t.tx_buffer = s.tx_buffer /\ t.last_send = s.last_send
           /\ t.datagram_lengths = s.datagram_lengths /\ t.datagram_count = s.datagram_count
<1>1. t \in SocketRecord
  BY DEF SocketRecord
<1>2. /\ SameRx(s, t) /\ SameControl(s, t) /\ t.tx_wr = v
      /\ t.tx_rr = s.tx_rr /\ t.tx_buffer = s.tx_buffer /\ t.last_send = s.last_send
           /\ t.datagram_lengths = s.datagram_lengths /\ t.datagram_count = s.datagram_count
  BY DEF SocketRecord, SameRx, SameControl
<1> QED
  BY <1>1, <1>2

LEMMA SetTxBuffer ==
    ASSUME NEW s \in SocketRecord, NEW v \in [Place -> Pointer], NEW t, t = [s EXCEPT !.tx_buffer = v]
    PROVE  /\ t \in SocketRecord /\ SameRx(s, t) /\ SameControl(s, t) /\ t.tx_buffer = v
           /\ t.tx_rr = s.tx_rr /\ t.tx_wr = s.tx_wr /\ t.last_send = s.last_send
           /\ t.datagram_lengths = s.datagram_lengths /\ t.datagram_count = s.datagram_count
<1>1. t \in SocketRecord
  BY DEF SocketRecord
<1>2. /\ SameRx(s, t) /\ SameControl(s, t) /\ t.tx_buffer = v
      /\ t.tx_rr = s.tx_rr /\ t.tx_wr = s.tx_wr /\ t.last_send = s.last_send
           /\ t.datagram_lengths = s.datagram_lengths /\ t.datagram_count = s.datagram_count
  BY DEF SocketRecord, SameRx, SameControl
<1> QED
  BY <1>1, <1>2

LEMMA SetLastSend ==
    ASSUME NEW s \in SocketRecord, NEW v \in Pointer, NEW t, t = [s EXCEPT !.last_send = v]
    PROVE  /\ t \in SocketRecord /\ SameRx(s, t) /\ SameControl(s, t) /\ t.last_send = v
           /\ t.tx_rr = s.tx_rr /\ t.tx_wr = s.tx_wr /\ t.tx_buffer = s.tx_buffer
           /\ t.datagram_lengths = s.datagram_lengths /\ t.datagram_count = s.datagram_count
<1>1. t \in SocketRecord
  BY DEF SocketRecord
<1>2. /\ SameRx(s, t) /\ SameControl(s, t) /\ t.last_send = v
      /\ t.tx_rr = s.tx_rr /\ t.tx_wr = s.tx_wr /\ t.tx_buffer = s.tx_buffer
           /\ t.datagram_lengths = s.datagram_lengths /\ t.datagram_count = s.datagram_count
  BY DEF SocketRecord, SameRx, SameControl
<1> QED
  BY <1>1, <1>2

LEMMA SetDatagramLengths ==
    ASSUME NEW s \in SocketRecord, NEW v \in [0 .. MaxDatagrams - 1 -> Pointer], NEW t, t = [s EXCEPT !.datagram_lengths = v]
    PROVE  /\ t \in SocketRecord /\ SameRx(s, t) /\ SameControl(s, t) /\ t.datagram_lengths = v
           /\ t.tx_rr = s.tx_rr /\ t.tx_wr = s.tx_wr /\ t.tx_buffer = s.tx_buffer
           /\ t.last_send = s.last_send /\ t.datagram_count = s.datagram_count
<1>1. t \in SocketRecord
  BY DEF SocketRecord
<1>2. /\ SameRx(s, t) /\ SameControl(s, t) /\ t.datagram_lengths = v
      /\ t.tx_rr = s.tx_rr /\ t.tx_wr = s.tx_wr /\ t.tx_buffer = s.tx_buffer
           /\ t.last_send = s.last_send /\ t.datagram_count = s.datagram_count
  BY DEF SocketRecord, SameRx, SameControl
<1> QED
  BY <1>1, <1>2

LEMMA SetDatagramCount ==
    ASSUME NEW s \in SocketRecord, NEW v \in -MaxStray .. MaxDatagrams, NEW t, t = [s EXCEPT !.datagram_count = v]
    PROVE  /\ t \in SocketRecord /\ SameRx(s, t) /\ SameControl(s, t) /\ t.datagram_count = v
           /\ t.tx_rr = s.tx_rr /\ t.tx_wr = s.tx_wr /\ t.tx_buffer = s.tx_buffer
           /\ t.last_send = s.last_send /\ t.datagram_lengths = s.datagram_lengths
<1>1. t \in SocketRecord
  BY DEF SocketRecord
<1>2. /\ SameRx(s, t) /\ SameControl(s, t) /\ t.datagram_count = v
      /\ t.tx_rr = s.tx_rr /\ t.tx_wr = s.tx_wr /\ t.tx_buffer = s.tx_buffer
           /\ t.last_send = s.last_send /\ t.datagram_lengths = s.datagram_lengths
  BY DEF SocketRecord, SameRx, SameControl
<1> QED
  BY <1>1, <1>2

\* The registers are in range.
LEMMA Registers ==
    ASSUME NEW s \in SocketRecord
    PROVE  /\ s.tx_rr \in Pointer /\ s.tx_wr \in Pointer /\ s.rx_rsr \in Pointer /\ s.rx_rd \in Pointer
           /\ s.old_rx_rd \in Pointer /\ s.last_send \in Pointer
           /\ s.tx_buffer \in [Place -> Pointer] /\ s.rx_buffer \in [Place -> Pointer]
           /\ s.datagram_lengths \in [0 .. MaxDatagrams - 1 -> Pointer]
           /\ s.datagram_count \in -MaxStray .. MaxDatagrams
           /\ s.mode \in SocketMode /\ s.state \in SocketState /\ s.fd \in BOOLEAN
           /\ s.write_pending \in BOOLEAN /\ s.socket_bound \in BOOLEAN
  BY DEF SocketRecord
-----------------------------------------------------------------------------
(* Steps that leave the rings alone *)

\* Whether a socket that was closed under a write is still so afterwards.
Still(a, t) == t.write_pending /\ (a \/ ~t.fd)

LEMMA RxKept ==
    ASSUME NEW s, NEW t, NEW h, RxGood(s, h), SameRx(s, t),
           t.state \in Opening => s.state \in Opening
    PROVE  RxGood(t, h)
  BY DEF RxGood, SameRx

LEMMA TxKept ==
    ASSUME NEW s \in SocketRecord, NEW t, NEW h, TxGood(s, h), SameTx(s, t),
           t.state \notin {"udp", "closed"} => s.state \notin {"udp", "closed"},
           t.state \in Opening => s.state \in Opening,
           t.state = "udp" => s.state = "udp",
           h.which = "tx_wr" => (t.write_pending => s.write_pending),
           h.which = "tx_wr" => (s.state = "udp" => t.state = "udp")
    PROVE  TxGood(t, h)
<1>1. Aim(t, h) = Aim(s, h)
  BY DEF Aim, SameTx
<1>2. s.datagram_count >= 0 =>
        TotalLength(t, s.datagram_count) = TotalLength(s, s.datagram_count)
  <2> SUFFICES ASSUME s.datagram_count >= 0
               PROVE  TotalLength(t, s.datagram_count) = TotalLength(s, s.datagram_count)
    OBVIOUS
  <2>1. s.datagram_count \in 0 .. MaxDatagrams
    BY Registers, W5100Assumption
  <2>2. t.datagram_lengths = s.datagram_lengths
    BY DEF SameTx
  <2> QED
    BY <2>1, <2>2, TotalAlike
<1>3. s.datagram_count >= 0 /\ s.state = "udp" /\ QueuedData(s, h) => QueuedData(t, h)
  BY <1>1, <1>2 DEF QueuedData, SameTx
<1>4. t.datagram_count >= 0 => Ordered(t.tx_buffer, t.tx_rr, Ahead(Aim(t, h), t.tx_rr))
  BY <1>1 DEF TxGood, SameTx
<1>5. t.datagram_count >= 0 /\ t.state = "udp" => QueuedData(t, h)
  BY <1>3 DEF TxGood, SameTx
<1>6. /\ t.state \notin {"udp", "closed"} => t.datagram_count = 0
      /\ t.state \in Opening => t.tx_rr = 0
      /\ h.which = "tx_wr" => (t.write_pending => t.state = "udp")
  BY DEF TxGood, SameTx
<1> QED
  BY <1>4, <1>5, <1>6 DEF TxGood

LEMMA PendingKept ==
    ASSUME NEW s, NEW t, NEW a \in BOOLEAN, PendingGood(s, a),
           t.write_pending = s.write_pending, t.datagram_count = s.datagram_count,
           t.state = "udp" => s.state = "udp"
    PROVE  PendingGood(t, Still(a, t))
<1>1. a => s.write_pending
  BY DEF PendingGood
<1>2. CASE ~a
  BY <1>2 DEF PendingGood, Still
<1>3. CASE a
  BY <1>1, <1>3 DEF PendingGood, Still
<1> QED
  BY <1>2, <1>3

LEMMA MinorGood ==
    ASSUME NEW s, NEW t, NEW a \in BOOLEAN, NEW h, SockGood(s, a, h), Minor(s, t)
    PROVE  SockGood(t, Still(a, t), h)
<1>1. s \in SocketRecord /\ t \in SocketRecord /\ SameRx(s, t) /\ SameTx(s, t) /\ SameControl(s, t)
      /\ RxGood(s, h) /\ TxGood(s, h) /\ PendingGood(s, a)
  BY DEF SockGood, Minor
<1>2. t.state = s.state /\ t.write_pending = s.write_pending /\ t.datagram_count = s.datagram_count
  BY <1>1 DEF SameControl, SameTx
<1> QED
  BY <1>1, <1>2, RxKept, TxKept, PendingKept DEF SockGood

\* The socket is closed, with or without the host's.
LEMMA ClosedGood ==
    ASSUME NEW s, NEW t, NEW a \in BOOLEAN, NEW h, SockGood(s, a, h), h.which = "none",
           t \in SocketRecord, SameRx(s, t), SameTx(s, t),
           t.state = "closed", t.write_pending = s.write_pending
    PROVE  SockGood(t, Still(a, t), h)
<1>1. s \in SocketRecord /\ RxGood(s, h) /\ TxGood(s, h) /\ PendingGood(s, a)
  BY DEF SockGood
<1>2. t.datagram_count = s.datagram_count /\ t.state \notin Opening /\ t.state # "udp"
      /\ t.state \in {"udp", "closed"} /\ h.which # "tx_wr"
  BY DEF SameTx, Opening
<1>3. RxGood(t, h)
  BY <1>1, <1>2, RxKept
<1>4. TxGood(t, h)
  BY <1>1, <1>2, TxKept
<1>5. PendingGood(t, Still(a, t))
  BY <1>1, <1>2, PendingKept
<1> QED
  BY <1>3, <1>4, <1>5 DEF SockGood

\* A connection comes or goes.
LEMMA TcpGood ==
    ASSUME NEW s, NEW t, NEW a \in BOOLEAN, NEW h, SockGood(s, a, h),
           t \in SocketRecord, SameRx(s, t), SameTx(s, t), t.write_pending = s.write_pending,
           s.state \in {"init", "listen", "connecting", "established"},
           t.state \in {"listen", "connecting", "established", "close_wait"},
           t.state \in Opening => s.state \in Opening
    PROVE  SockGood(t, Still(a, t), h)
<1>1. s \in SocketRecord /\ RxGood(s, h) /\ TxGood(s, h) /\ PendingGood(s, a)
  BY DEF SockGood
<1>2. t.datagram_count = s.datagram_count /\ t.state # "udp" /\ s.state # "udp"
      /\ s.state \notin {"udp", "closed"}
  BY DEF SameTx
<1>3. RxGood(t, h)
  BY <1>1, <1>2, RxKept
<1>4. TxGood(t, h)
  BY <1>1, <1>2, TxKept
<1>5. PendingGood(t, Still(a, t))
  BY <1>1, <1>2, PendingKept
<1> QED
  BY <1>3, <1>4, <1>5 DEF SockGood

-----------------------------------------------------------------------------
(* Commands *)

\* A socket whose rings are empty and whose pointers are back at the start.
Cleaned(t) ==
    /\ t \in SocketRecord
    /\ t.tx_rr = 0 /\ t.tx_wr = 0 /\ t.rx_rsr = 0 /\ t.rx_rd = 0 /\ t.old_rx_rd = 0
    /\ t.last_send = 0 /\ t.datagram_count = 0

LEMMA Zeroes == 0 \in Pointer /\ 0 \in -MaxStray .. MaxDatagrams /\ Ahead(0, 0) = 0
<1>1. Wide \in Nat /\ Wide > 0 /\ MaxStray \in Nat /\ MaxDatagrams \in Nat
  BY W5100Sizes, W5100Assumption
<1>2. 0 \in 0 .. Wide - 1 /\ 0 - 0 = 0 /\ 0 \in -MaxStray .. MaxDatagrams
  BY <1>1
<1>3. 0 % Wide = 0
  BY <1>1, <1>2, ModSmall
<1> QED
  BY <1>2, <1>3 DEF Pointer, Ahead

LEMMA InitCommonIs ==
    ASSUME NEW s \in SocketRecord, NEW t, t = w5100_socket_init_common(s)
    PROVE  /\ t \in SocketRecord /\ SameRx(s, t) /\ SameTx(s, t) /\ t.state = s.state
           /\ t.fd = FALSE /\ t.write_pending = FALSE
<1> DEFINE a == [s EXCEPT !.fd = FALSE]
           b == [a EXCEPT !.bind_count = 0]
           c == [b EXCEPT !.socket_bound = FALSE]
           d == [c EXCEPT !.ok_for_io = FALSE]
           e == [d EXCEPT !.write_pending = FALSE]
<1>0. t = e
  BY DEF w5100_socket_init_common
<1>1. a \in SocketRecord /\ SameRx(s, a) /\ SameTx(s, a) /\ a.fd = FALSE /\ a.state = s.state
  BY SetFd
<1> HIDE DEF a
<1>2. Minor(a, b)
  BY <1>1, SetBindCount
<1> HIDE DEF b
<1>3. Minor(b, c)
  BY <1>2, SetSocketBound DEF Minor
<1> HIDE DEF c
<1>4. Minor(c, d)
  BY <1>3, SetOkForIo DEF Minor
<1> HIDE DEF d
<1>5. d \in SocketRecord /\ SameRx(s, d) /\ SameTx(s, d) /\ d.fd = FALSE /\ d.state = s.state
  BY <1>1, <1>2, <1>3, <1>4 DEF Minor, SameRx, SameTx, SameControl
<1>6. e \in SocketRecord /\ SameRx(d, e) /\ SameTx(d, e) /\ e.write_pending = FALSE
      /\ e.state = d.state /\ e.fd = d.fd
  BY <1>5, SetWritePending
<1> HIDE DEF e
<1> QED
  BY <1>0, <1>5, <1>6 DEF SameRx, SameTx

LEMMA CleanIs ==
    ASSUME NEW s \in SocketRecord, NEW t, t = w5100_socket_clean(s)
    PROVE  /\ Cleaned(t) /\ t.state = s.state /\ t.tx_buffer = s.tx_buffer
           /\ t.fd = FALSE /\ (s.fd => ~t.write_pending)
           /\ ~s.fd => t.write_pending = s.write_pending
<1> DEFINE a == [s EXCEPT !.send_ok = FALSE]
           b == [a EXCEPT !.tx_rr = 0]
           c == [b EXCEPT !.tx_wr = 0]
           d == [c EXCEPT !.rx_rsr = 0]
           e == [d EXCEPT !.rx_rd = 0]
           f == [e EXCEPT !.old_rx_rd = 0]
           g == [f EXCEPT !.last_send = 0]
           h == [g EXCEPT !.datagram_count = 0]
<1>0. t = IF s.fd THEN w5100_socket_init_common(h) ELSE h
  BY DEF w5100_socket_clean
<1>1. Minor(s, a)
  BY SetSendOk
<1> HIDE DEF a
<1>2. /\ b \in SocketRecord /\ b.tx_rr = 0 /\ SameControl(s, b)
      /\ b.tx_buffer = s.tx_buffer
  BY <1>1, SetTxRr, Zeroes DEF Minor, SameControl, SameTx
<1> HIDE DEF b
<1>3. /\ c \in SocketRecord /\ c.tx_rr = 0 /\ c.tx_wr = 0 /\ SameControl(s, c)
      /\ c.tx_buffer = s.tx_buffer
  BY <1>2, SetTxWr, Zeroes DEF SameControl
<1> HIDE DEF c
<1>4. /\ d \in SocketRecord /\ d.tx_rr = 0 /\ d.tx_wr = 0 /\ d.rx_rsr = 0 /\ SameControl(s, d)
      /\ d.tx_buffer = s.tx_buffer
  BY <1>3, SetRxRsr, Zeroes DEF SameControl, SameTx
<1> HIDE DEF d
<1>5. /\ e \in SocketRecord /\ e.tx_rr = 0 /\ e.tx_wr = 0 /\ e.rx_rsr = 0 /\ e.rx_rd = 0
      /\ SameControl(s, e) /\ e.tx_buffer = s.tx_buffer
  BY <1>4, SetRxRd, Zeroes DEF SameControl, SameTx
<1> HIDE DEF e
<1>6. /\ f \in SocketRecord /\ f.tx_rr = 0 /\ f.tx_wr = 0 /\ f.rx_rsr = 0 /\ f.rx_rd = 0
      /\ f.old_rx_rd = 0 /\ SameControl(s, f) /\ f.tx_buffer = s.tx_buffer
  BY <1>5, SetOldRxRd, Zeroes DEF SameControl, SameTx
<1> HIDE DEF f
<1>7. /\ g \in SocketRecord /\ g.tx_rr = 0 /\ g.tx_wr = 0 /\ g.rx_rsr = 0 /\ g.rx_rd = 0
      /\ g.old_rx_rd = 0 /\ g.last_send = 0 /\ SameControl(s, g) /\ g.tx_buffer = s.tx_buffer
  BY <1>6, SetLastSend, Zeroes DEF SameControl, SameRx
<1> HIDE DEF g
<1>8. Cleaned(h) /\ SameControl(s, h) /\ h.tx_buffer = s.tx_buffer
  BY <1>7, SetDatagramCount, Zeroes DEF SameControl, SameRx, Cleaned
<1> HIDE DEF h
<1>9. CASE s.fd
  <2>1. t = w5100_socket_init_common(h) /\ h \in SocketRecord
    BY <1>0, <1>8, <1>9 DEF Cleaned
  <2>2. /\ t \in SocketRecord /\ SameRx(h, t) /\ SameTx(h, t) /\ t.state = h.state
        /\ t.fd = FALSE /\ t.write_pending = FALSE
    BY <2>1, InitCommonIs
  <2> QED
    BY <1>8, <1>9, <2>2 DEF Cleaned, SameRx, SameTx, SameControl
<1>10. CASE ~s.fd
  <2>1. t = h /\ s.fd = FALSE
    BY <1>0, <1>10, Registers
  <2> QED
    BY <1>8, <2>1 DEF SameControl
<1> QED
  BY <1>9, <1>10

\* An empty ring is in order, and no datagram is in it.
LEMMA CleanedRings ==
    ASSUME NEW t, Cleaned(t), NEW h, h.which = "none"
    PROVE  RxGood(t, h) /\ TxGood(t, h)
<1>1. /\ t.tx_rr = 0 /\ t.tx_wr = 0 /\ t.rx_rsr = 0 /\ t.rx_rd = 0 /\ t.old_rx_rd = 0
      /\ t.last_send = 0 /\ t.datagram_count = 0
  BY DEF Cleaned
<1>2. h.which # "tx_wr" /\ h.which # "rx_rd" /\ Aim(t, h) = 0
  BY <1>1 DEF Aim
<1>3. Ahead(0, 0) = 0 /\ TotalLength(t, 0) = 0 /\ 0 <= Ring
  BY Zeroes, TotalStep, W5100Sizes
<1>4. Ordered(t.rx_buffer, 0, 0) /\ Ordered(t.tx_buffer, 0, 0)
  BY DEF Ordered
<1>5. RxGood(t, h)
  BY <1>1, <1>2, <1>3, <1>4 DEF RxGood
<1>6. QueuedData(t, h)
  BY <1>1, <1>2, <1>3 DEF QueuedData
<1>7. TxGood(t, h)
  BY <1>1, <1>2, <1>3, <1>4, <1>6 DEF TxGood
<1> QED
  BY <1>5, <1>7

LEMMA OpenGood ==
    ASSUME NEW s, NEW a \in BOOLEAN, NEW h, SockGood(s, a, h), h.which = "none",
           NEW ok \in BOOLEAN, NEW t, t = w5100_socket_open(s, ok)
    PROVE  SockGood(t, Still(a, t), h)
<1> DEFINE c == w5100_socket_clean(s)
           d == [c EXCEPT !.fd = TRUE]
           v == IF s.mode = "tcp" THEN "init" ELSE "udp"
           e == [d EXCEPT !.state = v]
<1>1. s \in SocketRecord /\ PendingGood(s, a)
  BY DEF SockGood
<1>2. CASE t = s
  <2>1. Minor(s, t)
    BY <1>1, <1>2 DEF Minor, SameRx, SameTx, SameControl
  <2> QED
    BY <2>1, MinorGood
<1>3. t = s \/ t = c \/ t = e
  BY DEF w5100_socket_open
<1>4. t # s => s.state = "closed"
  BY DEF w5100_socket_open
<1>5. /\ Cleaned(c) /\ c.state = s.state /\ c.fd = FALSE /\ (s.fd => ~c.write_pending)
      /\ ~s.fd => c.write_pending = s.write_pending
  BY <1>1, CleanIs
<1> HIDE DEF c
<1>6. CASE t = c /\ t # s
  <2>1. RxGood(t, h) /\ TxGood(t, h)
    BY <1>5, <1>6, CleanedRings
  <2>2. t.datagram_count = 0 /\ t.state = "closed" /\ t.fd = FALSE /\ t \in SocketRecord
    BY <1>4, <1>5, <1>6 DEF Cleaned
  <2>3. PendingGood(t, Still(a, t))
    BY <2>2 DEF PendingGood, Still
  <2> QED
    BY <2>1, <2>2, <2>3 DEF SockGood
<1>7. CASE t = e /\ t # s
  <2>0. c \in SocketRecord
    BY <1>5 DEF Cleaned
  <2>1. /\ d \in SocketRecord /\ SameRx(c, d) /\ SameTx(c, d) /\ d.fd = TRUE /\ d.state = c.state
        /\ d.write_pending = c.write_pending
    BY <2>0, SetFd
  <2> HIDE DEF d
  <2>2. v \in SocketState
    BY DEF SocketState
  <2> HIDE DEF v
  <2>3. /\ t \in SocketRecord /\ SameRx(d, t) /\ SameTx(d, t) /\ t.fd = d.fd
        /\ t.write_pending = d.write_pending
    BY <1>7, <2>1, <2>2, SetState
  <2>4. Cleaned(t) /\ t.fd = TRUE /\ t.write_pending = c.write_pending
    BY <1>5, <2>1, <2>3 DEF Cleaned, SameRx, SameTx
  <2>5. RxGood(t, h) /\ TxGood(t, h)
    BY <2>4, CleanedRings
  <2>6. ~a => ~c.write_pending
    BY <1>1, <1>5 DEF PendingGood
  <2>7. t.datagram_count = 0
    BY <2>4 DEF Cleaned
  <2>8. PendingGood(t, Still(a, t))
    <3>1. CASE a
      BY <3>1, <2>4, <2>7 DEF PendingGood, Still
    <3>2. CASE ~a
      BY <3>2, <2>4, <2>6, <2>7 DEF PendingGood, Still
    <3> QED
      BY <3>1, <3>2
  <2> QED
    BY <2>3, <2>5, <2>8 DEF SockGood
<1> QED
  BY <1>2, <1>3, <1>6, <1>7

\* The socket as a reset leaves it.
LEMMA ResetIs ==
    ASSUME NEW s \in SocketRecord, NEW t, t = nic_w5100_socket_reset(s)
    PROVE  /\ Cleaned(t) /\ t.state = "closed" /\ t.tx_buffer = s.tx_buffer /\ t.fd = FALSE
           /\ t.write_pending => s.write_pending
<1> DEFINE m == "closed"
           b == [s EXCEPT !.mode = m]
           c == [b EXCEPT !.state = m]
<1>0. t = w5100_socket_clean(c)
  BY DEF nic_w5100_socket_reset
<1>1. m \in SocketMode /\ m \in SocketState
  BY DEF SocketMode, SocketState
<1> HIDE DEF m
<1>2. Minor(s, b)
  BY <1>1, SetMode
<1> HIDE DEF b
<1>3. /\ c \in SocketRecord /\ SameTx(b, c) /\ c.state = m /\ c.write_pending = b.write_pending
      /\ c.fd = b.fd
  BY <1>1, <1>2, SetState DEF Minor
<1> HIDE DEF c
<1>4. /\ Cleaned(t) /\ t.state = c.state /\ t.tx_buffer = c.tx_buffer
      /\ t.fd = FALSE /\ (c.fd => ~t.write_pending)
      /\ ~c.fd => t.write_pending = c.write_pending
  BY <1>0, <1>3, CleanIs
<1>5. t.state = "closed" /\ t.tx_buffer = s.tx_buffer
  BY <1>2, <1>3, <1>4 DEF Minor, SameTx, m
<1>6. c.write_pending = s.write_pending
  BY <1>2, <1>3 DEF Minor, SameControl
<1> QED
  BY <1>4, <1>5, <1>6

LEMMA ResetPending ==
    ASSUME NEW t, NEW a \in BOOLEAN, t.datagram_count = 0, t.state = "closed", t.fd = FALSE
    PROVE  PendingGood(t, Still(a, t))
  BY DEF PendingGood, Still

LEMMA ResetGood ==
    ASSUME NEW s, NEW a \in BOOLEAN, NEW h, SockGood(s, a, h), h.which = "none",
           NEW t, t = nic_w5100_socket_reset(s)
    PROVE  SockGood(t, Still(a, t), h)
<1>1. s \in SocketRecord
  BY DEF SockGood
<1>2. Cleaned(t) /\ t.state = "closed" /\ t.fd = FALSE
  BY <1>1, ResetIs
<1>3. RxGood(t, h) /\ TxGood(t, h)
  BY <1>2, CleanedRings
<1>4. PendingGood(t, Still(a, t)) /\ t \in SocketRecord
  BY <1>2, ResetPending DEF Cleaned
<1> QED
  BY <1>3, <1>4 DEF SockGood

\* A connection that fails resets the socket, perhaps between the halves of a
\* new TX_WR: what the second half makes of the pointer is then less than what
\* was meant, and in the ring.
LEMMA RefusedGood ==
    ASSUME NEW s, NEW a \in BOOLEAN, NEW h, SockGood(s, a, h), h.to \in Pointer,
           s.state = "connecting", NEW t, t = nic_w5100_socket_reset(s)
    PROVE  SockGood(t, Still(a, t), h)
<1>1. s \in SocketRecord /\ RxGood(s, h) /\ TxGood(s, h) /\ s.state \in Opening
      /\ s.state \notin {"udp", "closed"}
  BY DEF SockGood, Opening
<1>2. /\ Cleaned(t) /\ t.state = "closed" /\ t.fd = FALSE /\ t.tx_buffer = s.tx_buffer
      /\ t.write_pending => s.write_pending
  BY <1>1, ResetIs
<1>3. /\ t.tx_rr = 0 /\ t.tx_wr = 0 /\ t.rx_rsr = 0 /\ t.rx_rd = 0 /\ t.old_rx_rd = 0
      /\ t.last_send = 0 /\ t.datagram_count = 0 /\ t \in SocketRecord
  BY <1>2 DEF Cleaned
<1>4. s.rx_rsr = 0 /\ s.datagram_count = 0 /\ s.tx_rr = 0
  BY <1>1 DEF RxGood, TxGood
<1>5. h.which # "rx_rd"
  BY <1>1, <1>4 DEF RxGood
<1>6. RxGood(t, h)
  <2>1. Ahead(0, 0) = 0 /\ 0 <= Ring /\ Ordered(t.rx_buffer, 0, 0)
    BY Zeroes, W5100Sizes DEF Ordered
  <2> QED
    BY <1>3, <1>5, <2>1 DEF RxGood
<1>7. h.which = "tx_wr" => ~s.write_pending
  BY <1>1 DEF TxGood
<1>8. Ordered(t.tx_buffer, 0, Ahead(Aim(t, h), 0))
  <2>1. CASE h.which = "tx_wr"
    <3> DEFINE x == LowByte(s.tx_wr, h.to)
               y == LowByte(0, h.to)
    <3>1. Aim(s, h) = x /\ Aim(t, h) = y
      BY <1>3, <2>1 DEF Aim
    <3>2. x \in Pointer /\ y \in Pointer
      BY <1>1, Registers, Zeroes, HalvesType
    <3>3. y <= x
      <4>1. Low \in Nat /\ Low > 0 /\ s.tx_wr \in Nat /\ 0 \in Nat /\ h.to \in Nat
        BY <1>1, Registers, PointerIsNat, W5100Sizes
      <4>2. s.tx_wr \div Low >= 0 /\ s.tx_wr \div Low \in Int /\ 0 \div Low = 0
        BY <4>1
      <4>3. h.to % Low \in Nat
        BY <4>1
      <4>4. (s.tx_wr \div Low) * Low >= 0 /\ (s.tx_wr \div Low) * Low \in Int
        BY <4>1, <4>2
      <4> QED
        BY <4>1, <4>2, <4>3, <4>4 DEF LowByte
    <3> HIDE DEF x, y
    <3>4. Ahead(x, 0) = x /\ Ahead(y, 0) = y
      <4>1. Wide \in Nat /\ Wide > 0 /\ x - 0 = x /\ y - 0 = y /\ x \in 0 .. Wide - 1
            /\ y \in 0 .. Wide - 1
        BY <3>2, W5100Sizes DEF Pointer
      <4> QED
        BY <4>1, ModSmall DEF Ahead
    <3>5. Ordered(s.tx_buffer, 0, x)
      BY <1>1, <1>4, <3>1, <3>4 DEF TxGood
    <3>6. Ordered(s.tx_buffer, 0, y)
      BY <3>2, <3>3, <3>5, OrderedLess, PointerIsNat
    <3> QED
      BY <1>2, <3>1, <3>4, <3>6
  <2>2. CASE h.which # "tx_wr"
    <3>1. Aim(t, h) = 0
      BY <1>3, <2>2 DEF Aim
    <3> QED
      BY <3>1, Zeroes DEF Ordered
  <2> QED
    BY <2>1, <2>2
<1>9. TxGood(t, h)
  BY <1>2, <1>3, <1>7, <1>8 DEF TxGood, Opening
<1>10. PendingGood(t, Still(a, t))
  BY <1>2, <1>3, ResetPending
<1> QED
  BY <1>3, <1>6, <1>9, <1>10 DEF SockGood

LEMMA BoundIs ==
    ASSUME NEW s \in SocketRecord, NEW ok \in BOOLEAN, NEW t, t = Bound(s, ok)
    PROVE  \/ Minor(s, t)
           \/ /\ t \in SocketRecord /\ SameRx(s, t) /\ SameTx(s, t) /\ ~t.socket_bound
              /\ t.state = "closed" /\ t.write_pending = s.write_pending /\ t.fd = s.fd
<1> DEFINE c == [s EXCEPT !.socket_bound = TRUE]
           v == "closed"
           d == [s EXCEPT !.state = v]
<1>1. t = s \/ t = c \/ (t = d /\ ~s.socket_bound)
  BY DEF Bound, w5100_socket_bind_port
<1>2. CASE t = s
  BY <1>2 DEF Minor, SameRx, SameTx, SameControl
<1>3. CASE t = c
  BY <1>3, SetSocketBound
<1>4. CASE t = d /\ ~s.socket_bound
  <2>1. d.socket_bound = s.socket_bound
    BY DEF SocketRecord
  <2>2. v \in SocketState /\ v = "closed"
    BY DEF SocketState
  <2> HIDE DEF v
  <2>3. /\ d \in SocketRecord /\ SameRx(s, d) /\ SameTx(s, d) /\ d.state = v
        /\ d.write_pending = s.write_pending /\ d.fd = s.fd
    BY <2>2, SetState
  <2> HIDE DEF d
  <2> QED
    BY <1>4, <2>1, <2>2, <2>3
<1> QED
  BY <1>1, <1>2, <1>3, <1>4

LEMMA BoundGood ==
    ASSUME NEW s, NEW a \in BOOLEAN, NEW h, SockGood(s, a, h), h.which = "none",
           NEW ok \in BOOLEAN, NEW t, t = Bound(s, ok)
    PROVE  SockGood(t, Still(a, t), h)
<1>1. s \in SocketRecord
  BY DEF SockGood
<1>2. CASE Minor(s, t)
  BY <1>2, MinorGood
<1>3. CASE /\ t \in SocketRecord /\ SameRx(s, t) /\ SameTx(s, t)
           /\ t.state = "closed" /\ t.write_pending = s.write_pending
  BY <1>3, ClosedGood
<1> QED
  BY <1>1, <1>2, <1>3, BoundIs

\* Nothing done is a minor thing.
LEMMA MinorSelf ==
    ASSUME NEW s \in SocketRecord
    PROVE  Minor(s, s)
  BY DEF Minor, SameRx, SameTx, SameControl

\* A socket that is about to connect or listen takes the next state.
LEMMA NextState ==
    ASSUME NEW s, NEW a \in BOOLEAN, NEW h, SockGood(s, a, h), h.which = "none", s.state = "init",
           NEW t, Minor(s, t), NEW v \in {"listen", "connecting", "established", "closed"},
           NEW u, u = [t EXCEPT !.state = v]
    PROVE  SockGood(u, Still(a, u), h)
<1>1. v \in SocketState /\ t \in SocketRecord /\ SameRx(s, t) /\ SameTx(s, t)
      /\ t.write_pending = s.write_pending
  BY DEF SocketState, Minor, SameControl
<1>2. /\ u \in SocketRecord /\ SameRx(t, u) /\ SameTx(t, u) /\ u.state = v
      /\ u.write_pending = t.write_pending
  BY <1>1, SetState
<1>3. SameRx(s, u) /\ SameTx(s, u) /\ u.write_pending = s.write_pending
  BY <1>1, <1>2 DEF SameRx, SameTx
<1>4. CASE v = "closed"
  <2>1. u.state = "closed"
    BY <1>2, <1>4
  <2> QED
    BY <1>2, <1>3, <2>1, ClosedGood
<1>5. CASE v # "closed"
  <2>1. u.state \in {"listen", "connecting", "established", "close_wait"} /\ s.state \in Opening
        /\ s.state \in {"init", "listen", "connecting", "established"}
    BY <1>2, <1>5 DEF Opening
  <2> QED
    BY <1>2, <1>3, <2>1, TcpGood
<1> QED
  BY <1>4, <1>5

LEMMA ListenGood ==
    ASSUME NEW s, NEW a \in BOOLEAN, NEW h, SockGood(s, a, h), h.which = "none",
           NEW bound \in BOOLEAN, NEW ok \in BOOLEAN, NEW u, u = w5100_socket_listen(s, bound, ok)
    PROVE  SockGood(u, Still(a, u), h)
<1> DEFINE t == Bound(s, bound)
<1>1. s \in SocketRecord
  BY DEF SockGood
<1>2. CASE u = s
  BY <1>1, <1>2, MinorSelf, MinorGood
<1>3. CASE u = t
  BY <1>3, BoundGood
<1>4. CASE s.state = "init" /\ t.socket_bound /\ u = [t EXCEPT !.state = "listen"]
  <2>1. Minor(s, t)
    BY <1>1, <1>4, BoundIs
  <2> DEFINE v == "listen"
  <2>2. v \in {"listen", "connecting", "established", "closed"} /\ u = [t EXCEPT !.state = v]
    BY <1>4
  <2> HIDE DEF v, t
  <2> QED
    BY <1>4, <2>1, <2>2, NextState
<1> QED
  BY <1>2, <1>3, <1>4 DEF w5100_socket_listen

LEMMA ConnectGood ==
    ASSUME NEW s, NEW a \in BOOLEAN, NEW h, SockGood(s, a, h), h.which = "none",
           NEW bound \in BOOLEAN, NEW answer \in {"fail", "progress", "ok"},
           NEW u, u = w5100_socket_connect(s, bound, answer)
    PROVE  SockGood(u, Still(a, u), h)
<1> DEFINE t == Bound(s, bound)
           v == CASE answer = "fail" -> "closed" [] answer = "progress" -> "connecting"
                  [] OTHER -> "established"
<1>1. s \in SocketRecord
  BY DEF SockGood
<1>2. CASE u = s
  BY <1>1, <1>2, MinorSelf, MinorGood
<1>3. CASE u = t
  BY <1>3, BoundGood
<1>4. CASE s.state = "init" /\ t.socket_bound
  <2>1. Minor(s, t)
    BY <1>1, <1>4, BoundIs
  <2>2. v \in {"listen", "connecting", "established", "closed"}
    OBVIOUS
  <2>3. u = [t EXCEPT !.state = v]
    BY <1>4 DEF w5100_socket_connect
  <2> HIDE DEF v, t
  <2> QED
    BY <1>4, <2>1, <2>2, <2>3, NextState
<1> QED
  BY <1>2, <1>3, <1>4 DEF w5100_socket_connect

LEMMA CloseGood ==
    ASSUME NEW s, NEW a \in BOOLEAN, NEW h, SockGood(s, a, h), h.which = "none",
           NEW t, t = w5100_socket_close(s)
    PROVE  SockGood(t, Still(a, t), h)
<1> DEFINE b == [s EXCEPT !.fd = FALSE]
           c == [b EXCEPT !.socket_bound = FALSE]
           d == [c EXCEPT !.ok_for_io = FALSE]
           v == "closed"
           e == [d EXCEPT !.state = v]
<1>1. s \in SocketRecord
  BY DEF SockGood
<1>2. CASE t = s
  BY <1>1, <1>2, MinorSelf, MinorGood
<1>3. CASE t = e
  <2>1. b \in SocketRecord /\ SameRx(s, b) /\ SameTx(s, b) /\ b.write_pending = s.write_pending
    BY <1>1, SetFd
  <2> HIDE DEF b
  <2>2. Minor(b, c)
    BY <2>1, SetSocketBound
  <2> HIDE DEF c
  <2>3. Minor(c, d)
    BY <2>2, SetOkForIo DEF Minor
  <2> HIDE DEF d
  <2>4. Minor(b, d)
    BY <2>2, <2>3, MinorTwice
  <2>5. v \in SocketState /\ v = "closed" /\ d \in SocketRecord
    BY <2>4 DEF SocketState, Minor
  <2> HIDE DEF v
  <2>6. /\ t \in SocketRecord /\ SameRx(d, t) /\ SameTx(d, t) /\ t.state = v
        /\ t.write_pending = d.write_pending
    BY <1>3, <2>5, SetState
  <2>7. SameRx(s, t) /\ SameTx(s, t) /\ t.write_pending = s.write_pending
    BY <2>1, <2>4, <2>6 DEF Minor, SameRx, SameTx, SameControl
  <2> QED
    BY <2>5, <2>6, <2>7, ClosedGood
<1> QED
  BY <1>2, <1>3 DEF w5100_socket_close

LEMMA DisconGood ==
    ASSUME NEW s, NEW a \in BOOLEAN, NEW h, SockGood(s, a, h), h.which = "none",
           NEW t, t = w5100_socket_discon(s)
    PROVE  SockGood(t, Still(a, t), h)
<1>1. CASE t = s
  BY <1>1, MinorSelf, MinorGood DEF SockGood
<1>2. CASE t = w5100_socket_close(s)
  BY <1>2, CloseGood
<1> QED
  BY <1>1, <1>2 DEF w5100_socket_discon

\* RECV gives back what software has read, and no more.
LEMMA RecvGood ==
    ASSUME NEW s, NEW a \in BOOLEAN, NEW h, SockGood(s, a, h), h.which = "none",
           NEW t, t = w5100_socket_recv(s)
    PROVE  SockGood(t, Still(a, t), h)
<1> DEFINE left == (s.rx_rsr - (s.rx_rd - s.old_rx_rd)) % Wide
           d == Ahead(s.rx_rd, s.old_rx_rd)
           b == [s EXCEPT !.rx_rsr = left]
           c == [b EXCEPT !.old_rx_rd = s.rx_rd]
<1>1. s \in SocketRecord /\ RxGood(s, h) /\ TxGood(s, h) /\ PendingGood(s, a)
  BY DEF SockGood
<1>2. CASE t = s
  BY <1>1, <1>2, MinorSelf, MinorGood
<1>3. CASE t = c
  <2>1. /\ s.rx_rsr \in 0 .. Wide - 1 /\ s.rx_rd \in Pointer /\ s.old_rx_rd \in Pointer
        /\ s.rx_rd \in Int /\ s.old_rx_rd \in Int
    BY <1>1, Registers, PointerIsNat DEF Pointer
  <2>2. d \in 0 .. Wide - 1 /\ d <= s.rx_rsr /\ s.rx_rsr <= Ring /\ Wide \in Nat /\ Wide > 0
        /\ Ring \in Nat
    BY <1>1, <2>1, AheadType, W5100Sizes DEF RxGood
  <2>3. left = s.rx_rsr - d
    <3>1. (s.rx_rsr - ((s.rx_rd - s.old_rx_rd) % Wide)) % Wide = left
      <4> DEFINE x == s.rx_rd - s.old_rx_rd
                 y == s.rx_rsr
      <4>1. x \in Int /\ y \in Int
        BY <2>1, <2>2
      <4> HIDE DEF x, y
      <4>2. (y - (x % Wide)) % Wide = (y - x) % Wide
        BY <2>2, <4>1, ModSum
      <4> QED
        BY <4>2 DEF x, y
    <3>2. (s.rx_rsr - d) % Wide = s.rx_rsr - d
      BY <2>1, <2>2, ModSmall
    <3> QED
      BY <3>1, <3>2 DEF Ahead
  <2>4. (s.old_rx_rd + d) % Wide = s.rx_rd
    BY <2>1, AheadTo
  <2>5. left \in Pointer
    BY <2>1, <2>2, <2>3 DEF Pointer
  <2> HIDE DEF d, left
  <2>6. /\ b \in SocketRecord /\ SameTx(s, b) /\ SameControl(s, b) /\ b.rx_rsr = left
        /\ b.rx_rd = s.rx_rd /\ b.rx_buffer = s.rx_buffer
    BY <1>1, <2>5, SetRxRsr
  <2> HIDE DEF b
  <2>7. /\ t \in SocketRecord /\ SameTx(b, t) /\ SameControl(b, t) /\ t.old_rx_rd = s.rx_rd
        /\ t.rx_rsr = b.rx_rsr /\ t.rx_rd = b.rx_rd /\ t.rx_buffer = b.rx_buffer
    BY <1>3, <2>1, <2>6, SetOldRxRd
  <2>8. SameTx(s, t) /\ t.state = s.state /\ t.write_pending = s.write_pending
    BY <2>6, <2>7 DEF SameTx, SameControl
  <2>9. Ordered(s.rx_buffer, (s.old_rx_rd + d) % Wide, s.rx_rsr - d)
    BY <1>1, <2>1, <2>2, OrderedRest DEF RxGood
  <2>10. Ahead(s.rx_rd, s.rx_rd) = 0
    <3>1. s.rx_rd - s.rx_rd = 0 /\ 0 - 0 = 0
      BY <2>1
    <3> QED
      BY <3>1, Zeroes DEF Ahead
  <2>11. t.state \in Opening => t.rx_rsr = 0
    BY <1>1, <2>1, <2>2, <2>3, <2>6, <2>7, <2>8 DEF RxGood
  <2>12. t.rx_rsr <= Ring /\ 0 <= t.rx_rsr
    BY <2>1, <2>2, <2>3, <2>6, <2>7
  <2>13. RxGood(t, h)
    BY <2>3, <2>4, <2>6, <2>7, <2>9, <2>10, <2>11, <2>12 DEF RxGood
  <2>14. TxGood(t, h)
    BY <1>1, <2>8, TxKept
  <2>15. PendingGood(t, Still(a, t))
    <3>1. t.datagram_count = s.datagram_count
      BY <2>8 DEF SameTx
    <3> QED
      BY <1>1, <2>8, <3>1, PendingKept
  <2> QED
    BY <2>7, <2>13, <2>14, <2>15 DEF SockGood
<1> QED
  BY <1>2, <1>3 DEF w5100_socket_recv

LEMMA PortGood ==
    ASSUME NEW s, NEW a \in BOOLEAN, NEW h, SockGood(s, a, h), h.which = "none",
           NEW ok \in BOOLEAN, NEW u, u = w5100_write_socket_port(s, ok)
    PROVE  SockGood(u, Still(a, u), h)
<1>1. s \in SocketRecord
  BY DEF SockGood
<1>2. CASE u = [s EXCEPT !.bind_count = 1]
  BY <1>1, <1>2, SetBindCount, MinorGood
<1>3. CASE u = [s EXCEPT !.bind_count = 0]
  BY <1>1, <1>3, SetBindCount, MinorGood
<1>4. CASE u = [Bound(s, ok) EXCEPT !.bind_count = 0]
  <2> DEFINE t == Bound(s, ok)
  <2>1. CASE Minor(s, t)
    <3>1. Minor(t, u)
      BY <1>4, <2>1, SetBindCount DEF Minor
    <3> QED
      BY <2>1, <3>1, MinorTwice, MinorGood
  <2>2. CASE /\ t \in SocketRecord /\ SameRx(s, t) /\ SameTx(s, t)
             /\ t.state = "closed" /\ t.write_pending = s.write_pending
    <3> HIDE DEF t
    <3>1. Minor(t, u)
      BY <1>4, <2>2, SetBindCount DEF t
    <3>2. /\ u \in SocketRecord /\ SameRx(s, u) /\ SameTx(s, u)
          /\ u.state = "closed" /\ u.write_pending = s.write_pending
      BY <2>2, <3>1 DEF Minor, SameRx, SameTx, SameControl
    <3> QED
      BY <3>2, ClosedGood
  <2> QED
    BY <1>1, <2>1, <2>2, BoundIs
<1> QED
  BY <1>2, <1>3, <1>4 DEF w5100_write_socket_port

\* SEND: the bytes since the last one become a datagram, or a stream is to be
\* sent.
LEMMA SendGood ==
    ASSUME NEW s, NEW a \in BOOLEAN, NEW h, SockGood(s, a, h), h.which = "none",
           s.datagram_count \in 0 .. MaxDatagrams - 1,
           NEW bound \in BOOLEAN, NEW u, u = w5100_socket_send(s, bound)
    PROVE  SockGood(u, Still(a, u), h)
<1> DEFINE t == Bound(s, bound)
           n == s.datagram_count
           len == (s.tx_wr - s.last_send) % Wide
           lens == [t.datagram_lengths EXCEPT ![n] = len]
           b == [t EXCEPT !.datagram_lengths = lens]
           c == [b EXCEPT !.datagram_count = t.datagram_count + 1]
           d == [c EXCEPT !.last_send = s.tx_wr]
           e == [d EXCEPT !.write_pending = TRUE]
<1>1. s \in SocketRecord /\ RxGood(s, h) /\ TxGood(s, h) /\ PendingGood(s, a)
      /\ h.which # "tx_wr"
  BY DEF SockGood
<1>2. CASE u = s
  BY <1>1, <1>2, MinorSelf, MinorGood
<1>3. CASE u = t
  BY <1>3, BoundGood
<1>4. CASE s.state = "established" /\ u = [s EXCEPT !.write_pending = TRUE]
  <2>1. /\ u \in SocketRecord /\ SameRx(s, u) /\ SameTx(s, u) /\ u.state = s.state
        /\ u.write_pending = TRUE /\ u.fd = s.fd
    BY <1>1, <1>4, SetWritePending
  <2>2. RxGood(u, h)
    BY <1>1, <2>1, RxKept
  <2>3. TxGood(u, h)
    BY <1>1, <2>1, TxKept
  <2>4. u.datagram_count = n /\ u.state # "udp" /\ n >= 0
    BY <1>1, <1>4, <2>1, W5100Assumption DEF SameTx
  <2>5. PendingGood(u, Still(a, u))
    BY <2>1, <2>4 DEF PendingGood, Still
  <2> QED
    BY <2>1, <2>2, <2>3, <2>5 DEF SockGood
<1>5. CASE s.state = "udp" /\ t.socket_bound /\ u = e
  <2>1. Minor(s, t)
    BY <1>1, <1>5, BoundIs
  <2>2. t \in SocketRecord /\ SameRx(s, t) /\ SameTx(s, t) /\ SameControl(s, t)
    BY <2>1 DEF Minor
  <2> HIDE DEF t
  <2>3. /\ s.tx_rr \in Pointer /\ s.tx_wr \in Pointer /\ s.last_send \in Pointer
        /\ s.datagram_lengths \in [0 .. MaxDatagrams - 1 -> Pointer]
        /\ t.datagram_lengths = s.datagram_lengths /\ t.datagram_count = n
        /\ n \in 0 .. MaxDatagrams - 1 /\ MaxDatagrams \in Nat
    BY <1>1, <2>2, Registers, W5100Assumption DEF SameTx
  <2>4. Ahead(s.tx_wr, s.last_send) = len
    BY DEF Ahead
  <2>5. len \in Pointer
    BY <2>3, <2>4, AheadType
  <2>6. lens \in [0 .. MaxDatagrams - 1 -> Pointer]
    BY <2>3, <2>5
  <2>7. n + 1 \in -MaxStray .. MaxDatagrams /\ n + 1 \in 0 .. MaxDatagrams /\ n + 1 > 0
    BY <2>3, W5100Assumption
  <2> HIDE DEF len, lens
  <2>8. /\ b \in SocketRecord /\ SameRx(t, b) /\ SameControl(t, b)
        /\ b.datagram_lengths = lens /\ b.tx_rr = t.tx_rr
        /\ b.tx_wr = t.tx_wr /\ b.tx_buffer = t.tx_buffer
    BY <2>2, <2>6, SetDatagramLengths
  <2> HIDE DEF b
  <2>9. /\ c \in SocketRecord /\ SameRx(b, c) /\ SameControl(b, c) /\ c.datagram_count = n + 1
        /\ c.tx_rr = b.tx_rr /\ c.tx_wr = b.tx_wr /\ c.tx_buffer = b.tx_buffer
        /\ c.datagram_lengths = b.datagram_lengths
    BY <2>3, <2>7, <2>8, SetDatagramCount
  <2> HIDE DEF c
  <2>10. /\ d \in SocketRecord /\ SameRx(c, d) /\ SameControl(c, d) /\ d.last_send = s.tx_wr
         /\ d.tx_rr = c.tx_rr /\ d.tx_wr = c.tx_wr /\ d.tx_buffer = c.tx_buffer
         /\ d.datagram_lengths = c.datagram_lengths /\ d.datagram_count = c.datagram_count
    BY <2>3, <2>9, SetLastSend
  <2> HIDE DEF d
  <2>11. /\ u \in SocketRecord /\ SameRx(d, u) /\ SameTx(d, u) /\ u.state = d.state
         /\ u.write_pending = TRUE /\ u.fd = d.fd
    BY ZenonT(60), <1>5, <2>10, SetWritePending
  <2> HIDE DEF e
  <2>12. SameRx(s, u) /\ u.state = s.state
    BY <2>2, <2>8, <2>9, <2>10, <2>11 DEF SameRx, SameControl
  <2>13. /\ u.tx_rr = s.tx_rr /\ u.tx_wr = s.tx_wr /\ u.tx_buffer = s.tx_buffer
         /\ u.last_send = s.tx_wr /\ u.datagram_count = n + 1
         /\ u.datagram_lengths = [s.datagram_lengths EXCEPT ![n] = len]
    BY <2>2, <2>3, <2>8, <2>9, <2>10, <2>11 DEF SameTx, lens
  <2>14. RxGood(u, h)
    BY <1>1, <2>12, RxKept
  <2>15. Aim(s, h) = s.tx_wr /\ Aim(u, h) = s.tx_wr
    BY <1>1, <2>13 DEF Aim
  <2>16. n >= 0 /\ QueuedData(s, h) /\ Ordered(s.tx_buffer, s.tx_rr, Ahead(s.tx_wr, s.tx_rr))
    BY <1>1, <1>5, <2>3, <2>15 DEF TxGood
  <2>17. TotalLength(u, n + 1) = Ahead(s.tx_wr, s.tx_rr)
    <3>1. TotalLength(u, n + 1) = TotalLength(u, n) + u.datagram_lengths[n]
      BY <2>3, TotalStep
    <3>2. \A i \in 0 .. n - 1 : u.datagram_lengths[i] = s.datagram_lengths[i]
      BY <2>3, <2>13
    <3>3. n \in 0 .. MaxDatagrams
      BY <2>3
    <3>4. TotalLength(u, n) = TotalLength(s, n)
      BY <3>2, <3>3, TotalAlike
    <3>5. u.datagram_lengths[n] = len
      BY <2>3, <2>13
    <3> HIDE DEF n
    <3>6. /\ TotalLength(s, n) = Ahead(s.last_send, s.tx_rr)
          /\ Ahead(s.last_send, s.tx_rr) <= Ahead(s.tx_wr, s.tx_rr)
      BY <2>15, <2>16 DEF QueuedData, n
    <3>7. len = Ahead(s.tx_wr, s.tx_rr) - Ahead(s.last_send, s.tx_rr)
      BY <2>3, <2>4, <3>6, AheadBetween
    <3>8. Ahead(s.tx_wr, s.tx_rr) \in Nat /\ Ahead(s.last_send, s.tx_rr) \in Nat
      BY <2>3, AheadType
    <3> QED
      BY <3>1, <3>4, <3>5, <3>6, <3>7, <3>8
  <2>18. QueuedData(u, h)
    <3>1. Ahead(s.tx_wr, s.tx_rr) <= Ahead(s.tx_wr, s.tx_rr)
      BY <2>3, AheadType
    <3> QED
      BY <2>13, <2>15, <2>17, <3>1 DEF QueuedData
  <2>19. TxGood(u, h)
    BY <1>1, <1>5, <2>12, <2>13, <2>15, <2>16, <2>18 DEF TxGood, Opening
  <2>20. PendingGood(u, Still(a, u))
    <3>1. s.write_pending /\ ~a => s.fd
      BY <1>1 DEF PendingGood
    <3>2. u.datagram_count > 0 /\ u.datagram_count >= 0
      BY <2>7, <2>13
    <3> QED
      BY <2>11, <3>2 DEF PendingGood, Still
  <2> QED
    BY <2>11, <2>14, <2>19, <2>20 DEF SockGood
<1> QED
  BY <1>2, <1>3, <1>4, <1>5 DEF w5100_socket_send

-----------------------------------------------------------------------------
(* w5100_process *)

\* A step that leaves write_pending and the host's socket alone leaves the
\* socket among those closed under a write, or not among them.
LEMMA StillSame ==
    ASSUME NEW s, NEW t, NEW a \in BOOLEAN, NEW h, SockGood(s, a, h),
           t.write_pending = s.write_pending, t.fd = s.fd
    PROVE  Still(a, t) = a
<1>1. s.write_pending \in BOOLEAN /\ s.fd \in BOOLEAN
  BY Registers DEF SockGood
<1> QED
  BY <1>1 DEF SockGood, PendingGood, Still

\* Bytes received go behind those that are there.
LEMMA ReceivedGood ==
    ASSUME NEW s, NEW a \in BOOLEAN, NEW h, SockGood(s, a, h),
           h.to \in Pointer, s.state \in {"udp", "established"},
           NEW n \in Nat, n <= Ring - s.rx_rsr, NEW t, t = Received(s, n)
    PROVE  SockGood(t, a, h) /\ SameControl(s, t)
<1> DEFINE v == s.rx_rsr + n
           r == Stored(s.rx_buffer, s.old_rx_rd + s.rx_rsr, n)
           b == [s EXCEPT !.rx_rsr = v]
           c == [b EXCEPT !.rx_buffer = r]
<1>1. s \in SocketRecord /\ RxGood(s, h) /\ TxGood(s, h) /\ PendingGood(s, a)
  BY DEF SockGood
<1>2. /\ s.rx_rsr \in Pointer /\ s.rx_rsr \in Nat /\ s.old_rx_rd \in Pointer /\ s.old_rx_rd \in Nat
      /\ s.rx_buffer \in [Place -> Pointer] /\ Ring \in Nat /\ Ring > 0 /\ Wide \in Nat /\ Ring < Wide
  BY <1>1, Registers, PointerIsNat, W5100Sizes
<1>3. v \in Pointer /\ v <= Ring /\ v \in Nat /\ v >= s.rx_rsr
  BY <1>2 DEF Pointer
<1>4. r \in [Place -> Pointer]
  <2>1. n \in 0 .. Ring /\ s.old_rx_rd + s.rx_rsr \in Nat
    BY <1>2
  <2> QED
    BY <1>2, <2>1, StoredIs
<1>5. Ordered(r, s.old_rx_rd, v)
  <2> DEFINE first == s.old_rx_rd
             m == s.rx_rsr
             start == first + m
  <2>1. /\ first \in Pointer /\ m \in Nat /\ start \in Nat /\ m + n <= Ring
        /\ start % Ring = (first + m) % Ring /\ start % Wide = (first + m) % Wide
    BY <1>2
  <2>2. Ordered(s.rx_buffer, first, m)
    BY <1>1 DEF RxGood
  <2>3. r = Stored(s.rx_buffer, start, n) /\ v = m + n
    OBVIOUS
  <2> HIDE DEF first, m, start, r, v
  <2>4. Ordered(Stored(s.rx_buffer, start, n), first, m + n)
    BY <1>2, <2>1, <2>2, OrderedStored
  <2>5. Ordered(r, first, v)
    BY <2>3, <2>4
  <2> QED
    BY <2>5 DEF first
<1>6. t = c
  BY DEF Received
<1> HIDE DEF v, r
<1>7. /\ b \in SocketRecord /\ SameTx(s, b) /\ SameControl(s, b) /\ b.rx_rsr = v
      /\ b.rx_rd = s.rx_rd /\ b.old_rx_rd = s.old_rx_rd
  BY <1>1, <1>3, SetRxRsr
<1> HIDE DEF b
<1>8. /\ t \in SocketRecord /\ SameTx(b, t) /\ SameControl(b, t) /\ t.rx_buffer = r
      /\ t.rx_rsr = b.rx_rsr /\ t.rx_rd = b.rx_rd /\ t.old_rx_rd = b.old_rx_rd
  BY <1>4, <1>6, <1>7, SetRxBuffer
<1>9. SameTx(s, t) /\ SameControl(s, t)
  BY <1>7, <1>8 DEF SameTx, SameControl
<1>10. t.state = s.state /\ t.write_pending = s.write_pending /\ t.fd = s.fd
       /\ t.datagram_count = s.datagram_count /\ t.state \notin Opening
  BY <1>9 DEF SameTx, SameControl, Opening
<1>11. RxGood(t, h)
  <2>1. h.which # "rx_rd" => Ahead(s.rx_rd, s.old_rx_rd) <= v
    <3>1. Ahead(s.rx_rd, s.old_rx_rd) \in Nat
      BY <1>1, Registers, AheadType
    <3> QED
      BY <1>1, <1>2, <1>3, <3>1 DEF RxGood
  <2>2. h.which = "rx_rd" =>
          /\ v > 0 /\ s.rx_rd \div Low = h.to \div Low
          /\ Ahead(h.to, s.old_rx_rd) <= s.rx_rsr
    BY <1>1, <1>2, <1>3 DEF RxGood
  <2>3. h.which = "rx_rd" => Ahead(h.to, s.old_rx_rd) <= v
    <3>1. Ahead(h.to, s.old_rx_rd) \in Nat
      BY <1>2, AheadType
    <3> QED
      BY <1>2, <1>3, <2>2, <3>1
  <2> QED
    BY <1>3, <1>5, <1>7, <1>8, <1>10, <2>1, <2>2, <2>3 DEF RxGood
<1>12. TxGood(t, h)
  BY <1>1, <1>9, <1>10, TxKept
<1>13. PendingGood(t, Still(a, t))
  BY <1>1, <1>10, PendingKept
<1>14. Still(a, t) = a
  BY <1>10, StillSame
<1> QED
  BY <1>8, <1>9, <1>11, <1>12, <1>13, <1>14 DEF SockGood

\* A stream goes out in pieces that are in the ring.
LEMMA ChunkIs ==
    ASSUME NEW s \in SocketRecord
    PROVE  Chunk(s) \in Nat /\ Chunk(s) <= Ahead(s.tx_wr, s.tx_rr)
<1> DEFINE length == (s.tx_wr - s.tx_rr) % Wide
           offset == s.tx_rr % Ring
<1>1. length = Ahead(s.tx_wr, s.tx_rr) /\ length \in Nat
  <2>1. length = Ahead(s.tx_wr, s.tx_rr)
    BY DEF Ahead
  <2> QED
    BY <2>1, Registers, AheadType
<1>2. Ring \in Nat /\ Ring > 0 /\ s.tx_rr \in Int
  BY W5100Sizes, Registers, PointerIsNat
<1>3. offset \in 0 .. Ring - 1
  BY <1>2, DivMod
<1>4. Chunk(s) = IF offset + length > Ring THEN Ring - offset ELSE length
  BY DEF Chunk
<1> HIDE DEF length, offset
<1> QED
  BY <1>1, <1>2, <1>3, <1>4

LEMMA TcpWriteGood ==
    ASSUME NEW s, NEW a \in BOOLEAN, NEW h, SockGood(s, a, h),
           s.state = "established", s.write_pending,
           NEW n \in 0 .. Chunk(s), NEW t, t = w5100_socket_process_tcp_write(s, n)
    PROVE  SockGood(t, Still(a, t), h)
<1> DEFINE w == (s.tx_rr + n) % Wide
           b == [s EXCEPT !.tx_rr = w]
           c == [b EXCEPT !.write_pending = FALSE]
           d == [c EXCEPT !.send_ok = TRUE]
           m == Ahead(s.tx_wr, s.tx_rr)
<1>1. s \in SocketRecord /\ RxGood(s, h) /\ TxGood(s, h) /\ PendingGood(s, a)
  BY DEF SockGood
<1>2. s.tx_rr \in Pointer /\ s.tx_wr \in Pointer /\ m \in Nat
  BY <1>1, Registers, AheadType
<1>3. n \in Nat /\ n <= m /\ n \in 0 .. m
  <2>1. Chunk(s) \in Nat /\ Chunk(s) <= m
    BY <1>1, ChunkIs
  <2> QED
    BY <1>2, <2>1
<1>4. w \in Pointer /\ Ahead(s.tx_wr, w) = m - n
  BY <1>2, <1>3, AheadLess
<1>5. h.which # "tx_wr" /\ Aim(s, h) = s.tx_wr /\ s.datagram_count = 0
      /\ Ordered(s.tx_buffer, s.tx_rr, m)
  BY <1>1 DEF TxGood, Aim
<1>6. Ordered(s.tx_buffer, w, m - n)
  BY <1>2, <1>3, <1>5, OrderedRest
<1>7. t = b \/ t = d
  BY DEF w5100_socket_process_tcp_write
<1> HIDE DEF w, m
<1>8. /\ b \in SocketRecord /\ SameRx(s, b) /\ SameControl(s, b) /\ b.tx_rr = w
      /\ b.tx_wr = s.tx_wr /\ b.tx_buffer = s.tx_buffer /\ b.datagram_count = s.datagram_count
  BY <1>1, <1>4, SetTxRr
<1> HIDE DEF b
<1>9. /\ c \in SocketRecord /\ SameRx(b, c) /\ SameTx(b, c) /\ c.write_pending = FALSE
      /\ c.state = b.state /\ c.fd = b.fd
  BY <1>8, SetWritePending
<1> HIDE DEF c
<1>10. Minor(c, d)
  BY <1>9, SetSendOk
<1> HIDE DEF d
<1>11. /\ d \in SocketRecord /\ SameRx(s, d) /\ d.state = s.state /\ d.tx_rr = w /\ d.tx_wr = s.tx_wr
       /\ d.tx_buffer = s.tx_buffer /\ d.datagram_count = 0 /\ d.write_pending = FALSE
  BY <1>5, <1>8, <1>9, <1>10 DEF Minor, SameRx, SameTx, SameControl
<1>12. /\ t \in SocketRecord /\ SameRx(s, t) /\ t.state = "established" /\ t.tx_rr = w
       /\ t.tx_wr = s.tx_wr /\ t.tx_buffer = s.tx_buffer /\ t.datagram_count = 0
  BY <1>5, <1>7, <1>8, <1>11 DEF SameControl
<1>13. t.state \notin Opening /\ t.state # "udp" /\ t.state \notin {"udp", "closed"}
  BY <1>12 DEF Opening
<1>14. RxGood(t, h)
  BY <1>1, <1>12, <1>13, RxKept
<1>15. TxGood(t, h)
  <2>1. Aim(t, h) = s.tx_wr
    BY <1>5, <1>12 DEF Aim
  <2> QED
    BY <1>4, <1>5, <1>6, <1>12, <1>13, <2>1 DEF TxGood
<1>16. PendingGood(t, Still(a, t))
  <2>1. CASE t = b
    <3>1. t.write_pending = s.write_pending /\ t.datagram_count = s.datagram_count
      BY <1>8, <2>1 DEF SameControl
    <3> QED
      BY <1>1, <1>13, <3>1, PendingKept
  <2>2. CASE t = d
    BY <1>11, <1>13, <2>2 DEF PendingGood, Still
  <2> QED
    BY <1>7, <2>1, <2>2
<1> QED
  BY <1>12, <1>14, <1>15, <1>16 DEF SockGood

\* A datagram has gone: the ring begins behind it, and the queue is moved up.
LEMMA UdpWriteGood ==
    ASSUME NEW s, NEW a \in BOOLEAN, NEW h, SockGood(s, a, h), h.to \in Pointer,
           s.state = "udp", s.write_pending, s.datagram_count > -MaxStray,
           NEW t, t = w5100_socket_process_udp_write(s)
    PROVE  SockGood(t, Still(a, t), h)
<1> DEFINE n == s.datagram_count
           L == s.datagram_lengths
           count == n - 1
           M == IF count = 0 THEN L
                ELSE [i \in DOMAIN L |-> IF i + 1 \in DOMAIN L THEN L[i + 1] ELSE L[i]]
           w == (s.tx_rr + L[0]) % Wide
           b == [s EXCEPT !.datagram_count = count]
           c == [b EXCEPT !.datagram_lengths = M]
           d == [c EXCEPT !.tx_rr = w]
           e == [d EXCEPT !.write_pending = FALSE]
           f == [e EXCEPT !.send_ok = TRUE]
<1>1. s \in SocketRecord /\ RxGood(s, h) /\ TxGood(s, h) /\ PendingGood(s, a)
  BY DEF SockGood
<1>2. /\ s.tx_rr \in Pointer /\ s.tx_wr \in Pointer /\ s.last_send \in Pointer
      /\ L \in [0 .. MaxDatagrams - 1 -> Pointer] /\ n \in -MaxStray .. MaxDatagrams
      /\ MaxDatagrams \in Nat /\ MaxDatagrams > 0 /\ MaxStray \in Nat
  BY <1>1, Registers, W5100Assumption
<1>3. count \in -MaxStray .. MaxDatagrams /\ count \in Int
  BY <1>2
<1>4. M \in [0 .. MaxDatagrams - 1 -> Pointer]
  BY <1>2
<1>5. L[0] \in Pointer /\ L[0] \in Nat
  BY <1>2, PointerIsNat
<1>6. w \in Pointer
  <2>1. Wide \in Nat /\ Wide > 0 /\ s.tx_rr + L[0] \in Int
    BY SMTT(60), <1>2, <1>5, W5100Sizes, PointerIsNat
  <2> QED
    BY <2>1, DivMod DEF Pointer
<1>7. t = IF count = 0 THEN f ELSE d
  BY DEF w5100_socket_process_udp_write
<1>8. n > 1 => \A i \in 0 .. n - 2 : M[i] = L[i + 1]
  BY <1>2
<1> HIDE DEF M, w, count
<1>9. b \in SocketRecord /\ SameRx(s, b) /\ SameControl(s, b) /\ b.datagram_count = count
      /\ b.tx_rr = s.tx_rr /\ b.tx_wr = s.tx_wr /\ b.tx_buffer = s.tx_buffer
      /\ b.last_send = s.last_send
  BY <1>1, <1>3, SetDatagramCount
<1> HIDE DEF b
<1>10. c \in SocketRecord /\ SameRx(b, c) /\ SameControl(b, c) /\ c.datagram_count = count
       /\ c.datagram_lengths = M /\ c.tx_wr = b.tx_wr /\ c.tx_buffer = b.tx_buffer
       /\ c.last_send = b.last_send
  BY <1>4, <1>9, SetDatagramLengths
<1> HIDE DEF c
<1>11. d \in SocketRecord /\ SameRx(c, d) /\ SameControl(c, d) /\ d.datagram_count = count
       /\ d.datagram_lengths = M /\ d.tx_rr = w /\ d.tx_wr = c.tx_wr /\ d.tx_buffer = c.tx_buffer
       /\ d.last_send = c.last_send
  BY <1>6, <1>10, SetTxRr
<1> HIDE DEF d
<1>12. /\ e \in SocketRecord /\ SameRx(d, e) /\ SameTx(d, e) /\ e.write_pending = FALSE
       /\ e.state = d.state /\ e.fd = d.fd
  BY <1>11, SetWritePending
<1> HIDE DEF e
<1>13. Minor(e, f)
  BY <1>12, SetSendOk
<1> HIDE DEF f
<1>14. SameRx(s, d) /\ d.state = s.state /\ d.write_pending = s.write_pending /\ d.fd = s.fd
  BY <1>9, <1>10, <1>11 DEF SameRx, SameControl
<1>15. f \in SocketRecord /\ SameRx(d, f) /\ SameTx(d, f) /\ f.state = d.state
       /\ f.write_pending = FALSE /\ f.fd = d.fd
  BY <1>12, <1>13 DEF Minor, SameRx, SameTx, SameControl
<1>16. /\ t \in SocketRecord /\ SameRx(s, t) /\ t.state = "udp" /\ t.fd = s.fd
       /\ t.write_pending => s.write_pending
  BY <1>7, <1>11, <1>14, <1>15 DEF SameRx
<1>17. t.tx_rr = w /\ t.tx_wr = s.tx_wr /\ t.tx_buffer = s.tx_buffer /\ t.last_send = s.last_send
       /\ t.datagram_count = count /\ t.datagram_lengths = M
  <2>1. d.tx_wr = s.tx_wr /\ d.tx_buffer = s.tx_buffer /\ d.last_send = s.last_send
    BY <1>9, <1>10, <1>11
  <2> QED
    BY <1>7, <1>11, <1>15, <2>1 DEF SameTx
<1>18. RxGood(t, h)
  BY <1>1, <1>16, RxKept DEF Opening
<1>19. t.state \notin Opening /\ t.state \in {"udp", "closed"}
  BY <1>16 DEF Opening
<1>20. CASE n > 0
  <2>1. n \in 0 .. MaxDatagrams /\ n \in 1 .. MaxDatagrams /\ n >= 0 /\ count >= 0 /\ count = n - 1
    BY <1>2, <1>20 DEF count
  <2> DEFINE T == TotalLength(s, n)
             x == Ahead(Aim(s, h), s.tx_rr)
             y == Ahead(s.last_send, s.tx_rr)
  <2>2. QueuedData(s, h) /\ Ordered(s.tx_buffer, s.tx_rr, x)
    BY <1>1, <2>1 DEF TxGood
  <2>3. T = y /\ T <= x
    BY <2>2 DEF QueuedData
  <2>4. T \in Nat /\ L[0] <= T
    BY <1>2, <1>20, <2>1, TotalType
  <2>5. Aim(s, h) \in Pointer /\ Aim(t, h) = Aim(s, h)
    BY <1>2, <1>17, HalvesType DEF Aim
  <2>6. x \in Nat /\ y \in Nat
    BY <1>2, <2>5, AheadType
  <2>7. L[0] <= x /\ L[0] <= y /\ L[0] \in 0 .. x
    BY <1>5, <2>3, <2>4, <2>6
  <2>8. Ahead(Aim(s, h), w) = x - L[0]
    BY <1>2, <1>5, <2>5, <2>7, AheadLess DEF w
  <2>9. Ahead(s.last_send, w) = y - L[0]
    BY <1>2, <1>5, <2>7, AheadLess DEF w
  <2>10. Ordered(s.tx_buffer, w, x - L[0])
    BY <1>2, <2>2, <2>6, <2>7, OrderedRest DEF w
  <2>11. TotalLength(t, n - 1) = T - L[0]
    <3>1. \A i \in 0 .. n - 2 : t.datagram_lengths[i] = s.datagram_lengths[i + 1]
      BY <1>2, <1>8, <1>17, <2>1
    <3> QED
      BY <1>2, <2>1, <3>1, TotalShift
  <2>12. QueuedData(t, h)
    <3>1. t.datagram_count = n - 1
      BY <1>17, <2>1
    <3>2. T - L[0] <= x - L[0]
      BY <1>5, <2>3, <2>4, <2>6
    <3> HIDE DEF T, x, y, L, n
    <3> QED
      BY <1>17, <2>3, <2>5, <2>8, <2>9, <2>11, <3>1, <3>2 DEF QueuedData
  <2>13. TxGood(t, h)
    BY <1>16, <1>17, <1>19, <2>5, <2>8, <2>10, <2>12 DEF TxGood
  <2>14. PendingGood(t, Still(a, t))
    <3>1. CASE count = 0
      <4>1. t.write_pending = FALSE /\ t.datagram_count = 0
        BY <1>7, <1>15, <1>17, <3>1
      <4> QED
        BY <4>1 DEF PendingGood, Still
    <3>2. CASE count # 0
      <4>1. t.write_pending = s.write_pending
        BY <1>7, <1>14, <3>2
      <4>2. t.datagram_count >= 0 /\ t.datagram_count > 0
        BY <1>3, <1>17, <2>1, <3>2
      <4> QED
        BY <4>1, <4>2 DEF PendingGood, Still
    <3> QED
      BY <3>1, <3>2
  <2> QED
    BY <1>16, <1>18, <2>13, <2>14 DEF SockGood
<1>21. CASE n <= 0
  <2>1. count < 0 /\ count # 0 /\ ~(n > 0)
    BY <1>2, <1>21 DEF count
  <2>2. a
    BY <1>1, <2>1 DEF PendingGood
  <2>3. t.write_pending = s.write_pending
    BY <1>7, <1>14, <2>1
  <2>4. PendingGood(t, Still(a, t))
    BY <2>2, <2>3 DEF PendingGood, Still
  <2>5. ~(t.datagram_count >= 0)
    BY <1>3, <1>17, <2>1
  <2>6. TxGood(t, h)
    BY <1>16, <1>19, <2>5 DEF TxGood
  <2> QED
    BY <1>16, <1>18, <2>4, <2>6 DEF SockGood
<1> QED
  BY <1>2, <1>20, <1>21

\* What a read may do: the rest of the socket is as it was.
LEMMA ReadIoGood ==
    ASSUME NEW s, NEW a \in BOOLEAN, NEW h, SockGood(s, a, h), h.to \in Pointer,
           NEW t, t \in ReadIo(s)
    PROVE  /\ SockGood(t, a, h)
           /\ t.write_pending = s.write_pending /\ t.fd = s.fd
           /\ t.datagram_count = s.datagram_count
           /\ \/ t.state = s.state
              \/ s.state = "listen" /\ t.state = "established"
              \/ s.state = "established" /\ t.state = "close_wait"
<1>1. s \in SocketRecord /\ s.rx_rsr \in Nat /\ Ring \in Nat /\ Header \in Nat
  BY Registers, PointerIsNat, W5100Sizes, W5100Assumption DEF SockGood
<1>2. CASE t = s
  BY <1>2
<1>3. ASSUME NEW v \in {"established", "close_wait"}, t = [s EXCEPT !.state = v],
             s.state \in {"listen", "established"},
             s.state = "listen" => v = "established", s.state = "established" => v = "close_wait"
      PROVE  /\ SockGood(t, a, h)
             /\ t.write_pending = s.write_pending /\ t.fd = s.fd /\ t.state = v
             /\ t.datagram_count = s.datagram_count
  <2>1. v \in SocketState /\ v \notin Opening
    BY <1>3 DEF SocketState, Opening
  <2>2. /\ t \in SocketRecord /\ SameRx(s, t) /\ SameTx(s, t) /\ t.state = v
        /\ t.write_pending = s.write_pending /\ t.fd = s.fd
    BY <1>1, <1>3, <2>1, SetState
  <2>3. t.state \in {"listen", "connecting", "established", "close_wait"} /\ t.state \notin Opening
        /\ s.state \in {"init", "listen", "connecting", "established"}
    BY <1>3, <2>1, <2>2
  <2>4. SockGood(t, Still(a, t), h)
    BY <2>2, <2>3, TcpGood
  <2>5. Still(a, t) = a
    BY <2>2, StillSame
  <2> QED
    BY <2>2, <2>4, <2>5 DEF SameTx
<1>4. CASE s.state = "listen" /\ t = [s EXCEPT !.state = "established"]
  <2> DEFINE v == "established"
  <2>1. v \in {"established", "close_wait"} /\ t = [s EXCEPT !.state = v] /\ v = "established"
    BY <1>4
  <2> HIDE DEF v
  <2> QED
    BY <1>3, <1>4, <2>1
<1>5. CASE s.state = "established" /\ t = [s EXCEPT !.state = "close_wait"]
  <2> DEFINE v == "close_wait"
  <2>1. v \in {"established", "close_wait"} /\ t = [s EXCEPT !.state = v] /\ v = "close_wait"
    BY <1>5
  <2> HIDE DEF v
  <2> QED
    BY <1>3, <1>5, <2>1
<1>6. ASSUME NEW n \in Nat, n <= Ring - s.rx_rsr, t = Received(s, n),
             s.state \in {"udp", "established"}
      PROVE  /\ SockGood(t, a, h)
             /\ t.write_pending = s.write_pending /\ t.fd = s.fd /\ t.state = s.state
             /\ t.datagram_count = s.datagram_count
  <2>1. SockGood(t, a, h) /\ SameControl(s, t)
    BY <1>6, ReceivedGood
  <2>2. t.datagram_count = s.datagram_count
    BY <1>1, <1>6 DEF Received, SocketRecord
  <2> QED
    BY <2>1, <2>2 DEF SameControl
<1>7. CASE s.state = "udp" /\ t \in {Received(s, n + Header) : n \in 0 .. Ring - s.rx_rsr - Header}
  <2>1. PICK n \in 0 .. Ring - s.rx_rsr - Header : t = Received(s, n + Header)
    BY <1>7
  <2>2. n + Header \in Nat /\ n + Header <= Ring - s.rx_rsr
    BY <1>1, <2>1
  <2> QED
    BY <1>6, <1>7, <2>1, <2>2
<1>8. CASE s.state = "established" /\ t \in {Received(s, n) : n \in 1 .. Ring - s.rx_rsr}
  <2>1. PICK n \in 1 .. Ring - s.rx_rsr : t = Received(s, n)
    BY <1>8
  <2>2. n \in Nat /\ n <= Ring - s.rx_rsr
    BY <1>1, <2>1
  <2> QED
    BY <1>6, <1>8, <2>1, <2>2
<1>9. \/ t = s
      \/ s.state = "listen" /\ t = [s EXCEPT !.state = "established"]
      \/ s.state = "established" /\ t = [s EXCEPT !.state = "close_wait"]
      \/ s.state = "udp" /\ t \in {Received(s, n + Header) : n \in 0 .. Ring - s.rx_rsr - Header}
      \/ s.state = "established" /\ t \in {Received(s, n) : n \in 1 .. Ring - s.rx_rsr}
  <2>1. CASE ~InReadSet(s)
    BY <2>1 DEF ReadIo
  <2>2. CASE InReadSet(s) /\ s.state = "listen"
    BY <2>2 DEF ReadIo, w5100_socket_process_accept
  <2>3. CASE InReadSet(s) /\ s.state # "listen"
    <3>1. s.state \in {"udp", "established"}
      BY <2>3 DEF InReadSet
    <3>2. t = s \/ t \in w5100_socket_process_read(s)
      BY <2>3 DEF ReadIo
    <3> QED
      BY <3>1, <3>2 DEF w5100_socket_process_read
  <2> QED
    BY <2>1, <2>2, <2>3
<1> QED
  BY <1>2, <1>4, <1>5, <1>7, <1>8, <1>9

\* What is sent in the same call.
LEMMA WriteIoGood ==
    ASSUME NEW s, NEW t, NEW a \in BOOLEAN, NEW h, SockGood(t, a, h), h.to \in Pointer,
           t.write_pending = s.write_pending, t.datagram_count > -MaxStray,
           \/ t.state = s.state
           \/ s.state = "listen" /\ t.state = "established"
           \/ s.state = "established" /\ t.state = "close_wait",
           NEW u, u \in WriteIo(s, t)
    PROVE  SockGood(u, Still(a, u), h)
<1>1. t \in SocketRecord
  BY DEF SockGood
<1>2. CASE u = t
  BY <1>1, <1>2, MinorSelf, MinorGood
<1>3. CASE InWriteSet(s) /\ ~(s.state = "listen" /\ t.state = "established") /\ u \in Written(t)
  <2>1. t.write_pending \/ s.state = "connecting"
    BY <1>3 DEF InWriteSet
  <2>2. CASE t.state = "udp"
    <3>1. u = w5100_socket_process_udp_write(t) /\ t.write_pending
      BY <1>3, <2>1, <2>2 DEF Written
    <3> QED
      BY <2>2, <3>1, UdpWriteGood
  <2>3. CASE t.state = "established"
    <3>1. t.write_pending
      BY <1>3, <2>1, <2>3
    <3>2. PICK n \in (IF Chunk(t) = 0 THEN 0 ELSE 1) .. Chunk(t) :
              u = w5100_socket_process_tcp_write(t, n)
      BY <1>3, <2>3 DEF Written
    <3>3. n \in 0 .. Chunk(t)
      BY <1>1, ChunkIs
    <3> QED
      BY <2>3, <3>1, <3>2, <3>3, TcpWriteGood
  <2>4. CASE t.state = "connecting"
    <3>1. PICK ok \in BOOLEAN : u = w5100_socket_process_connect(t, ok)
      BY <1>3, <2>4 DEF Written
    <3>2. CASE ~ok
      BY <2>4, <3>1, <3>2, RefusedGood DEF w5100_socket_process_connect
    <3>3. CASE ok
      <4> DEFINE v == "established"
      <4>1. u = [t EXCEPT !.state = v] /\ v \in SocketState /\ v = "established"
        BY <3>1, <3>3 DEF w5100_socket_process_connect, SocketState
      <4> HIDE DEF v
      <4>2. /\ u \in SocketRecord /\ SameRx(t, u) /\ SameTx(t, u) /\ u.state = v
            /\ u.write_pending = t.write_pending
        BY <1>1, <4>1, SetState
      <4>3. u.state \in {"listen", "connecting", "established", "close_wait"} /\ u.state \notin Opening
            /\ t.state \in {"init", "listen", "connecting", "established"}
        BY <2>4, <4>1, <4>2 DEF Opening
      <4> QED
        BY <4>2, <4>3, TcpGood
    <3> QED
      BY <3>2, <3>3
  <2>5. CASE t.state \notin {"udp", "established", "connecting"}
    <3>1. u = t
      BY <1>3, <2>5 DEF Written
    <3> QED
      BY <1>2, <3>1
  <2> QED
    BY <2>2, <2>3, <2>4, <2>5
<1> QED
  BY <1>2, <1>3 DEF WriteIo

-----------------------------------------------------------------------------
(* Pointers, a half at a time *)

\* What WriteTxWr0, WriteRxRd0 and WriteLowByte do to a socket.
Filled(s, n, to) == [s EXCEPT !.tx_wr = HighByte(@, to), !.tx_buffer = Stored(@, s.tx_wr, n)]

Taken(s, to) == [s EXCEPT !.rx_rd = HighByte(@, to)]

Completed(s, h) ==
    [s EXCEPT !.tx_wr = IF h.which = "tx_wr" THEN LowByte(@, h.to) ELSE @,
              !.rx_rd = IF h.which = "rx_rd" THEN LowByte(@, h.to) ELSE @]

LEMMA RxOther ==
    ASSUME NEW s, NEW t, NEW h, NEW g, RxGood(s, h), SameRx(s, t), t.state = s.state,
           h.which # "rx_rd", g.which # "rx_rd"
    PROVE  RxGood(t, g)
  BY DEF RxGood, SameRx

LEMMA TxOther ==
    ASSUME NEW s \in SocketRecord, NEW t, NEW h, NEW g, TxGood(s, h), SameTx(s, t), SameControl(s, t),
           h.which # "tx_wr", g.which # "tx_wr"
    PROVE  TxGood(t, g)
<1>1. TxGood(s, g)
  BY DEF TxGood, QueuedData, Aim
<1> QED
  BY <1>1, TxKept DEF SameControl

\* Software fills a part of the ring that is free and writes TX_WR0: the TX_WR
\* that it means is behind what it has put there.
LEMMA TxWrGood ==
    ASSUME NEW s, NEW a \in BOOLEAN, NEW h, SockGood(s, a, h), h.which = "none",
           s.write_pending => s.state = "udp",
           NEW n \in 1 .. Free(s), NEW to, to = (s.tx_wr + n) % Wide,
           NEW t, t = Filled(s, n, to),
           NEW g, g.which = "tx_wr", g.to = to
    PROVE  to \in Pointer /\ SockGood(t, Still(a, t), g)
<1> DEFINE v == HighByte(s.tx_wr, to)
           r == Stored(s.tx_buffer, s.tx_wr, n)
           m == Ahead(s.tx_wr, s.tx_rr)
           b == [s EXCEPT !.tx_wr = v]
           c == [b EXCEPT !.tx_buffer = r]
<1>1. s \in SocketRecord /\ RxGood(s, h) /\ TxGood(s, h) /\ PendingGood(s, a)
  BY DEF SockGood
<1>2. /\ s.tx_wr \in Pointer /\ s.tx_wr \in Nat /\ s.tx_rr \in Pointer /\ s.tx_rr \in Nat
      /\ s.tx_buffer \in [Place -> Pointer] /\ Ring \in Nat /\ Ring > 0 /\ Wide \in Nat /\ Ring < Wide
      /\ Wide > 0
  BY <1>1, Registers, PointerIsNat, W5100Sizes
<1>3. m \in Nat
  BY <1>2, AheadType
<1>4. n \in Nat /\ n > 0 /\ m + n <= Ring
  <2>1. Free(s) = Ring - m
    BY DEF Free, Ahead
  <2> HIDE DEF m
  <2> QED
    BY <1>2, <1>3, <2>1
<1>5. to \in Pointer /\ Ahead(to, s.tx_rr) = m + n
  <2>1. Ahead(s.tx_wr, s.tx_rr) + n < Wide
    BY <1>2, <1>3, <1>4
  <2> QED
    BY <1>2, <1>4, <2>1, AheadMore
<1>6. v \in Pointer /\ LowByte(v, to) = to
  <2>1. v \in Pointer /\ v \div Low = to \div Low
    BY <1>2, <1>5, HalvesType
  <2> HIDE DEF v
  <2> QED
    BY <2>1, <1>5, HalvesType
<1>7. r \in [Place -> Pointer]
  <2>1. n \in 0 .. Ring
    BY <1>2, <1>3, <1>4
  <2> QED
    BY <1>2, <2>1, StoredIs
<1>8. Ordered(s.tx_buffer, s.tx_rr, m) => Ordered(r, s.tx_rr, m + n)
  <2> DEFINE first == s.tx_rr
             start == s.tx_wr
  <2>1. (first + m) % Wide = start
    BY <1>2, AheadTo
  <2>2. first + m \in Int /\ first \in Pointer /\ start \in Nat
    BY <1>2, <1>3
  <2>3. start % Ring = (first + m) % Ring
    BY <2>1, <2>2, PlaceOf
  <2>4. start % Wide = (first + m) % Wide
    <3>1. start \in 0 .. Wide - 1
      BY <1>2 DEF Pointer
    <3>2. start % Wide = start
      BY <1>2, <3>1, ModSmall
    <3> QED
      BY <2>1, <3>2
  <2>5. r = Stored(s.tx_buffer, start, n)
    OBVIOUS
  <2> HIDE DEF first, start, r, m
  <2>6. Ordered(s.tx_buffer, first, m) => Ordered(Stored(s.tx_buffer, start, n), first, m + n)
    BY <1>2, <1>3, <1>4, <2>2, <2>3, <2>4, OrderedStored
  <2>7. Ordered(s.tx_buffer, first, m) => Ordered(r, first, m + n)
    BY <2>5, <2>6
  <2> QED
    BY <2>7 DEF first
<1>9. t = c
  BY DEF Filled
<1> HIDE DEF v, r
<1>10. /\ b \in SocketRecord /\ SameRx(s, b) /\ SameControl(s, b) /\ b.tx_wr = v
       /\ b.tx_rr = s.tx_rr /\ b.last_send = s.last_send
       /\ b.datagram_lengths = s.datagram_lengths /\ b.datagram_count = s.datagram_count
  BY <1>1, <1>6, SetTxWr
<1> HIDE DEF b
<1>11. /\ t \in SocketRecord /\ SameRx(b, t) /\ SameControl(b, t) /\ t.tx_buffer = r
       /\ t.tx_rr = b.tx_rr /\ t.tx_wr = b.tx_wr /\ t.last_send = b.last_send
       /\ t.datagram_lengths = b.datagram_lengths /\ t.datagram_count = b.datagram_count
  BY <1>7, <1>9, <1>10, SetTxBuffer
<1>12. SameRx(s, t) /\ SameControl(s, t)
  BY <1>10, <1>11 DEF SameRx, SameControl
<1>13. /\ t.state = s.state /\ t.write_pending = s.write_pending /\ t.fd = s.fd
       /\ t.datagram_count = s.datagram_count /\ t.tx_rr = s.tx_rr /\ t.last_send = s.last_send
       /\ t.tx_buffer = r /\ t.tx_wr = v /\ t.datagram_lengths = s.datagram_lengths
  BY <1>10, <1>11, <1>12 DEF SameControl
<1>14. RxGood(t, g)
  BY <1>1, <1>12, <1>13, RxOther
<1>15. Aim(t, g) = to /\ Aim(s, h) = s.tx_wr
  BY <1>6, <1>13 DEF Aim
<1>16. TotalLength(t, t.datagram_count) = TotalLength(s, s.datagram_count)
  BY <1>13 DEF TotalLength
<1>17. TxGood(t, g)
  <2>1. ASSUME t.datagram_count >= 0
        PROVE  Ordered(t.tx_buffer, t.tx_rr, Ahead(Aim(t, g), t.tx_rr))
    BY <1>1, <1>5, <1>8, <1>13, <1>15, <2>1 DEF TxGood
  <2>2. ASSUME t.datagram_count >= 0, t.state = "udp"
        PROVE  QueuedData(t, g)
    <3>1. /\ TotalLength(s, s.datagram_count) = Ahead(s.last_send, s.tx_rr)
          /\ TotalLength(s, s.datagram_count) <= m
      BY <1>1, <1>13, <1>15, <2>2 DEF TxGood, QueuedData
    <3>2. Ahead(s.last_send, s.tx_rr) \in Nat
      BY <1>1, Registers, AheadType
    <3> HIDE DEF m
    <3>3. Ahead(s.last_send, s.tx_rr) <= m + n
      BY <1>3, <1>4, <3>1, <3>2
    <3> QED
      BY <1>5, <1>13, <1>15, <1>16, <3>1, <3>3 DEF QueuedData
  <2> QED
    BY <1>1, <1>13, <2>1, <2>2 DEF TxGood
<1>18. PendingGood(t, Still(a, t))
  BY <1>1, <1>13, PendingKept
<1> QED
  BY <1>5, <1>11, <1>14, <1>17, <1>18 DEF SockGood

\* Software writes RX_RD0, for no more than it has read.
LEMMA RxRdGood ==
    ASSUME NEW s, NEW a \in BOOLEAN, NEW h, SockGood(s, a, h), h.which = "none",
           NEW n \in 1 .. s.rx_rsr - ((s.rx_rd - s.old_rx_rd) % Wide),
           NEW to, to = (s.rx_rd + n) % Wide,
           NEW t, t = Taken(s, to),
           NEW g, g.which = "rx_rd", g.to = to
    PROVE  to \in Pointer /\ SockGood(t, Still(a, t), g)
<1> DEFINE v == HighByte(s.rx_rd, to)
           m == Ahead(s.rx_rd, s.old_rx_rd)
<1>1. s \in SocketRecord /\ RxGood(s, h) /\ TxGood(s, h) /\ PendingGood(s, a)
  BY DEF SockGood
<1>2. /\ s.rx_rd \in Pointer /\ s.old_rx_rd \in Pointer /\ s.rx_rsr \in Nat
      /\ Ring \in Nat /\ Wide \in Nat /\ Ring < Wide
  BY <1>1, Registers, PointerIsNat, W5100Sizes
<1>3. m \in Nat
  BY <1>2, AheadType
<1>4. n \in Nat /\ n > 0 /\ m + n <= s.rx_rsr /\ s.rx_rsr <= Ring
  <2>1. n \in 1 .. s.rx_rsr - m
    BY DEF Ahead
  <2>2. s.rx_rsr <= Ring
    BY <1>1 DEF RxGood
  <2> HIDE DEF m
  <2> QED
    BY <1>2, <1>3, <2>1, <2>2
<1>5. to \in Pointer /\ Ahead(to, s.old_rx_rd) = m + n
  <2>1. Ahead(s.rx_rd, s.old_rx_rd) + n < Wide
    BY <1>2, <1>3, <1>4
  <2> QED
    BY <1>2, <1>4, <2>1, AheadMore
<1>6. v \in Pointer /\ v \div Low = to \div Low
  BY <1>2, <1>5, HalvesType
<1>7. t = [s EXCEPT !.rx_rd = v]
  BY DEF Taken
<1> HIDE DEF v
<1>8. /\ t \in SocketRecord /\ SameTx(s, t) /\ SameControl(s, t) /\ t.rx_rd = v
      /\ t.rx_rsr = s.rx_rsr /\ t.old_rx_rd = s.old_rx_rd /\ t.rx_buffer = s.rx_buffer
  BY <1>1, <1>6, <1>7, SetRxRd
<1>9. /\ t.state = s.state /\ t.write_pending = s.write_pending /\ t.fd = s.fd
      /\ t.datagram_count = s.datagram_count
  BY <1>8 DEF SameControl, SameTx
<1>10. Ahead(to, s.old_rx_rd) <= s.rx_rsr /\ s.rx_rsr > 0
  <2> HIDE DEF m
  <2> QED
    BY <1>2, <1>3, <1>4, <1>5
<1>11. RxGood(t, g)
  BY <1>1, <1>6, <1>8, <1>9, <1>10 DEF RxGood
<1>12. TxGood(t, g)
  BY <1>1, <1>8, TxOther
<1>13. PendingGood(t, Still(a, t))
  BY <1>1, <1>9, PendingKept
<1> QED
  BY <1>5, <1>8, <1>11, <1>12, <1>13 DEF SockGood

\* The second half completes the pointer.
LEMMA LowByteGood ==
    ASSUME NEW s, NEW a \in BOOLEAN, NEW h, SockGood(s, a, h), h.which \in {"tx_wr", "rx_rd"},
           h.to \in Pointer,
           NEW t, t = Completed(s, h),
           NEW g, g.which = "none"
    PROVE  SockGood(t, Still(a, t), g)
<1> DEFINE v == IF h.which = "tx_wr" THEN LowByte(s.tx_wr, h.to) ELSE s.tx_wr
           w == IF h.which = "rx_rd" THEN LowByte(s.rx_rd, h.to) ELSE s.rx_rd
           b == [s EXCEPT !.tx_wr = v]
           c == [b EXCEPT !.rx_rd = w]
<1>1. s \in SocketRecord /\ RxGood(s, h) /\ TxGood(s, h) /\ PendingGood(s, a)
  BY DEF SockGood
<1>2. s.tx_wr \in Pointer /\ s.rx_rd \in Pointer
  BY <1>1, Registers
<1>3. v \in Pointer /\ w \in Pointer /\ v = Aim(s, h)
  BY <1>2, HalvesType DEF Aim
<1>4. h.which = "rx_rd" => w = h.to
  <2>1. h.which = "rx_rd" => s.rx_rd \div Low = h.to \div Low
    BY <1>1 DEF RxGood
  <2> QED
    BY <1>2, <2>1, HalvesType
<1>5. h.which # "rx_rd" => w = s.rx_rd
  OBVIOUS
<1>6. t = c
  BY DEF Completed
<1> HIDE DEF v, w
<1>7. /\ b \in SocketRecord /\ SameRx(s, b) /\ SameControl(s, b) /\ b.tx_wr = v
      /\ b.tx_rr = s.tx_rr /\ b.tx_buffer = s.tx_buffer /\ b.last_send = s.last_send
      /\ b.datagram_lengths = s.datagram_lengths /\ b.datagram_count = s.datagram_count
  BY <1>1, <1>3, SetTxWr
<1> HIDE DEF b
<1>8. /\ t \in SocketRecord /\ SameTx(b, t) /\ SameControl(b, t) /\ t.rx_rd = w
      /\ t.rx_rsr = b.rx_rsr /\ t.old_rx_rd = b.old_rx_rd /\ t.rx_buffer = b.rx_buffer
  BY <1>3, <1>6, <1>7, SetRxRd
<1>9. /\ t.state = s.state /\ t.write_pending = s.write_pending /\ t.fd = s.fd
      /\ t.datagram_count = s.datagram_count /\ t.tx_rr = s.tx_rr /\ t.last_send = s.last_send
      /\ t.tx_buffer = s.tx_buffer /\ t.tx_wr = v /\ t.datagram_lengths = s.datagram_lengths
      /\ t.rx_rsr = s.rx_rsr /\ t.old_rx_rd = s.old_rx_rd /\ t.rx_buffer = s.rx_buffer
  BY <1>7, <1>8 DEF SameControl, SameTx, SameRx
<1>10. RxGood(t, g)
  <2>1. Ahead(t.rx_rd, t.old_rx_rd) <= t.rx_rsr
    BY <1>1, <1>4, <1>5, <1>8, <1>9 DEF RxGood
  <2> QED
    BY <1>1, <1>9, <2>1 DEF RxGood
<1>11. Aim(t, g) = Aim(s, h)
  BY <1>3, <1>9 DEF Aim
<1>12. TotalLength(t, t.datagram_count) = TotalLength(s, s.datagram_count)
  BY <1>9 DEF TotalLength
<1>13. TxGood(t, g)
  BY <1>1, <1>9, <1>11, <1>12 DEF TxGood, QueuedData
<1>14. PendingGood(t, Still(a, t))
  BY <1>1, <1>9, PendingKept
<1> QED
  BY <1>8, <1>10, <1>13, <1>14 DEF SockGood
-----------------------------------------------------------------------------
(* The chip *)

\* The pointer of socket k that is half written, if one is.
HalfOf(k) == IF half.socket = k THEN half ELSE NoHalf

\* Each socket is good, with what software is in the middle of.
W5100Inv ==
    /\ W5100TypeOK
    /\ \A k \in Sockets : SockGood(sock[k], k \in aborted, HalfOf(k))

LEMMA HalfType ==
    ASSUME half \in Half, NEW k \in Sockets
    PROVE  /\ HalfOf(k).to \in Pointer
           /\ half = NoHalf => HalfOf(k) = NoHalf /\ HalfOf(k).which = "none"
           /\ HalfOf(k).which = "none" <=> half.socket # k
           /\ half.socket = k => half \in [socket : Sockets, which : {"tx_wr", "rx_rd"}, to : Pointer]
<1>1. k # -1
  BY W5100Assumption
<1>2. 0 \in Pointer
  BY Zeroes
<1>3. CASE half = NoHalf
  BY <1>1, <1>2, <1>3 DEF HalfOf, NoHalf
<1>4. CASE half \in [socket : Sockets, which : {"tx_wr", "rx_rd"}, to : Pointer]
  <2>1. half.socket \in Sockets /\ half.which # "none" /\ half.to \in Pointer
    BY <1>4
  <2>2. half # NoHalf
    BY <2>1, W5100Assumption DEF NoHalf
  <2>3. NoHalf.which = "none" /\ NoHalf.to = 0
    BY DEF NoHalf
  <2> QED
    BY <1>2, <1>4, <2>1, <2>2, <2>3 DEF HalfOf
<1> QED
  BY <1>3, <1>4 DEF Half

\* A step that concerns one socket, and leaves that one good.
LEMMA OneChanged ==
    ASSUME W5100Inv, NEW k \in Sockets, NEW u, sock' = [sock EXCEPT ![k] = u], RecordAborted,
           half' \in Half, \A j \in Sockets \ {k} : HalfOf(j)' = HalfOf(j),
           SockGood(u, Still(k \in aborted, u), HalfOf(k)')
    PROVE  W5100Inv'
<1>1. sock \in [Sockets -> SocketRecord] /\ u \in SocketRecord
  BY DEF W5100Inv, W5100TypeOK, SockGood
<1>2. /\ sock' \in [Sockets -> SocketRecord] /\ sock'[k] = u
      /\ \A j \in Sockets \ {k} : sock'[j] = sock[j]
  BY <1>1
<1>3. \A j \in Sockets : j \in aborted' <=> Still(j \in aborted, sock'[j])
  BY DEF RecordAborted, Still
<1>4. aborted' \subseteq Sockets
  BY DEF RecordAborted
<1>5. ASSUME NEW j \in Sockets
      PROVE  SockGood(sock[j], j \in aborted, HalfOf(j))'
  <2> DEFINE a == j \in aborted
             b == j \in aborted'
             t == sock'[j]
  <2>1. a \in BOOLEAN /\ b \in BOOLEAN /\ (b <=> Still(a, t))
    BY <1>3
  <2>2. b = Still(a, t)
    BY <2>1 DEF Still
  <2>3. CASE j = k
    <3>1. SockGood(t, Still(a, t), HalfOf(k)')
      BY <1>2, <2>3
    <3>2. SockGood(t, b, HalfOf(k)')
      BY <2>2, <3>1
    <3>3. SockGood(sock'[k], k \in aborted', HalfOf(k)')
      BY <2>3, <3>2
    <3> QED
      BY <2>3, <3>3 DEF SockGood
  <2>4. CASE j # k
    <3>1. sock'[j] = sock[j] /\ HalfOf(j)' = HalfOf(j)
      BY <1>2, <2>4
    <3>2. SockGood(sock[j], a, HalfOf(j))
      BY DEF W5100Inv
    <3>3. t.write_pending = sock[j].write_pending /\ t.fd = sock[j].fd
      BY <3>1
    <3> HIDE DEF a, b, t
    <3>4. Still(a, t) = a
      BY <2>1, <3>2, <3>3, StillSame
    <3>5. SockGood(sock[j], b, HalfOf(j))
      BY <2>2, <3>2, <3>4
    <3> QED
      BY <3>1, <3>5 DEF b
  <2> QED
    BY <2>3, <2>4
<1> QED
  BY <1>2, <1>4, <1>5 DEF W5100Inv, W5100TypeOK

\* Starting the port over disturbs nothing.
LEMMA PortOver ==
    ASSUME NEW t, NEW a \in BOOLEAN, NEW g, SockGood(t, Still(a, t), g),
           NEW u, u = [t EXCEPT !.bind_count = 0]
    PROVE  SockGood(u, Still(a, u), g)
<1> DEFINE c == 0
<1>1. t \in SocketRecord /\ c \in 0 .. 1 /\ u = [t EXCEPT !.bind_count = c]
  BY DEF SockGood
<1> HIDE DEF c
<1>2. Minor(t, u)
  BY <1>1, SetBindCount
<1>3. u.write_pending = t.write_pending /\ u.fd = t.fd
  BY <1>2 DEF Minor, SameControl
<1>4. Still(a, t) \in BOOLEAN
  BY <1>1, Registers DEF Still
<1>5. SockGood(u, Still(Still(a, t), u), g)
  BY <1>2, <1>4, MinorGood
<1>6. Still(Still(a, t), u) <=> Still(a, u)
  BY <1>3 DEF Still
<1>7. Still(Still(a, t), u) = Still(a, u)
  BY <1>6 DEF Still
<1> QED
  BY <1>5, <1>7

\* A write to a register of a socket, when no pointer is half written.
LEMMA AccessedKeeps ==
    ASSUME W5100Inv, NEW k \in Sockets, NEW t, Accessed(k, t), RecordAborted,
           half' \in Half, \A j \in Sockets \ {k} : HalfOf(j)' = HalfOf(j),
           SockGood(t, Still(k \in aborted, t), HalfOf(k)')
    PROVE  W5100Inv'
<1> DEFINE u == [t EXCEPT !.bind_count = 0]
           a == k \in aborted
<1>1. sock' = [sock EXCEPT ![k] = u]
  BY DEF Accessed
<1>2. a \in BOOLEAN /\ SockGood(t, Still(a, t), HalfOf(k)')
  OBVIOUS
<1>3. u = [t EXCEPT !.bind_count = 0]
  OBVIOUS
<1> HIDE DEF u, a
<1>4. SockGood(u, Still(a, u), HalfOf(k)')
  BY <1>2, <1>3, PortOver
<1>5. SockGood(u, Still(k \in aborted, u), HalfOf(k)')
  BY <1>4 DEF a
<1> QED
  BY <1>1, <1>5, OneChanged

LEMMA W5100Starts == W5100Init => W5100Inv
<1> SUFFICES ASSUME W5100Init
             PROVE  W5100Inv
  OBVIOUS
<1> DEFINE s == SocketCreated
<1>1. half \in Half /\ half = NoHalf
  BY DEF W5100Init, Half
<1>2. 0 \in Pointer /\ 0 \in -MaxStray .. MaxDatagrams
  BY Zeroes
<1>3. s \in SocketRecord
  BY <1>2 DEF SocketCreated, SocketRecord, SocketMode, SocketState
<1>4. /\ s.tx_rr = 0 /\ s.tx_wr = 0 /\ s.rx_rsr = 0 /\ s.rx_rd = 0 /\ s.old_rx_rd = 0
      /\ s.last_send = 0 /\ s.datagram_count = 0 /\ s.state = "closed" /\ s.fd = FALSE
      /\ s.write_pending = FALSE
  BY DEF SocketCreated
<1> HIDE DEF s
<1>5. Cleaned(s)
  BY <1>3, <1>4 DEF Cleaned
<1>6. PendingGood(s, FALSE)
  BY <1>4 DEF PendingGood
<1>7. ASSUME NEW k \in Sockets
      PROVE  SockGood(sock[k], k \in aborted, HalfOf(k))
  <2>1. HalfOf(k).which = "none"
    BY <1>1, HalfType
  <2>2. sock[k] = s /\ (k \in aborted) = FALSE
    BY DEF W5100Init, s
  <2>3. RxGood(s, HalfOf(k)) /\ TxGood(s, HalfOf(k))
    BY <1>5, <2>1, CleanedRings
  <2>4. SockGood(s, FALSE, HalfOf(k))
    BY <1>3, <1>6, <2>3 DEF SockGood
  <2> QED
    BY <2>2, <2>4
<1>8. W5100TypeOK
  BY <1>1, <1>3 DEF W5100TypeOK, W5100Init, s
<1> QED
  BY <1>7, <1>8 DEF W5100Inv
\* What a command leaves good may be followed by the start of the port.
LEMMA CommandKeeps ==
    ASSUME W5100Inv, half = NoHalf, UNCHANGED half, RecordAborted, NEW k \in Sockets,
           NEW t, Accessed(k, t), SockGood(t, Still(k \in aborted, t), HalfOf(k))
    PROVE  W5100Inv'
<1>1. half' \in Half /\ \A j \in Sockets : HalfOf(j)' = HalfOf(j)
  BY DEF W5100Inv, W5100TypeOK, HalfOf
<1>2. SockGood(t, Still(k \in aborted, t), HalfOf(k)')
  BY <1>1
<1> QED
  BY <1>1, <1>2, AccessedKeeps

LEMMA WriteRegisterStep ==
    ASSUME W5100Inv, half = NoHalf, UNCHANGED half, RecordAborted, NEW k \in Sockets,
           WriteMr(k) \/ WriteCr(k) \/ WriteIr(k) \/ WritePort(k)
    PROVE  W5100Inv'
<1> DEFINE s == sock[k]
           a == k \in aborted
           h == HalfOf(k)
<1>1. half \in Half /\ s \in SocketRecord /\ a \in BOOLEAN /\ SockGood(s, a, h)
  BY DEF W5100Inv, W5100TypeOK
<1>2. h.which = "none"
  BY <1>1, HalfType
<1>3. \A t : Accessed(k, t) /\ SockGood(t, Still(a, t), h) => W5100Inv'
  BY CommandKeeps
<1>4. CASE WriteMr(k)
  <2>1. PICK m \in SocketMode : Accessed(k, [s EXCEPT !.mode = m])
    BY <1>4 DEF WriteMr
  <2> DEFINE t == [s EXCEPT !.mode = m]
  <2> HIDE DEF s, a, h
  <2>2. Minor(s, t)
    BY <1>1, SetMode
  <2> HIDE DEF t
  <2>3. SockGood(t, Still(a, t), h)
    BY <1>1, <2>2, MinorGood
  <2> QED
    BY <1>3, <2>1, <2>3 DEF t
<1>5. CASE WriteIr(k)
  <2> DEFINE v == FALSE
             t == [s EXCEPT !.send_ok = v]
  <2>1. Accessed(k, t) /\ v \in BOOLEAN
    BY <1>5 DEF WriteIr
  <2> HIDE DEF s, a, h, v
  <2>2. Minor(s, t)
    BY <1>1, <2>1, SetSendOk
  <2> HIDE DEF t
  <2>3. SockGood(t, Still(a, t), h)
    BY <1>1, <2>2, MinorGood
  <2> QED
    BY <1>3, <2>1, <2>3
<1>6. CASE WritePort(k)
  <2>1. PICK ok \in BOOLEAN : sock' = [sock EXCEPT ![k] = w5100_write_socket_port(s, ok)]
    BY <1>6 DEF WritePort
  <2> DEFINE u == w5100_write_socket_port(s, ok)
  <2>2. SockGood(u, Still(a, u), h)
    <3> HIDE DEF s, a, h
    <3> QED
      BY <1>1, <1>2, PortGood
  <2>3. half' \in Half /\ \A j \in Sockets : HalfOf(j)' = HalfOf(j)
    BY <1>1 DEF HalfOf
  <2>4. sock' = [sock EXCEPT ![k] = u]
    BY <2>1
  <2> HIDE DEF u
  <2>5. SockGood(u, Still(k \in aborted, u), HalfOf(k)')
    BY <2>2, <2>3
  <2> QED
    BY <2>3, <2>4, <2>5, OneChanged
<1>7. CASE WriteCr(k)
  <2>1. PICK ok \in BOOLEAN, bound \in BOOLEAN :
            \/ Accessed(k, w5100_socket_open(s, ok))
            \/ Accessed(k, w5100_socket_listen(s, bound, ok))
            \/ \E x \in {"fail", "progress", "ok"} : Accessed(k, w5100_socket_connect(s, bound, x))
            \/ Accessed(k, w5100_socket_discon(s))
            \/ Accessed(k, w5100_socket_close(s))
            \/ s.datagram_count \in 0 .. MaxDatagrams - 1 /\ Accessed(k, w5100_socket_send(s, bound))
            \/ Accessed(k, w5100_socket_recv(s))
    BY <1>7 DEF WriteCr
  <2> HIDE DEF s, a, h
  <2>2. CASE Accessed(k, w5100_socket_open(s, ok))
    BY <1>1, <1>2, <1>3, <2>2, OpenGood
  <2>3. CASE Accessed(k, w5100_socket_listen(s, bound, ok))
    BY <1>1, <1>2, <1>3, <2>3, ListenGood
  <2>4. CASE \E x \in {"fail", "progress", "ok"} : Accessed(k, w5100_socket_connect(s, bound, x))
    <3>1. PICK x \in {"fail", "progress", "ok"} : Accessed(k, w5100_socket_connect(s, bound, x))
      BY <2>4
    <3> QED
      BY <1>1, <1>2, <1>3, <3>1, ConnectGood
  <2>5. CASE Accessed(k, w5100_socket_discon(s))
    BY <1>1, <1>2, <1>3, <2>5, DisconGood
  <2>6. CASE Accessed(k, w5100_socket_close(s))
    BY <1>1, <1>2, <1>3, <2>6, CloseGood
  <2>7. CASE s.datagram_count \in 0 .. MaxDatagrams - 1 /\ Accessed(k, w5100_socket_send(s, bound))
    BY <1>1, <1>2, <1>3, <2>7, SendGood
  <2>8. CASE Accessed(k, w5100_socket_recv(s))
    BY <1>1, <1>2, <1>3, <2>8, RecvGood
  <2> QED
    BY <2>1, <2>2, <2>3, <2>4, <2>5, <2>6, <2>7, <2>8
<1> QED
  BY <1>4, <1>5, <1>6, <1>7

LEMMA WriteHighStep ==
    ASSUME W5100Inv, half = NoHalf, RecordAborted, NEW k \in Sockets,
           WriteTxWr0(k) \/ WriteRxRd0(k)
    PROVE  W5100Inv'
<1> DEFINE s == sock[k]
           a == k \in aborted
           h == HalfOf(k)
<1>1. half \in Half /\ s \in SocketRecord /\ a \in BOOLEAN /\ SockGood(s, a, h)
  BY DEF W5100Inv, W5100TypeOK
<1>2. h.which = "none" /\ \A j \in Sockets : HalfOf(j) = NoHalf
  BY <1>1, HalfType
<1>3. ASSUME NEW to \in Pointer, NEW w \in {"tx_wr", "rx_rd"}, NEW t, Accessed(k, t),
             half' = [socket |-> k, which |-> w, to |-> to],
             SockGood(t, Still(a, t), half')
      PROVE  W5100Inv'
  <2>1. half' \in Half
    BY <1>3 DEF Half
  <2>2. half'.socket = k
    BY <1>3
  <2>3. HalfOf(k)' = half' /\ \A j \in Sockets \ {k} : HalfOf(j)' = NoHalf
    BY <2>2 DEF HalfOf
  <2>4. \A j \in Sockets \ {k} : HalfOf(j)' = HalfOf(j)
    BY <1>2, <2>3
  <2>5. SockGood(t, Still(k \in aborted, t), HalfOf(k)')
    BY <1>3, <2>3
  <2> QED
    BY <1>3, <2>1, <2>4, <2>5, AccessedKeeps
<1>4. CASE WriteTxWr0(k)
  <2>1. s.write_pending => s.state = "udp"
    BY <1>4 DEF WriteTxWr0
  <2>2. PICK n \in 1 .. Free(s) :
            /\ Accessed(k, Filled(s, n, (s.tx_wr + n) % Wide))
            /\ half' = [socket |-> k, which |-> "tx_wr", to |-> (s.tx_wr + n) % Wide]
    BY <1>4 DEF WriteTxWr0, Filled
  <2> DEFINE to == (s.tx_wr + n) % Wide
             w == "tx_wr"
             t == Filled(s, n, to)
  <2>3. /\ Accessed(k, t) /\ half' = [socket |-> k, which |-> w, to |-> to]
        /\ w \in {"tx_wr", "rx_rd"} /\ w = "tx_wr" /\ to = (s.tx_wr + n) % Wide
    BY <2>2
  <2> HIDE DEF s, a, h, w, to
  <2>4. half'.which = w /\ half'.to = to
    BY <2>3
  <2>5. to \in Pointer /\ SockGood(t, Still(a, t), half')
    BY <1>1, <1>2, <2>1, <2>3, <2>4, TxWrGood
  <2> HIDE DEF t
  <2> QED
    BY <1>3, <2>3, <2>5
<1>5. CASE WriteRxRd0(k)
  <2>1. PICK n \in 1 .. s.rx_rsr - ((s.rx_rd - s.old_rx_rd) % Wide) :
            /\ Accessed(k, Taken(s, (s.rx_rd + n) % Wide))
            /\ half' = [socket |-> k, which |-> "rx_rd", to |-> (s.rx_rd + n) % Wide]
    BY <1>5 DEF WriteRxRd0, Taken
  <2> DEFINE to == (s.rx_rd + n) % Wide
             w == "rx_rd"
             t == Taken(s, to)
  <2>2. /\ Accessed(k, t) /\ half' = [socket |-> k, which |-> w, to |-> to]
        /\ w \in {"tx_wr", "rx_rd"} /\ w = "rx_rd" /\ to = (s.rx_rd + n) % Wide
    BY <2>1
  <2> HIDE DEF s, a, h, w, to
  <2>3. half'.which = w /\ half'.to = to
    BY <2>2
  <2>4. to \in Pointer /\ SockGood(t, Still(a, t), half')
    BY <1>1, <1>2, <2>2, <2>3, RxRdGood
  <2> HIDE DEF t
  <2> QED
    BY <1>3, <2>2, <2>4
<1> QED
  BY <1>4, <1>5

LEMMA WriteLowStep ==
    ASSUME W5100Inv, RecordAborted, WriteLowByte
    PROVE  W5100Inv'
<1>1. half \in Half /\ half # NoHalf /\ half' = NoHalf
  BY DEF W5100Inv, W5100TypeOK, WriteLowByte
<1>2. half.socket \in Sockets /\ half.which \in {"tx_wr", "rx_rd"} /\ half.to \in Pointer
  BY <1>1 DEF Half
<1> PICK k \in Sockets : k = half.socket
  BY <1>2
<1> DEFINE s == sock[k]
           a == k \in aborted
           t == Completed(s, half)
<1>3. Accessed(k, t)
  BY DEF WriteLowByte, Completed
<1>4. a \in BOOLEAN /\ SockGood(s, a, half)
  BY <1>2 DEF W5100Inv, HalfOf
<1>5. half' \in Half /\ NoHalf.which = "none"
  BY <1>1 DEF Half, NoHalf
<1>6. \A j \in Sockets : HalfOf(j)' = NoHalf
  BY <1>1 DEF HalfOf
<1>7. \A j \in Sockets \ {k} : HalfOf(j) = NoHalf
  BY DEF HalfOf
<1>8. SockGood(t, Still(a, t), NoHalf)
  <2> HIDE DEF s, a
  <2> QED
    BY <1>2, <1>4, <1>5, LowByteGood
<1> HIDE DEF t
<1>9. SockGood(t, Still(k \in aborted, t), HalfOf(k)')
  BY <1>2, <1>6, <1>8
<1> QED
  BY <1>2, <1>3, <1>5, <1>6, <1>7, <1>9, AccessedKeeps

LEMMA W5100ResetStep ==
    ASSUME W5100Inv, RecordAborted, W5100Reset
    PROVE  W5100Inv'
<1>1. half \in Half /\ half = NoHalf /\ half' = half
  BY DEF W5100Inv, W5100TypeOK, W5100Reset
<1>2. \A j \in Sockets : HalfOf(j)' = HalfOf(j) /\ HalfOf(j).which = "none"
  BY <1>1, HalfType DEF HalfOf
<1>3. ASSUME NEW j \in Sockets
      PROVE  SockGood(sock[j], j \in aborted, HalfOf(j))'
  <2> DEFINE s == sock[j]
             t == sock'[j]
             a == j \in aborted
             b == j \in aborted'
             h == HalfOf(j)
  <2>1. SockGood(s, a, h) /\ a \in BOOLEAN
    BY DEF W5100Inv
  <2>2. t = nic_w5100_socket_reset(s)
    BY DEF W5100Reset
  <2>3. b <=> Still(a, t)
    BY DEF RecordAborted, Still
  <2>4. b = Still(a, t)
    BY <2>3 DEF Still
  <2>5. h.which = "none" /\ HalfOf(j)' = h
    BY <1>2
  <2>6. SockGood(t, Still(a, t), h)
    <3> HIDE DEF s, t, a, b, h
    <3> QED
      BY <2>1, <2>2, <2>5, ResetGood
  <2>7. SockGood(t, b, h)
    BY <2>4, <2>6
  <2> QED
    BY <2>5, <2>7
<1>4. \A j \in Sockets : sock'[j] \in SocketRecord
  BY <1>3 DEF SockGood
<1>5. W5100TypeOK'
  BY <1>1, <1>4 DEF W5100TypeOK, W5100Reset, RecordAborted
<1> QED
  BY <1>3, <1>5 DEF W5100Inv

LEMMA W5100ProcessStep ==
    ASSUME W5100Inv, RecordAborted, W5100Process
    PROVE  W5100Inv'
<1>1. PICK k \in Scanned :
          LET s == [sock[k] EXCEPT !.ok_for_io = @ \/ sock[k].fd]
          IN  /\ s.datagram_count > -MaxStray
              /\ \E t \in ReadIo(s) : \E u \in WriteIo(s, t) : sock' = [sock EXCEPT ![k] = u]
              /\ UNCHANGED half
  BY DEF W5100Process
<1> DEFINE p == sock[k]
           v == p.ok_for_io \/ p.fd
           s == [p EXCEPT !.ok_for_io = v]
           a == k \in aborted
           h == HalfOf(k)
<1>2. k \in Sockets /\ half \in Half /\ half' = half
  BY <1>1 DEF Scanned, W5100Inv, W5100TypeOK
<1>3. h.to \in Pointer /\ half' \in Half /\ \A j \in Sockets : HalfOf(j)' = HalfOf(j)
  BY <1>2, HalfType DEF HalfOf
<1>4. p \in SocketRecord /\ SockGood(p, a, h) /\ a \in BOOLEAN
  BY <1>2 DEF W5100Inv, W5100TypeOK
<1>5. v \in BOOLEAN
  BY <1>4 DEF SocketRecord
<1>6. s.datagram_count > -MaxStray
  BY <1>1
<1>7. PICK t \in ReadIo(s) : \E u \in WriteIo(s, t) : sock' = [sock EXCEPT ![k] = u]
  BY <1>1
<1>8. PICK u \in WriteIo(s, t) : sock' = [sock EXCEPT ![k] = u]
  BY <1>7
<1>9. SockGood(u, Still(a, u), h)
  <2> HIDE DEF p, v, a, h
  <2>1. Minor(p, s)
    BY <1>4, <1>5, SetOkForIo
  <2> HIDE DEF s
  <2>2. SockGood(s, Still(a, s), h)
    BY <1>4, <2>1, MinorGood
  <2>3. s.write_pending = p.write_pending /\ s.fd = p.fd
    BY <2>1 DEF Minor, SameControl
  <2>4. Still(a, s) = a
    BY <1>4, <2>3, StillSame
  <2>5. SockGood(s, a, h)
    BY <2>2, <2>4
  <2>6. /\ SockGood(t, a, h)
        /\ t.write_pending = s.write_pending /\ t.datagram_count = s.datagram_count
        /\ \/ t.state = s.state
           \/ s.state = "listen" /\ t.state = "established"
           \/ s.state = "established" /\ t.state = "close_wait"
    BY <1>3, <1>4, <2>5, ReadIoGood
  <2> QED
    BY <1>3, <1>4, <1>6, <2>6, WriteIoGood
<1>10. SockGood(u, Still(k \in aborted, u), HalfOf(k)')
  BY <1>2, <1>3, <1>9
<1> QED
  BY <1>2, <1>3, <1>8, <1>10, OneChanged

LEMMA W5100Step == W5100Inv /\ [W5100Next]_w5100Vars => W5100Inv'
<1> SUFFICES ASSUME W5100Inv, [W5100Next]_w5100Vars
             PROVE  W5100Inv'
  OBVIOUS
<1>1. CASE UNCHANGED w5100Vars
  BY <1>1 DEF w5100Vars, W5100Inv, W5100TypeOK, HalfOf
<1>2. CASE WriteLowByte /\ RecordAborted
  BY <1>2, WriteLowStep
<1>3. CASE W5100Reset /\ RecordAborted
  BY <1>3, W5100ResetStep
<1>4. CASE W5100Process /\ RecordAborted
  BY <1>4, W5100ProcessStep
<1>5. ASSUME NEW k \in Sockets, half = NoHalf, RecordAborted, UNCHANGED half,
             WriteMr(k) \/ WriteCr(k) \/ WriteIr(k) \/ WritePort(k)
      PROVE  W5100Inv'
  BY <1>5, WriteRegisterStep
<1>6. ASSUME NEW k \in Sockets, half = NoHalf, RecordAborted, WriteTxWr0(k) \/ WriteRxRd0(k)
      PROVE  W5100Inv'
  BY <1>6, WriteHighStep
<1> QED
  BY <1>1, <1>2, <1>3, <1>4, <1>5, <1>6 DEF W5100Next, W5100Cpu

LEMMA W5100RxHolds == W5100Inv => W5100RxInStep
<1> SUFFICES ASSUME W5100Inv, NEW k \in Sockets
             PROVE  LET s == sock[k]
                    IN  /\ s.rx_rsr <= Ring
                        /\ Whole(k, "rx_rd") => (s.rx_rd - s.old_rx_rd) % Wide <= s.rx_rsr
                        /\ \A i \in 0 .. s.rx_rsr - 1 :
                               s.rx_buffer[(s.old_rx_rd + i) % Ring] = (s.old_rx_rd + i) % Wide
  BY DEF W5100RxInStep
<1>1. RxGood(sock[k], HalfOf(k))
  BY DEF W5100Inv, SockGood
<1>2. Whole(k, "rx_rd") => HalfOf(k).which # "rx_rd"
  BY DEF Whole, HalfOf, NoHalf
<1> QED
  BY <1>1, <1>2 DEF RxGood, Ordered, Ahead

LEMMA W5100TxHolds == W5100Inv => W5100TxInStep
<1> SUFFICES ASSUME W5100Inv, NEW k \in Sockets \ aborted
             PROVE  LET s == sock[k]
                    IN  /\ Whole(k, "tx_wr") =>
                               \A i \in 0 .. ((s.tx_wr - s.tx_rr) % Wide) - 1 :
                                   s.tx_buffer[(s.tx_rr + i) % Ring] = (s.tx_rr + i) % Wide
                        /\ s.state = "udp" =>
                               /\ s.write_pending <=> s.datagram_count > 0
                               /\ (s.tx_rr + TotalLength(s, s.datagram_count)) % Wide = s.last_send
  BY DEF W5100TxInStep
<1> DEFINE s == sock[k]
           h == HalfOf(k)
<1>1. s \in SocketRecord /\ TxGood(s, h) /\ PendingGood(s, k \in aborted)
  BY DEF W5100Inv, SockGood
<1>2. s.datagram_count >= 0 /\ (s.state = "udp" => (s.write_pending <=> s.datagram_count > 0))
  BY <1>1 DEF PendingGood
<1>3. Whole(k, "tx_wr") => h.which # "tx_wr"
  BY DEF Whole, HalfOf, NoHalf
<1>4. Whole(k, "tx_wr") => Ordered(s.tx_buffer, s.tx_rr, Ahead(s.tx_wr, s.tx_rr))
  BY <1>1, <1>2, <1>3 DEF TxGood, Aim
<1>5. s.state = "udp" => (s.tx_rr + TotalLength(s, s.datagram_count)) % Wide = s.last_send
  <2>1. s.state = "udp" => TotalLength(s, s.datagram_count) = Ahead(s.last_send, s.tx_rr)
    BY <1>1, <1>2 DEF TxGood, QueuedData
  <2>2. s.tx_rr \in Pointer /\ s.last_send \in Pointer
    BY <1>1, Registers
  <2>3. (s.tx_rr + Ahead(s.last_send, s.tx_rr)) % Wide = s.last_send
    BY <2>2, AheadTo
  <2> QED
    BY <2>1, <2>3
<1> QED
  BY <1>2, <1>4, <1>5 DEF Ordered, Ahead

\* The sockets of the W5100 keep their types, for any sizes of ring and pointer
\* and any number of sockets, under software that gives no more SENDs between two
\* calls of w5100_process than datagram_lengths has room for: w5100_socket_send
\* does not look whether there is.
THEOREM W5100TypeCorrect == W5100Spec => []W5100TypeOK
<1>1. W5100Inv => W5100TypeOK
  BY DEF W5100Inv
<1> QED
  BY <1>1, W5100Starts, W5100Step, PTL DEF W5100Spec

\* The receive ring always holds the next bytes of the stream, each in its
\* place, and never more than fit: also when w5100_process runs between the
\* halves of a new RX_RD or between RX_RD and RECV, and however often the
\* pointers have gone round.
THEOREM W5100Receives == W5100Spec => []W5100RxInStep
  BY W5100Starts, W5100Step, W5100RxHolds, PTL DEF W5100Spec

\* What software has handed over and the host has not taken is in the transmit
\* ring, and the queue of datagrams cuts it where SEND was given, unless the
\* socket was closed under a pending write.
THEOREM W5100Transmits == W5100Spec => []W5100TxInStep
  BY W5100Starts, W5100Step, W5100TxHolds, PTL DEF W5100Spec

-----------------------------------------------------------------------------
(* The PS/2 keyboard *)

\* The bits of the frame that the host has been given, the one on the line apart,
Sent(p) == DataBits + 3 - p.count

\* and bit i of the frame of b.
BitOf(b, i) == (Frame(b) \div Pow2[i]) % 2

\* The byte being sent is still the first of its queue.
HeadIs(p) ==
    IF p.replymode THEN p.rbuffer # <<>> /\ p.rbuffer[1] = p.last_sent
    ELSE p.buffer # <<>> /\ p.buffer[1] = p.last_sent

\* In the middle of a frame the shift register holds what is left of it, and
\* the bit on the line is the next one.
KeySendGood(p) ==
    /\ p.count \in 1 .. DataBits + 3
    /\ p.clock_out = IF p.step = 2 THEN 0 ELSE 1
    /\ p.send = Frame(p.last_sent) \div Pow2[IF p.step = 0 THEN Sent(p) ELSE Sent(p) + 1]
    /\ p.step = 1 => p.data_out = BitOf(p.last_sent, Sent(p))

Busy(p) == p.busy = TRUE <=> p.state # "idle"

Waits(p) == p.step \in 0 .. 3 /\ p.wait >= 1

KeyboardGood(p) ==
    /\ p \in KeyboardState
    /\ Busy(p)
    /\ p.state \in {"idle", "send_wait"} => p.clock_out = 1
    /\ p.state \in {"send_wait", "send"} => HeadIs(p)
    /\ p.state = "send_wait" => p.count = DataBits + 3 /\ p.send = Frame(p.last_sent)
    /\ p.state \in {"send", "receive", "ack"} => Waits(p)
    /\ p.state = "receive" => p.count \in 1 .. DataBits + 2
    /\ p.state = "send" => KeySendGood(p)

\* The host has read the bits of the frame up to the one on the line, or has held
\* a line down at one of them.
HeardWhole(p, h) ==
    /\ h \in Seq(0 .. 1)
    /\ Len(h) = IF p.step >= 2 THEN Sent(p) + 1 ELSE Sent(p)
    /\ \A i \in 1 .. Len(h) : h[i] = BitOf(p.last_sent, i - 1)

HeardGood(p, h) ==
    IF p.state # "send" THEN h = <<>> ELSE h = Broken \/ HeardWhole(p, h)

\* The turns of the loop that use no clocks before one that does.
FreeBit(p) ==
    IF p.clock_in = 0
    THEN CASE p.state = "receive" -> 2 [] p.state = "send" -> 1 [] p.state = "wait_host" -> 1 [] OTHER -> 0
    ELSE CASE p.state = "wait_host_2" -> 1 [] p.state = "send_wait" -> 1 [] OTHER -> 0

Uses(p, clocks, q, left) == left <= 0 \/ left + FreeBit(q) <= (clocks + FreeBit(p)) - 1

\* What a turn of the loop with the bits h may do.
StepGoes(p, h, clocks, r) ==
    /\ KeyboardGood(r.ps2) /\ r.clocks \in Int
    /\ r.ps2.clock_in = p.clock_in
    /\ HeardGood(r.ps2, Hear(h, p, r.ps2))
    /\ Uses(p, clocks, r.ps2, r.clocks)
    /\ p.state = "send" /\ Queued(r.ps2) < Queued(p) =>
           Leaves(p, r.ps2) = p.last_sent /\ (h = Broken \/ Len(h) = DataBits + 3)

LEMMA Ps2Constants ==
    /\ DataBits \in Nat /\ BitToClock \in Nat \ {0} /\ SendByte \in Nat \ {0} /\ BufSize \in Nat \ {0}
    /\ BitToClock \in 0 .. SendByte + BitToClock /\ SendByte \in 0 .. SendByte + BitToClock
  BY Ps2Assumption

LEMMA ThenIs ==
    ASSUME NEW p, NEW c
    PROVE  Then(p, c).ps2 = p /\ Then(p, c).clocks = c
  BY DEF Then

LEMMA FrameType ==
    ASSUME NEW b \in Byte
    PROVE  Frame(b) \in Word(DataBits + 3)
<1> DEFINE P == Pow2[DataBits]
           x == IF Ones(b) % 2 = 0 THEN Pow2[DataBits + 1] ELSE 0
<1>1. DataBits \in Nat /\ DataBits + 1 \in Nat /\ DataBits + 2 \in Nat
      /\ DataBits + 2 = (DataBits + 1) + 1 /\ DataBits + 3 = (DataBits + 2) + 1
  BY Ps2Constants
<1>2. P \in Nat \ {0} /\ Pow2[DataBits + 1] = 2 * P
  BY <1>1, Pow2Is
<1>3. Pow2[DataBits + 2] = 2 * Pow2[DataBits + 1] /\ Pow2[DataBits + 3] = 2 * Pow2[DataBits + 2]
  BY <1>1, Pow2Is
<1>4. b \in 0 .. P - 1
  BY DEF Byte, Word
<1>5. Frame(b) = b * 2 + x + Pow2[DataBits + 2]
  BY DEF Frame
<1> HIDE DEF P
<1>6. x \in 0 .. 2 * P
  BY <1>2
<1> HIDE DEF x
<1>7. Frame(b) \in 0 .. Pow2[DataBits + 3] - 1
  BY <1>2, <1>3, <1>4, <1>5, <1>6
<1> QED
  BY <1>7 DEF Word

\* Queues.
LEMMA QueueAdds ==
    ASSUME NEW s \in Queue, NEW b \in Byte, Len(s) # BufSize
    PROVE  /\ Append(s, b) \in Queue /\ Append(s, b) # <<>>
           /\ s # <<>> => Append(s, b)[1] = s[1]
<1>1. s \in Seq(Byte) /\ Len(s) <= BufSize /\ BufSize \in Nat
  BY Ps2Constants DEF Queue
<1>2. Append(s, b) \in Seq(Byte) /\ Len(Append(s, b)) = Len(s) + 1 /\ Append(s, b) # <<>>
  BY <1>1
<1>3. ASSUME s # <<>>  PROVE Append(s, b)[1] = s[1]
  BY <1>1, <1>3
<1>4. Len(Append(s, b)) <= BufSize
  BY <1>1, <1>2
<1> QED
  BY <1>2, <1>3, <1>4 DEF Queue

LEMMA QueueDrops ==
    ASSUME NEW s \in Queue, s # <<>>
    PROVE  Tail(s) \in Queue /\ Len(Tail(s)) = Len(s) - 1 /\ s[1] \in Byte /\ Len(s) \in Nat \ {0}
           /\ Tail(s) # s
<1>1. s \in Seq(Byte) /\ Len(s) <= BufSize /\ BufSize \in Nat
  BY Ps2Constants DEF Queue
<1>2. Tail(s) \in Seq(Byte) /\ Len(Tail(s)) = Len(s) - 1 /\ s[1] \in Byte /\ Len(s) \in Nat \ {0}
  BY <1>1
<1>3. PICK n \in Nat \ {0} : n = Len(s)
  BY <1>2
<1>4. PICK m \in Nat : m = n - 1
  OBVIOUS
<1>5. m = Len(Tail(s)) /\ n <= BufSize
  BY <1>1, <1>2, <1>3, <1>4, Zenon
<1>6. m <= BufSize /\ m # n
  BY <1>1, <1>4, <1>5
<1>7. Tail(s) # s
  BY <1>3, <1>5, <1>6, Zenon
<1> QED
  BY <1>2, <1>5, <1>6, <1>7, Zenon DEF Queue

LEMMA QueueLen ==
    ASSUME NEW s \in Queue
    PROVE  Len(s) \in Nat
  BY DEF Queue

LEMMA IdleIs ==
    ASSUME NEW p \in KeyboardState, NEW q, q = ps2_idle(p)
    PROVE  /\ q \in KeyboardState /\ q.state = "idle" /\ q.clock_out = 1 /\ q.busy = FALSE
           /\ q.clock_in = p.clock_in /\ q.rbuffer = p.rbuffer /\ q.buffer = p.buffer
<1>1. 1 \in 0 .. 1 /\ FALSE \in BOOLEAN
  OBVIOUS
<1>2. q \in KeyboardState
  BY <1>1, ZenonT(60) DEF ps2_idle, KeyboardState
<1> QED
  BY <1>2, SMT DEF ps2_idle, KeyboardState

LEMMA KeyIdleGood ==
    ASSUME NEW q \in KeyboardState, q.state = "idle", q.clock_out = 1, q.busy = FALSE
    PROVE  KeyboardGood(q) /\ q.state # "send"
  BY DEF KeyboardGood, Busy

LEMMA AbortIs ==
    ASSUME NEW p \in KeyboardState, p.busy, NEW q, q = ps2_abort(p)
    PROVE  /\ q \in KeyboardState /\ q.state = "wait_host" /\ KeyboardGood(q)
           /\ q.clock_in = p.clock_in /\ q.rbuffer = p.rbuffer /\ q.buffer = p.buffer
<1>1. q \in KeyboardState
  BY ZenonT(60) DEF ps2_abort, KeyboardState
<1>2. q.state = "wait_host" /\ q.clock_in = p.clock_in
      /\ q.rbuffer = p.rbuffer /\ q.buffer = p.buffer
  BY SMT DEF ps2_abort, KeyboardState
<1>3. q.busy = TRUE
  BY ZenonT(60) DEF ps2_abort, KeyboardState
<1>4. KeyboardGood(q)
  BY <1>1, <1>2, <1>3 DEF KeyboardGood, Busy
<1> QED
  BY <1>1, <1>2, <1>4

\* A turn that ends outside a frame and takes nothing from a queue while it
\* began in one.
LEMMA GoesOut ==
    ASSUME NEW p, NEW h, NEW clocks, NEW q, NEW left \in Int, KeyboardGood(q), q.state # "send",
           q.clock_in = p.clock_in, Uses(p, clocks, q, left),
           p.state = "send" => q.rbuffer = p.rbuffer /\ q.buffer = p.buffer
    PROVE  StepGoes(p, h, clocks, Then(q, left))
<1>1. Hear(h, p, q) = <<>>
  BY DEF Hear
<1>2. HeardGood(q, Hear(h, p, q))
  BY <1>1 DEF HeardGood
<1>3. p.state = "send" => ~(Queued(q) < Queued(p))
  <2> SUFFICES ASSUME p.state = "send"  PROVE ~(Queued(q) < Queued(p))
    OBVIOUS
  <2>1. q.rbuffer \in Queue /\ q.buffer \in Queue
    BY DEF KeyboardGood, KeyboardState
  <2>2. Len(q.rbuffer) \in Nat /\ Len(q.buffer) \in Nat
    BY <2>1, QueueLen
  <2>3. PICK m \in Nat, n \in Nat : m = Len(q.rbuffer) /\ n = Len(q.buffer)
    BY <2>2, Zenon
  <2>4. Queued(q) = m + n /\ Queued(p) = m + n
    BY <2>3, Zenon DEF Queued
  <2>5. PICK k \in Nat : k = m + n
    OBVIOUS
  <2>6. ~(k < k)
    OBVIOUS
  <2> QED
    BY <2>4, <2>5, <2>6, Zenon
<1> QED
  BY <1>2, <1>3, ThenIs DEF StepGoes

LEMMA IdleGoes ==
    ASSUME NEW p, KeyboardGood(p), p.state = "idle", NEW h, HeardGood(p, h), NEW clocks \in Nat \ {0}
    PROVE  StepGoes(p, h, clocks, ps2_state_idle(p, clocks))
<1>1. p \in KeyboardState /\ 0 \in Int
  BY DEF KeyboardGood
<1>2. CASE p.clock_in = 0
  <2> DEFINE b == [p EXCEPT !.busy = TRUE]
             q == ps2_abort(b)
  <2>1. b \in KeyboardState /\ b.busy /\ b.clock_in = p.clock_in
    BY <1>1, ZenonT(60) DEF KeyboardState
  <2>2. ps2_state_idle(p, clocks) = Then(q, 0)
    BY <1>2 DEF ps2_state_idle
  <2> HIDE DEF b
  <2>3. KeyboardGood(q) /\ q.state = "wait_host" /\ q.clock_in = p.clock_in
    BY <2>1, AbortIs
  <2> HIDE DEF q
  <2>4. Uses(p, clocks, q, 0)
    BY DEF Uses
  <2> QED
    BY <1>1, <2>2, <2>3, <2>4, GoesOut
<1>3. CASE p.clock_in # 0
  <2>1. ps2_state_idle(p, clocks) = Then(p, 0)
    BY <1>3 DEF ps2_state_idle
  <2>2. Uses(p, clocks, p, 0)
    BY DEF Uses
  <2> QED
    BY <1>1, <2>1, <2>2, GoesOut
<1> QED
  BY <1>2, <1>3

LEMMA WaitHostGoes ==
    ASSUME NEW p, KeyboardGood(p), p.state = "wait_host", NEW h, HeardGood(p, h), NEW clocks \in Nat \ {0}
    PROVE  StepGoes(p, h, clocks, ps2_wait_host(p, clocks))
<1>1. p \in KeyboardState /\ 0 \in Int /\ Busy(p)
  BY DEF KeyboardGood
<1>2. CASE p.clock_in = 1
  <2> DEFINE q == ps2_idle(p)
  <2>1. ps2_wait_host(p, clocks) = Then(q, 0)
    BY <1>2 DEF ps2_wait_host
  <2>2. KeyboardGood(q) /\ q.state # "send" /\ q.clock_in = p.clock_in
    BY <1>1, IdleIs, KeyIdleGood
  <2>3. Uses(p, clocks, q, 0)
    BY DEF Uses
  <2> QED
    BY <1>1, <2>1, <2>2, <2>3, GoesOut
<1>3. CASE p.clock_in # 1 /\ p.data_in = 0
  <2> DEFINE q == [p EXCEPT !.state = "wait_host_2"]
  <2>1. q \in KeyboardState
    BY <1>1, ZenonT(60) DEF KeyboardState
  <2>2. q.state = "wait_host_2" /\ q.busy = p.busy /\ q.clock_in = p.clock_in
    BY <1>1, SMT DEF KeyboardState
  <2>3. ps2_wait_host(p, clocks) = Then(q, clocks)
    BY <1>3 DEF ps2_wait_host
  <2> HIDE DEF q
  <2>4. KeyboardGood(q)
    BY <1>1, <2>1, <2>2 DEF KeyboardGood, Busy
  <2>5. p.clock_in = 0
    BY <1>1, <1>3 DEF KeyboardState
  <2>6. FreeBit(p) = 1 /\ FreeBit(q) = 0
    BY <2>2, <2>5 DEF FreeBit
  <2>7. Uses(p, clocks, q, clocks) /\ clocks \in Int
    BY <2>6 DEF Uses
  <2> QED
    BY <2>2, <2>3, <2>4, <2>7, GoesOut
<1>4. CASE p.clock_in # 1 /\ p.data_in # 0
  <2>1. ps2_wait_host(p, clocks) = Then(p, 0)
    BY <1>4 DEF ps2_wait_host
  <2>2. Uses(p, clocks, p, 0)
    BY DEF Uses
  <2> QED
    BY <1>1, <2>1, <2>2, GoesOut
<1> QED
  BY <1>2, <1>3, <1>4

LEMMA WaitHost2Goes ==
    ASSUME NEW p, KeyboardGood(p), p.state = "wait_host_2", NEW h, HeardGood(p, h), NEW clocks \in Nat \ {0}
    PROVE  StepGoes(p, h, clocks, ps2_wait_host_2(p, clocks))
<1>1. p \in KeyboardState /\ 0 \in Int /\ Busy(p)
  BY DEF KeyboardGood
<1>2. CASE p.clock_in = 0
  <2>1. ps2_wait_host_2(p, clocks) = Then(p, 0)
    BY <1>2 DEF ps2_wait_host_2
  <2>2. Uses(p, clocks, p, 0)
    BY DEF Uses
  <2> QED
    BY <1>1, <2>1, <2>2, GoesOut
<1>3. CASE p.clock_in # 0
  <2> DEFINE c == DataBits + 2
             q == [p EXCEPT !.state = "receive", !.count = c, !.receive = 0,
                            !.step = 0, !.wait = BitToClock]
  <2>1. ps2_wait_host_2(p, clocks) = Then(q, clocks)
    BY <1>3 DEF ps2_wait_host_2
  <2>2. c \in 0 .. DataBits + 3 /\ c \in 1 .. DataBits + 2 /\ BitToClock \in 0 .. SendByte + BitToClock
        /\ BitToClock >= 1 /\ 0 \in 0 .. 4 /\ 0 \in Word(c)
    <3>1. c \in Nat /\ Pow2[c] \in Nat \ {0}
      BY Ps2Constants, Pow2Is
    <3> QED
      BY <3>1, Ps2Constants DEF Word
  <2>3. Word(DataBits + 2) = Word(c)
    OBVIOUS
  <2> HIDE DEF c
  <2>4. q \in KeyboardState
    BY <1>1, <2>2, <2>3, ZenonT(60) DEF KeyboardState
  <2>5. q.state = "receive" /\ q.busy = p.busy /\ q.clock_in = p.clock_in /\ q.count = c /\ q.step = 0
        /\ q.wait = BitToClock
    BY <1>1, SMT DEF KeyboardState
  <2> HIDE DEF q
  <2>6. KeyboardGood(q)
    BY <1>1, <2>2, <2>4, <2>5 DEF KeyboardGood, Busy, Waits
  <2>7. FreeBit(p) = 1 /\ FreeBit(q) = 0
    BY <1>3, <2>5 DEF FreeBit
  <2>8. Uses(p, clocks, q, clocks) /\ clocks \in Int
    BY <2>7 DEF Uses
  <2> QED
    BY <2>1, <2>5, <2>6, <2>8, GoesOut
<1> QED
  BY <1>2, <1>3

\* A turn that stays in a frame or begins one.
LEMMA GoesIn ==
    ASSUME NEW p, KeyboardGood(p), NEW h, NEW clocks \in Nat \ {0}, NEW left \in Int,
           NEW q \in KeyboardState, q.state = "send", Busy(q), Waits(q), KeySendGood(q),
           q.clock_in = p.clock_in, q.last_sent = p.last_sent, q.replymode = p.replymode,
           q.rbuffer = p.rbuffer, q.buffer = p.buffer, p.state \in {"send_wait", "send"},
           HeardGood(q, Hear(h, p, q)), Uses(p, clocks, q, left)
    PROVE  StepGoes(p, h, clocks, Then(q, left))
<1>1. HeadIs(q)
  <2>1. HeadIs(p)
    BY DEF KeyboardGood
  <2> QED
    BY <2>1, Zenon DEF HeadIs
<1>2. KeyboardGood(q)
  BY <1>1 DEF KeyboardGood
<1>3. Queued(q) = Queued(p)
  BY Zenon DEF Queued
<1>4. ~(Queued(p) < Queued(p))
  <2>1. p.rbuffer \in Queue /\ p.buffer \in Queue
    BY DEF KeyboardGood, KeyboardState
  <2>2. PICK m \in Nat, n \in Nat : m = Len(p.rbuffer) /\ n = Len(p.buffer)
    BY <2>1, QueueLen, Zenon
  <2>3. PICK k \in Nat : k = m + n
    OBVIOUS
  <2>4. ~(k < k)
    OBVIOUS
  <2> QED
    BY <2>2, <2>3, <2>4, Zenon DEF Queued
<1>5. ~(Queued(q) < Queued(p))
  BY <1>3, <1>4, Zenon
<1> QED
  BY <1>2, <1>5, ThenIs DEF StepGoes

LEMMA SendWaitGoes ==
    ASSUME NEW p, KeyboardGood(p), p.state = "send_wait", NEW h, HeardGood(p, h), NEW clocks \in Nat \ {0}
    PROVE  StepGoes(p, h, clocks, ps2_send_wait(p, clocks))
<1>1. p \in KeyboardState /\ 0 \in Int /\ Busy(p)
  BY DEF KeyboardGood
<1>2. CASE p.clock_in = 0
  <2>1. ps2_send_wait(p, clocks) = Then(p, 0)
    BY <1>2 DEF ps2_send_wait
  <2>2. Uses(p, clocks, p, 0)
    BY DEF Uses
  <2> QED
    BY <1>1, <2>1, <2>2, GoesOut
<1>3. CASE p.clock_in # 0
  <2> DEFINE q == [p EXCEPT !.state = "send", !.wait = SendByte, !.step = 0]
  <2>1. ps2_send_wait(p, clocks) = Then(q, clocks)
    BY <1>3 DEF ps2_send_wait
  <2>2. SendByte \in 0 .. SendByte + BitToClock /\ SendByte >= 1 /\ 0 \in 0 .. 4 /\ DataBits \in Nat
    BY Ps2Constants
  <2>3. q \in KeyboardState
    BY <1>1, <2>2, ZenonT(60) DEF KeyboardState
  <2>4. /\ q.state = "send" /\ q.clock_in = p.clock_in /\ q.step = 0 /\ q.wait = SendByte
        /\ q.count = p.count /\ q.send = p.send /\ q.last_sent = p.last_sent
        /\ q.clock_out = p.clock_out /\ q.rbuffer = p.rbuffer /\ q.buffer = p.buffer
    BY <1>1, SMT DEF KeyboardState
  <2>5. q.busy = p.busy /\ q.replymode = p.replymode
    BY <1>1, ZenonT(60) DEF KeyboardState
  <2> HIDE DEF q
  <2>6. p.clock_out = 1 /\ p.count = DataBits + 3 /\ p.send = Frame(p.last_sent)
    BY DEF KeyboardGood
  <2>7. Sent(q) = 0
    BY <2>2, <2>4, <2>6 DEF Sent
  <2>8. Frame(p.last_sent) \div Pow2[0] = Frame(p.last_sent)
    <3>1. p.last_sent \in Byte
      BY <1>1 DEF KeyboardState
    <3>2. Frame(p.last_sent) \in Word(DataBits + 3)
      BY <3>1, FrameType
    <3>3. PICK f \in Nat : f = Frame(p.last_sent)
      BY <3>2 DEF Word
    <3>4. f = f * 1 + 0
      OBVIOUS
    <3>5. f \div 1 = f
      BY <3>4, DivIs
    <3> QED
      BY <3>3, <3>5, Pow2Is
  <2>9. KeySendGood(q)
    BY <2>2, <2>4, <2>6, <2>7, <2>8 DEF KeySendGood
  <2>10. Waits(q) /\ Busy(q)
    <3>1. Waits(q)
      BY <2>2, <2>4 DEF Waits
    <3>2. Busy(q)
      BY <1>1, <2>4, <2>5 DEF Busy
    <3> QED
      BY <3>1, <3>2
  <2>11. HeardGood(q, Hear(h, p, q))
    <3>1. h = <<>>
      BY DEF HeardGood
    <3>2. Hear(h, p, q) = h
      BY <2>4, <2>6 DEF Hear
    <3>3. <<>> \in Seq(0 .. 1) /\ Len(<<>>) = 0 /\ \A i \in 1 .. 0 : FALSE
      OBVIOUS
    <3>4. ~(q.step >= 2)
      BY <2>4
    <3>5. HeardGood(q, <<>>)
      BY <2>4, <2>7, <3>3, <3>4, Zenon DEF HeardGood, HeardWhole
    <3> QED
      BY <3>1, <3>2, <3>5
  <2>12. FreeBit(p) = 1 /\ FreeBit(q) = 0
    BY <1>3, <2>4 DEF FreeBit
  <2>13. Uses(p, clocks, q, clocks) /\ clocks \in Int
    BY <2>12 DEF Uses
  <2> QED
    BY <2>1, <2>3, <2>4, <2>5, <2>9, <2>10, <2>11, <2>13, GoesIn
<1> QED
  BY <1>2, <1>3

\* Not all of the wait is over.
LEMMA WaitingGoes ==
    ASSUME NEW p, KeyboardGood(p), p.state \in {"send", "receive", "ack"}, NEW h, HeardGood(p, h),
           NEW clocks \in Nat \ {0}, clocks - p.wait < 0
    PROVE  StepGoes(p, h, clocks, Timed(p, clocks))
<1> DEFINE w == p.wait - clocks
           q == [p EXCEPT !.wait = w]
<1>1. p \in KeyboardState /\ Busy(p) /\ Waits(p) /\ 0 \in Int
  BY DEF KeyboardGood
<1>2. w \in 0 .. SendByte + BitToClock /\ w >= 1
  <2>1. p.wait \in 0 .. SendByte + BitToClock
    BY <1>1 DEF KeyboardState
  <2> QED
    BY <2>1, Ps2Constants
<1>3. Timed(p, clocks) = Then(q, 0)
  <2>1. PICK left \in Int : left = clocks - p.wait
    BY <1>1 DEF KeyboardState
  <2>2. left < 0 /\ ~(left >= 0)
    BY <2>1
  <2> QED
    BY <2>1, <2>2, Zenon DEF Timed
<1> HIDE DEF w
<1>4. q \in KeyboardState
  BY <1>1, <1>2, ZenonT(60) DEF KeyboardState
<1>5. /\ q.state = p.state /\ q.clock_in = p.clock_in /\ q.step = p.step /\ q.wait = w
      /\ q.count = p.count /\ q.send = p.send /\ q.last_sent = p.last_sent
      /\ q.clock_out = p.clock_out /\ q.rbuffer = p.rbuffer /\ q.buffer = p.buffer
      /\ q.data_out = p.data_out
  BY <1>1, SMT DEF KeyboardState
<1>6. q.busy = p.busy /\ q.replymode = p.replymode
  BY <1>1, ZenonT(60) DEF KeyboardState
<1> HIDE DEF q
<1>7. Waits(q)
  BY <1>1, <1>2, <1>5 DEF Waits
<1>8. Busy(q)
  BY <1>1, <1>5, <1>6 DEF Busy
<1>9. Uses(p, clocks, q, 0)
  BY DEF Uses
<1>10. CASE p.state = "send"
  <2>1. Sent(q) = Sent(p)
    BY <1>5 DEF Sent
  <2>2. KeySendGood(q)
    BY <1>5, <1>10, <2>1 DEF KeyboardGood, KeySendGood
  <2>3. Hear(h, p, q) = h
    BY <1>5, <1>10 DEF Hear
  <2>4. HeardGood(q, h)
    BY <1>5, <1>10, <2>1, Zenon DEF HeardGood, HeardWhole
  <2> QED
    BY <1>1, <1>3, <1>4, <1>5, <1>6, <1>7, <1>8, <1>9, <1>10, <2>2, <2>3, <2>4, GoesIn
<1>11. CASE p.state # "send"
  <2>1. KeyboardGood(q)
    BY <1>4, <1>5, <1>7, <1>8, <1>11 DEF KeyboardGood
  <2> QED
    BY <1>1, <1>3, <1>5, <1>9, <1>11, <2>1, GoesOut
<1> QED
  BY <1>10, <1>11

\* The wait is over: the same keyboard at its next step.
LEMMA NextStepIs ==
    ASSUME NEW p \in KeyboardState, p.step \in 0 .. 3, NEW q, q = [p EXCEPT !.step = p.step + 1]
    PROVE  /\ q \in KeyboardState /\ q.step = p.step + 1
           /\ q.state = p.state /\ q.clock_in = p.clock_in /\ q.data_in = p.data_in
           /\ q.count = p.count /\ q.send = p.send /\ q.last_sent = p.last_sent
           /\ q.clock_out = p.clock_out /\ q.data_out = p.data_out /\ q.receive = p.receive
           /\ q.rbuffer = p.rbuffer /\ q.buffer = p.buffer
           /\ q.busy = p.busy /\ q.replymode = p.replymode
<1> DEFINE n == p.step + 1
<1>1. n \in 0 .. 4
  OBVIOUS
<1>2. q = [p EXCEPT !.step = n]
  OBVIOUS
<1> HIDE DEF n
<1>3. q \in KeyboardState
  BY <1>1, <1>2, ZenonT(60) DEF KeyboardState
<1>4. /\ q.step = n /\ q.state = p.state /\ q.clock_in = p.clock_in /\ q.data_in = p.data_in
      /\ q.count = p.count /\ q.send = p.send /\ q.last_sent = p.last_sent
      /\ q.clock_out = p.clock_out /\ q.data_out = p.data_out /\ q.receive = p.receive
      /\ q.rbuffer = p.rbuffer /\ q.buffer = p.buffer
  BY <1>2, SMT DEF KeyboardState
<1>5. q.busy = p.busy /\ q.replymode = p.replymode
  BY <1>2, ZenonT(60) DEF KeyboardState
<1> QED
  BY <1>3, <1>4, <1>5 DEF n

LEMMA TimedIs ==
    ASSUME NEW p, KeyboardGood(p), p.state \in {"send", "receive", "ack"}, NEW clocks \in Nat \ {0},
           ~(clocks - p.wait < 0), NEW q, q = [p EXCEPT !.step = p.step + 1],
           NEW left, left = clocks - p.wait
    PROVE  /\ left \in Int /\ left >= 0 /\ left <= clocks - 1
           /\ p.state = "send" => Timed(p, clocks) = SendStep(q, left)
           /\ p.state = "receive" => Timed(p, clocks) = ReceiveStep(q, left)
           /\ p.state = "ack" => Timed(p, clocks) = AckStep(q, left)
<1>1. p \in KeyboardState /\ Waits(p)
  BY DEF KeyboardGood
<1>2. left \in Int /\ left >= 0 /\ left <= clocks - 1 /\ ~(left < 0)
  BY <1>1 DEF KeyboardState, Waits
<1>3. p.state = "send" => p.state # "receive" /\ p.state # "ack"
  OBVIOUS
<1>4. p.state = "receive" => p.state # "send" /\ p.state # "ack"
  OBVIOUS
<1>5. p.state = "ack" => p.state # "receive" /\ p.state # "send"
  OBVIOUS
<1>6. ~(clocks - p.wait < 0) /\ clocks - p.wait >= 0
  BY <1>2
<1>7. p.state = "send" => Timed(p, clocks) = SendStep(q, left)
  BY <1>3, <1>6, Zenon DEF Timed
<1>8. p.state = "receive" => Timed(p, clocks) = ReceiveStep(q, left)
  BY <1>4, <1>6, Zenon DEF Timed
<1>9. p.state = "ack" => Timed(p, clocks) = AckStep(q, left)
  BY <1>5, <1>6, Zenon DEF Timed
<1> QED
  BY <1>2, <1>7, <1>8, <1>9

\* A step of a frame that uses a clock.
LEMMA UsesOne ==
    ASSUME NEW p, NEW q, NEW clocks \in Nat, NEW left \in Int, left <= clocks - 1,
           p.state = "send", q.state = "send", q.clock_in = p.clock_in
    PROVE  Uses(p, clocks, q, left) /\ Uses(p, clocks, q, left - 1)
<1>1. FreeBit(q) = FreeBit(p) /\ FreeBit(p) \in 0 .. 1
  BY DEF FreeBit
<1> QED
  BY <1>1 DEF Uses

LEMMA BitTimeType ==
    ASSUME NEW n \in Nat, NEW x \in Word(n)
    PROVE  x \div 2 \in Word(n) /\ x % 2 \in 0 .. 1 /\ x \in Nat
<1>1. Pow2[n] \in Nat \ {0}
  BY Pow2Is
<1>2. x \in 0 .. Pow2[n] - 1 /\ x \in Nat
  BY <1>1 DEF Word
<1>3. x \div 2 \in 0 .. x /\ x % 2 \in 0 .. 1
  BY <1>2, DivSmall, DivMod
<1> QED
  BY <1>1, <1>2, <1>3 DEF Word

\* The next bit goes on the line.
LEMMA PutsBit ==
    ASSUME NEW p, KeyboardGood(p), p.state = "send", p.step = 0, p.clock_in = 1, NEW h, HeardGood(p, h),
           NEW clocks \in Nat \ {0}, NEW q, q = [p EXCEPT !.step = p.step + 1],
           NEW left \in Int, left <= clocks - 1
    PROVE  StepGoes(p, h, clocks, SendStep(q, left))
<1> DEFINE bit == p.send % 2
           rest == p.send \div 2
           r == [q EXCEPT !.data_out = bit, !.send = rest, !.wait = BitToClock]
<1>1. p \in KeyboardState /\ Busy(p) /\ KeySendGood(p) /\ DataBits \in Nat
  BY Ps2Constants DEF KeyboardGood
<1>2. /\ q \in KeyboardState /\ q.step = 1
      /\ q.state = p.state /\ q.clock_in = p.clock_in
      /\ q.count = p.count /\ q.send = p.send /\ q.last_sent = p.last_sent
      /\ q.clock_out = p.clock_out /\ q.rbuffer = p.rbuffer /\ q.buffer = p.buffer
      /\ q.busy = p.busy /\ q.replymode = p.replymode
  BY <1>1, NextStepIs
<1>3. SendStep(q, left) = Then(r, left - 1)
  <2>1. q.step = 1 /\ q.clock_in = 1 /\ q.clock_in # 0 /\ q.step # 2 /\ q.step # 3 /\ q.step # 4
    BY <1>2
  <2>2. r = [q EXCEPT !.data_out = q.send % 2, !.send = q.send \div 2, !.wait = BitToClock]
    BY <1>2
  <2> HIDE DEF r
  <2> QED
    BY <2>1, <2>2, Zenon DEF SendStep
<1>4. bit \in 0 .. 1 /\ rest \in Word(DataBits + 3)
  <2>1. p.send \in Word(DataBits + 3)
    BY <1>1 DEF KeyboardState
  <2> QED
    BY <1>1, <2>1, BitTimeType
<1>5. PICK k \in Nat : k = Sent(p)
  BY <1>1 DEF KeySendGood, Sent
<1>6. bit = BitOf(p.last_sent, k) /\ rest = Frame(p.last_sent) \div Pow2[k + 1]
  <2>1. p.send = Frame(p.last_sent) \div Pow2[k]
    BY <1>1, <1>5, Zenon DEF KeySendGood
  <2>2. p.last_sent \in Byte
    BY <1>1 DEF KeyboardState
  <2>3. Frame(p.last_sent) \in Nat
    BY <1>1, <2>2, FrameType, BitTimeType
  <2>4. Pow2[k] \in Nat \ {0} /\ Pow2[k + 1] = 2 * Pow2[k]
    BY Pow2Is
  <2>5. rest = Frame(p.last_sent) \div (2 * Pow2[k])
    BY <2>1, <2>3, <2>4, DivHalf
  <2> QED
    BY <2>1, <2>4, <2>5 DEF BitOf
<1> HIDE DEF bit, rest
<1>7. BitToClock \in 0 .. SendByte + BitToClock /\ BitToClock >= 1
  BY Ps2Constants
<1>8. r \in KeyboardState
  BY <1>2, <1>4, <1>7, ZenonT(200) DEF KeyboardState
<1>9. /\ r.state = "send" /\ r.clock_in = p.clock_in /\ r.step = 1 /\ r.wait = BitToClock
      /\ r.count = p.count /\ r.send = rest /\ r.last_sent = p.last_sent /\ r.data_out = bit
      /\ r.clock_out = p.clock_out /\ r.rbuffer = p.rbuffer /\ r.buffer = p.buffer
  BY <1>2, SMT DEF KeyboardState
<1>10. r.busy = p.busy /\ r.replymode = p.replymode
  BY <1>2, ZenonT(60) DEF KeyboardState
<1> HIDE DEF r
<1>11. Sent(r) = k
  BY <1>5, <1>9, Zenon DEF Sent
<1>12. p.clock_out = 1 /\ p.count \in 1 .. DataBits + 3
  BY <1>1 DEF KeySendGood
<1>13. KeySendGood(r)
  BY <1>6, <1>9, <1>11, <1>12 DEF KeySendGood
<1>14. Waits(r) /\ Busy(r)
  <2>1. Waits(r)
    BY <1>7, <1>9 DEF Waits
  <2>2. Busy(r)
    BY <1>1, <1>9, <1>10 DEF Busy
  <2> QED
    BY <2>1, <2>2
<1>15. HeardGood(r, Hear(h, p, r))
  <2>1. Hear(h, p, r) = h
    BY <1>9, <1>12 DEF Hear
  <2>2. \/ h = Broken
        \/ h \in Seq(0 .. 1) /\ Len(h) = k /\ \A i \in 1 .. Len(h) : h[i] = BitOf(p.last_sent, i - 1)
    BY <1>5 DEF HeardGood, HeardWhole
  <2>3. ~(r.step >= 2)
    BY <1>9
  <2> QED
    BY <1>9, <1>11, <2>1, <2>2, <2>3, Zenon DEF HeardGood, HeardWhole
<1>16. Uses(p, clocks, r, left - 1)
  BY <1>9, UsesOne
<1> QED
  BY <1>3, <1>8, <1>9, <1>10, <1>13, <1>14, <1>15, <1>16, GoesIn

\* The host holds the clock: the frame is given up.
LEMMA GivesUp ==
    ASSUME NEW p, KeyboardGood(p), p.state = "send", p.step = 0, p.clock_in = 0, NEW h,
           NEW clocks \in Nat \ {0}, NEW q, q = [p EXCEPT !.step = p.step + 1],
           NEW left \in Int, left <= clocks - 1
    PROVE  StepGoes(p, h, clocks, SendStep(q, left))
<1>1. p \in KeyboardState /\ Busy(p) /\ KeySendGood(p) /\ DataBits \in Nat
  BY Ps2Constants DEF KeyboardGood
<1>2. /\ q \in KeyboardState /\ q.step = 1
      /\ q.state = p.state /\ q.clock_in = p.clock_in
      /\ q.count = p.count /\ q.send = p.send /\ q.last_sent = p.last_sent
      /\ q.clock_out = p.clock_out /\ q.data_out = p.data_out
      /\ q.rbuffer = p.rbuffer /\ q.buffer = p.buffer
      /\ q.busy = p.busy /\ q.replymode = p.replymode
  BY <1>1, NextStepIs
<1>3. SendStep(q, left) = Then(ps2_abort(q), left)
  <2>1. q.step = 1 /\ q.clock_in = 0 /\ q.clock_in # 1 /\ q.step # 2 /\ q.step # 3 /\ q.step # 4
    BY <1>2
  <2> QED
    BY <2>1, Zenon DEF SendStep
<1> DEFINE r == ps2_abort(q)
<1>4. q.busy
  BY <1>1, <1>2 DEF Busy
<1>5. /\ KeyboardGood(r) /\ r.state = "wait_host"
      /\ r.clock_in = p.clock_in /\ r.rbuffer = p.rbuffer /\ r.buffer = p.buffer
  <2>1. PICK c : c = ps2_abort(q)
    OBVIOUS
  <2>2. q \in KeyboardState
    BY <1>2
  <2>3. /\ KeyboardGood(c) /\ c.state = "wait_host"
        /\ c.clock_in = q.clock_in /\ c.rbuffer = q.rbuffer /\ c.buffer = q.buffer
    BY <1>4, <2>1, <2>2, AbortIs
  <2> QED
    BY <1>2, <2>1, <2>3, Zenon
<1> HIDE DEF r
<1>6. FreeBit(r) = 1 /\ FreeBit(p) = 1
  BY <1>5 DEF FreeBit
<1>7. Uses(p, clocks, r, left)
  BY <1>6 DEF Uses
<1> QED
  BY <1>3, <1>5, <1>7, GoesOut DEF r

\* The clock falls: the host takes the bit.
LEMMA GivesBit ==
    ASSUME NEW p, KeyboardGood(p), p.state = "send", p.step = 1, NEW h, HeardGood(p, h),
           NEW clocks \in Nat \ {0}, NEW q, q = [p EXCEPT !.step = p.step + 1],
           NEW left \in Int, left <= clocks - 1
    PROVE  StepGoes(p, h, clocks, SendStep(q, left))
<1> DEFINE r == [q EXCEPT !.clock_out = 0, !.wait = BitToClock]
<1>1. p \in KeyboardState /\ Busy(p) /\ KeySendGood(p) /\ DataBits \in Nat
  BY Ps2Constants DEF KeyboardGood
<1>2. /\ q \in KeyboardState /\ q.step = 2
      /\ q.state = p.state /\ q.clock_in = p.clock_in
      /\ q.count = p.count /\ q.send = p.send /\ q.last_sent = p.last_sent
      /\ q.clock_out = p.clock_out /\ q.data_out = p.data_out
      /\ q.rbuffer = p.rbuffer /\ q.buffer = p.buffer
      /\ q.busy = p.busy /\ q.replymode = p.replymode
  BY <1>1, NextStepIs
<1>3. SendStep(q, left) = Then(r, left - 1)
  <2>1. q.step = 2 /\ q.step # 1 /\ q.step # 3 /\ q.step # 4
    BY <1>2
  <2> QED
    BY <2>1, Zenon DEF SendStep
<1>5. PICK k \in Nat : k = Sent(p)
  BY <1>1 DEF KeySendGood, Sent
<1>7. BitToClock \in 0 .. SendByte + BitToClock /\ BitToClock >= 1 /\ 0 \in 0 .. 1
  BY Ps2Constants
<1>8. r \in KeyboardState
  BY <1>2, <1>7, ZenonT(60) DEF KeyboardState
<1>9. /\ r.state = "send" /\ r.clock_in = p.clock_in /\ r.step = 2 /\ r.wait = BitToClock
      /\ r.count = p.count /\ r.send = p.send /\ r.last_sent = p.last_sent /\ r.data_out = p.data_out
      /\ r.clock_out = 0 /\ r.rbuffer = p.rbuffer /\ r.buffer = p.buffer
  BY <1>2, SMT DEF KeyboardState
<1>10. r.busy = p.busy /\ r.replymode = p.replymode
  BY <1>2, ZenonT(60) DEF KeyboardState
<1> HIDE DEF r
<1>11. Waits(r) /\ Busy(r)
  <2>1. Waits(r)
    BY <1>7, <1>9 DEF Waits
  <2>2. Busy(r)
    BY <1>1, <1>9, <1>10 DEF Busy
  <2> QED
    BY <2>1, <2>2
<1>12. Sent(r) = k
  BY <1>5, <1>9, Zenon DEF Sent
<1>13. p.clock_out = 1 /\ p.count \in 1 .. DataBits + 3 /\ p.data_out = BitOf(p.last_sent, k)
       /\ p.send = Frame(p.last_sent) \div Pow2[k + 1]
  BY <1>1, <1>5 DEF KeySendGood
<1>14. KeySendGood(r)
  BY <1>9, <1>12, <1>13 DEF KeySendGood
<1>15. HeardGood(r, Hear(h, p, r))
  <2>1. CASE h # Broken /\ p.clock_in = 1 /\ r.data_in = 1
    <3>1. Hear(h, p, r) = Append(h, p.data_out)
      BY <1>9, <1>13, <2>1 DEF Hear, ps2_get_clock, ps2_get_data
    <3>2. h \in Seq(0 .. 1) /\ Len(h) = k /\ \A i \in 1 .. Len(h) : h[i] = BitOf(p.last_sent, i - 1)
      BY <1>5, <2>1 DEF HeardGood, HeardWhole
    <3>3. p.data_out \in 0 .. 1
      BY <1>1 DEF KeyboardState
    <3> DEFINE g == Append(h, p.data_out)
    <3>4. g \in Seq(0 .. 1) /\ Len(g) = k + 1
      BY <3>2, <3>3
    <3>5. ASSUME NEW i \in 1 .. k + 1  PROVE g[i] = BitOf(p.last_sent, i - 1)
      <4>1. CASE i \in 1 .. k
        BY <3>2, <3>3, <4>1
      <4>2. CASE i = k + 1
        <5>1. g[i] = p.data_out
          BY <3>2, <3>3, <4>2
        <5>2. i - 1 = k
          BY <4>2
        <5> QED
          BY <1>13, <5>1, <5>2
      <4>3. i \in 1 .. k \/ i = k + 1
        OBVIOUS
      <4> QED
        BY <4>1, <4>2, <4>3, Zenon
    <3> HIDE DEF g
    <3>6. HeardGood(r, g)
      BY <1>9, <1>12, <3>4, <3>5 DEF HeardGood, HeardWhole
    <3> QED
      BY <3>1, <3>6 DEF g
  <2>2. CASE ~(h # Broken /\ p.clock_in = 1 /\ r.data_in = 1)
    <3>1. Hear(h, p, r) = Broken
      BY <1>9, <1>13, <2>2 DEF Hear, ps2_get_clock
    <3> QED
      BY <1>9, <3>1 DEF HeardGood
  <2> QED
    BY <2>1, <2>2
<1>16. Uses(p, clocks, r, left - 1)
  BY <1>9, UsesOne
<1> QED
  BY <1>3, <1>8, <1>9, <1>10, <1>11, <1>14, <1>15, <1>16, GoesIn

\* The clock rises.
LEMMA RaisesClock ==
    ASSUME NEW p, KeyboardGood(p), p.state = "send", p.step = 2, NEW h, HeardGood(p, h),
           NEW clocks \in Nat \ {0}, NEW q, q = [p EXCEPT !.step = p.step + 1],
           NEW left \in Int, left <= clocks - 1
    PROVE  StepGoes(p, h, clocks, SendStep(q, left))
<1> DEFINE r == [q EXCEPT !.clock_out = 1, !.wait = BitToClock]
<1>1. p \in KeyboardState /\ Busy(p) /\ KeySendGood(p) /\ DataBits \in Nat
  BY Ps2Constants DEF KeyboardGood
<1>2. /\ q \in KeyboardState /\ q.step = 3
      /\ q.state = p.state /\ q.clock_in = p.clock_in
      /\ q.count = p.count /\ q.send = p.send /\ q.last_sent = p.last_sent
      /\ q.clock_out = p.clock_out /\ q.data_out = p.data_out
      /\ q.rbuffer = p.rbuffer /\ q.buffer = p.buffer
      /\ q.busy = p.busy /\ q.replymode = p.replymode
  BY <1>1, NextStepIs
<1>3. SendStep(q, left) = Then(r, left - 1)
  <2>1. q.step = 3 /\ q.step # 1 /\ q.step # 2 /\ q.step # 4
    BY <1>2
  <2> QED
    BY <2>1, Zenon DEF SendStep
<1>5. PICK k \in Nat : k = Sent(p)
  BY <1>1 DEF KeySendGood, Sent
<1>7. BitToClock \in 0 .. SendByte + BitToClock /\ BitToClock >= 1 /\ 1 \in 0 .. 1
  BY Ps2Constants
<1>8. r \in KeyboardState
  BY <1>2, <1>7, ZenonT(60) DEF KeyboardState
<1>9. /\ r.state = "send" /\ r.clock_in = p.clock_in /\ r.step = 3 /\ r.wait = BitToClock
      /\ r.count = p.count /\ r.send = p.send /\ r.last_sent = p.last_sent /\ r.data_out = p.data_out
      /\ r.clock_out = 1 /\ r.rbuffer = p.rbuffer /\ r.buffer = p.buffer
  BY <1>2, SMT DEF KeyboardState
<1>10. r.busy = p.busy /\ r.replymode = p.replymode
  BY <1>2, ZenonT(60) DEF KeyboardState
<1> HIDE DEF r
<1>11. Waits(r) /\ Busy(r)
  <2>1. Waits(r)
    BY <1>7, <1>9 DEF Waits
  <2>2. Busy(r)
    BY <1>1, <1>9, <1>10 DEF Busy
  <2> QED
    BY <2>1, <2>2
<1>12. Sent(r) = k
  BY <1>5, <1>9, Zenon DEF Sent
<1>13. p.clock_out = 0 /\ p.count \in 1 .. DataBits + 3
       /\ p.send = Frame(p.last_sent) \div Pow2[k + 1]
  BY <1>1, <1>5 DEF KeySendGood
<1>14. KeySendGood(r)
  BY <1>9, <1>12, <1>13 DEF KeySendGood
<1>15. HeardGood(r, Hear(h, p, r))
  <2>1. Hear(h, p, r) = h
    BY <1>9, <1>13 DEF Hear
  <2>2. \/ h = Broken
        \/ h \in Seq(0 .. 1) /\ Len(h) = k + 1 /\ \A i \in 1 .. Len(h) : h[i] = BitOf(p.last_sent, i - 1)
    BY <1>5 DEF HeardGood, HeardWhole
  <2>3. r.step >= 2
    BY <1>9
  <2> QED
    BY <1>9, <1>12, <2>1, <2>2, <2>3, Zenon DEF HeardGood, HeardWhole
<1>16. Uses(p, clocks, r, left - 1)
  BY <1>9, UsesOne
<1> QED
  BY <1>3, <1>8, <1>9, <1>10, <1>11, <1>14, <1>15, <1>16, GoesIn

\* There is another bit to send.
LEMMA NextBit ==
    ASSUME NEW p, KeyboardGood(p), p.state = "send", p.step = 3, p.count # 1, NEW h, HeardGood(p, h),
           NEW clocks \in Nat \ {0}, NEW q, q = [p EXCEPT !.step = p.step + 1],
           NEW left \in Int, left <= clocks - 1
    PROVE  StepGoes(p, h, clocks, SendStep(q, left))
<1> DEFINE c == p.count - 1
           r == [q EXCEPT !.count = c, !.step = 0, !.wait = BitToClock]
<1>1. p \in KeyboardState /\ Busy(p) /\ KeySendGood(p) /\ DataBits \in Nat
  BY Ps2Constants DEF KeyboardGood
<1>2. /\ q \in KeyboardState /\ q.step = 4
      /\ q.state = p.state /\ q.clock_in = p.clock_in
      /\ q.count = p.count /\ q.send = p.send /\ q.last_sent = p.last_sent
      /\ q.clock_out = p.clock_out /\ q.data_out = p.data_out
      /\ q.rbuffer = p.rbuffer /\ q.buffer = p.buffer
      /\ q.busy = p.busy /\ q.replymode = p.replymode
  BY <1>1, NextStepIs
<1>3. SendStep(q, left) = Then(r, left)
  <2>1. q.step = 4 /\ q.step # 1 /\ q.step # 2 /\ q.step # 3 /\ q.count # 1 /\ q.count = p.count
    BY <1>2
  <2>2. r = [q EXCEPT !.count = q.count - 1, !.step = 0, !.wait = BitToClock]
    BY <2>1
  <2> HIDE DEF r
  <2> QED
    BY <2>1, <2>2, Zenon DEF SendStep
<1>4. p.count \in 1 .. DataBits + 3 /\ c \in 1 .. DataBits + 3 /\ c \in 0 .. DataBits + 3
  BY <1>1 DEF KeySendGood
<1>5. PICK k \in Nat : k = Sent(p)
  BY <1>1 DEF KeySendGood, Sent
<1>6. DataBits + 3 - c = k + 1
  BY <1>1, <1>4, <1>5 DEF Sent
<1> HIDE DEF c
<1>7. BitToClock \in 0 .. SendByte + BitToClock /\ BitToClock >= 1 /\ 0 \in 0 .. 4
  BY Ps2Constants
<1>8. r \in KeyboardState
  BY <1>2, <1>4, <1>7, ZenonT(60) DEF KeyboardState
<1>9. /\ r.state = "send" /\ r.clock_in = p.clock_in /\ r.step = 0 /\ r.wait = BitToClock
      /\ r.count = c /\ r.send = p.send /\ r.last_sent = p.last_sent /\ r.data_out = p.data_out
      /\ r.clock_out = p.clock_out /\ r.rbuffer = p.rbuffer /\ r.buffer = p.buffer
  BY <1>2, SMT DEF KeyboardState
<1>10. r.busy = p.busy /\ r.replymode = p.replymode
  BY <1>2, ZenonT(60) DEF KeyboardState
<1> HIDE DEF r
<1>11. Waits(r) /\ Busy(r)
  <2>1. Waits(r)
    BY <1>7, <1>9 DEF Waits
  <2>2. Busy(r)
    BY <1>1, <1>9, <1>10 DEF Busy
  <2> QED
    BY <2>1, <2>2
<1>12. Sent(r) = k + 1
  BY <1>6, <1>9, Zenon DEF Sent
<1>13. p.clock_out = 1 /\ p.send = Frame(p.last_sent) \div Pow2[k + 1]
  BY <1>1, <1>5 DEF KeySendGood
<1>14. KeySendGood(r)
  BY <1>4, <1>9, <1>12, <1>13 DEF KeySendGood
<1>15. HeardGood(r, Hear(h, p, r))
  <2>1. Hear(h, p, r) = h
    BY <1>9, <1>13 DEF Hear
  <2>2. \/ h = Broken
        \/ h \in Seq(0 .. 1) /\ Len(h) = k + 1 /\ \A i \in 1 .. Len(h) : h[i] = BitOf(p.last_sent, i - 1)
    BY <1>5 DEF HeardGood, HeardWhole
  <2>3. ~(r.step >= 2)
    BY <1>9
  <2> QED
    BY <1>9, <1>12, <2>1, <2>2, <2>3, Zenon DEF HeardGood, HeardWhole
<1>16. Uses(p, clocks, r, left)
  BY <1>9, UsesOne
<1> QED
  BY <1>3, <1>8, <1>9, <1>10, <1>11, <1>14, <1>15, <1>16, GoesIn

\* That was the last bit: the byte leaves its queue.
LEMMA ByteSent ==
    ASSUME NEW p \in KeyboardState, HeadIs(p), NEW q, q = ps2_byte_sent(p)
    PROVE  /\ q \in KeyboardState /\ q.clock_in = p.clock_in
           /\ p.replymode => q.rbuffer = Tail(p.rbuffer) /\ q.buffer = p.buffer
           /\ ~p.replymode => q.rbuffer = p.rbuffer /\ q.buffer = Tail(p.buffer)
<1>1. p.rbuffer \in Queue /\ p.buffer \in Queue
  BY DEF KeyboardState
<1>2. CASE p.replymode
  <2> DEFINE s == Tail(p.rbuffer)
  <2>1. q = [p EXCEPT !.rbuffer = s]
    BY <1>2, Zenon DEF ps2_byte_sent
  <2>2. s \in Queue
    BY <1>1, <1>2, QueueDrops DEF HeadIs
  <2> HIDE DEF s
  <2>3. q \in KeyboardState
    BY <2>1, <2>2, ZenonT(60) DEF KeyboardState
  <2>4. q.clock_in = p.clock_in /\ q.rbuffer = s /\ q.buffer = p.buffer
    BY <2>1, SMT DEF KeyboardState
  <2> QED
    BY <1>2, <2>3, <2>4 DEF s
<1>3. CASE ~p.replymode
  <2> DEFINE s == Tail(p.buffer)
  <2>1. q = [p EXCEPT !.buffer = s]
    BY <1>3, Zenon DEF ps2_byte_sent
  <2>2. s \in Queue
    BY <1>1, <1>3, QueueDrops DEF HeadIs
  <2> HIDE DEF s
  <2>3. q \in KeyboardState
    BY <2>1, <2>2, ZenonT(60) DEF KeyboardState
  <2>4. q.clock_in = p.clock_in /\ q.rbuffer = p.rbuffer /\ q.buffer = s
    BY <2>1, SMT DEF KeyboardState
  <2> QED
    BY <1>3, <2>3, <2>4 DEF s
<1> QED
  BY <1>2, <1>3

LEMMA EndsFrame ==
    ASSUME NEW p, KeyboardGood(p), p.state = "send", p.step = 3, p.count = 1, NEW h, HeardGood(p, h),
           NEW clocks \in Nat \ {0}, NEW q, q = [p EXCEPT !.step = p.step + 1],
           NEW left \in Int, left <= clocks - 1
    PROVE  StepGoes(p, h, clocks, SendStep(q, left))
<1> DEFINE z == [q EXCEPT !.count = 0]
           b == ps2_byte_sent(z)
           r == ps2_idle(b)
<1>1. p \in KeyboardState /\ Busy(p) /\ HeadIs(p) /\ DataBits \in Nat
  BY Ps2Constants DEF KeyboardGood
<1>2. /\ q \in KeyboardState /\ q.step = 4 /\ q.count = p.count
      /\ q.state = p.state /\ q.clock_in = p.clock_in /\ q.last_sent = p.last_sent
      /\ q.rbuffer = p.rbuffer /\ q.buffer = p.buffer /\ q.replymode = p.replymode
  BY <1>1, NextStepIs
<1>3. SendStep(q, left) = Then(r, left)
  <2>1. q.step = 4 /\ q.step # 1 /\ q.step # 2 /\ q.step # 3 /\ q.count = 1
    BY <1>2
  <2> HIDE DEF r
  <2> QED
    BY <2>1, Zenon DEF SendStep, r, b, z
<1>4. z \in KeyboardState
  <2>1. 0 \in 0 .. DataBits + 3
    BY <1>1
  <2> QED
    BY <1>2, <2>1, ZenonT(60) DEF KeyboardState
<1>5. z.clock_in = p.clock_in /\ z.last_sent = p.last_sent /\ z.rbuffer = p.rbuffer /\ z.buffer = p.buffer
  BY <1>2, SMT DEF KeyboardState
<1>6. z.replymode = p.replymode
  BY <1>2, ZenonT(60) DEF KeyboardState
<1> HIDE DEF z
<1>7. HeadIs(z)
  BY <1>1, <1>5, <1>6, Zenon DEF HeadIs
<1>8. /\ b \in KeyboardState /\ b.clock_in = p.clock_in
      /\ p.replymode => b.rbuffer = Tail(p.rbuffer) /\ b.buffer = p.buffer
      /\ ~p.replymode => b.rbuffer = p.rbuffer /\ b.buffer = Tail(p.buffer)
  <2>1. /\ b \in KeyboardState /\ b.clock_in = z.clock_in
        /\ z.replymode => b.rbuffer = Tail(z.rbuffer) /\ b.buffer = z.buffer
        /\ ~z.replymode => b.rbuffer = z.rbuffer /\ b.buffer = Tail(z.buffer)
    BY <1>4, <1>7, ByteSent
  <2> HIDE DEF b
  <2> QED
    BY <1>5, <1>6, <2>1, Zenon
<1> HIDE DEF b
<1>9. /\ r \in KeyboardState /\ r.state = "idle" /\ r.clock_out = 1 /\ r.busy = FALSE
      /\ r.clock_in = p.clock_in /\ r.rbuffer = b.rbuffer /\ r.buffer = b.buffer
  BY <1>8, IdleIs
<1> HIDE DEF r
<1>10. KeyboardGood(r) /\ r.state # "send"
  BY <1>9, KeyIdleGood
<1>11. Leaves(p, r) = p.last_sent
  <2>1. p.rbuffer \in Queue /\ p.buffer \in Queue
    BY <1>1 DEF KeyboardState
  <2>2. CASE p.replymode
    <3>1. r.buffer = p.buffer /\ p.rbuffer[1] = p.last_sent
      BY <1>1, <1>8, <1>9, <2>2 DEF HeadIs
    <3> QED
      BY <3>1, Zenon DEF Leaves
  <2>3. CASE ~p.replymode
    <3>1. r.buffer = Tail(p.buffer) /\ p.buffer # <<>> /\ p.buffer[1] = p.last_sent
      BY <1>1, <1>8, <1>9, <2>3, Zenon DEF HeadIs
    <3>2. Tail(p.buffer) # p.buffer
      BY <2>1, <3>1, QueueDrops
    <3> QED
      BY <3>1, <3>2, Zenon DEF Leaves
  <2> QED
    BY <2>2, <2>3
<1>12. h = Broken \/ Len(h) = DataBits + 3
  <2>1. p.step >= 2
    OBVIOUS
  <2>2. h = Broken \/ Len(h) = Sent(p) + 1
    BY <2>1, Zenon DEF HeardGood, HeardWhole
  <2>3. Sent(p) + 1 = DataBits + 3
    BY <1>1 DEF Sent
  <2> QED
    BY <2>2, <2>3
<1>13. HeardGood(r, Hear(h, p, r))
  <2>1. Hear(h, p, r) = <<>>
    BY <1>10 DEF Hear
  <2> QED
    BY <1>10, <2>1 DEF HeardGood
<1>14. Uses(p, clocks, r, left)
  <2>1. FreeBit(r) = 0 /\ FreeBit(p) \in 0 .. 1
    BY <1>9 DEF FreeBit
  <2> QED
    BY <2>1 DEF Uses
<1> QED
  BY <1>3, <1>9, <1>10, <1>11, <1>12, <1>13, <1>14, ThenIs DEF StepGoes

\* A frame is sent as its bits say.
LEMMA SendGoes ==
    ASSUME NEW p, KeyboardGood(p), p.state = "send", NEW h, HeardGood(p, h), NEW clocks \in Nat \ {0},
           ~(clocks - p.wait < 0)
    PROVE  StepGoes(p, h, clocks, Timed(p, clocks))
<1>1. PICK left : left = clocks - p.wait
  OBVIOUS
<1>2. PICK q : q = [p EXCEPT !.step = p.step + 1]
  OBVIOUS
<1>3. left \in Int /\ left <= clocks - 1 /\ Timed(p, clocks) = SendStep(q, left)
  BY <1>1, <1>2, TimedIs
<1>4. p.step \in {0, 1, 2, 3} /\ p.clock_in \in {0, 1}
  BY DEF KeyboardGood, KeyboardState, Waits
<1>5. CASE p.step = 0 /\ p.clock_in = 0
  BY <1>2, <1>3, <1>5, GivesUp
<1>6. CASE p.step = 0 /\ p.clock_in = 1
  BY <1>2, <1>3, <1>6, PutsBit
<1>7. CASE p.step = 1
  BY <1>2, <1>3, <1>7, GivesBit
<1>8. CASE p.step = 2
  BY <1>2, <1>3, <1>8, RaisesClock
<1>9. CASE p.step = 3 /\ p.count # 1
  BY <1>2, <1>3, <1>9, NextBit
<1>10. CASE p.step = 3 /\ p.count = 1
  BY <1>2, <1>3, <1>10, EndsFrame
<1> QED
  BY <1>4, <1>5, <1>6, <1>7, <1>8, <1>9, <1>10

\* A byte from the host.
LEMMA ReceiveType ==
    ASSUME NEW x \in Word(DataBits + 2), NEW d \in 0 .. 1
    PROVE  (x \div 2) + d * Pow2[DataBits + 1] \in Word(DataBits + 2)
<1> DEFINE m == Pow2[DataBits + 1]
           y == x \div 2
<1>1. DataBits + 1 \in Nat /\ DataBits + 2 = (DataBits + 1) + 1
  BY Ps2Constants
<1>2. m \in Nat \ {0} /\ Pow2[DataBits + 2] = 2 * m
  BY <1>1, Pow2Is
<1>3. x \in 0 .. 2 * m - 1
  BY <1>2 DEF Word
<1>4. x % 2 \in 0 .. 1 /\ y \in Int /\ x = y * 2 + (x % 2)
  BY <1>2, <1>3, DivMod
<1> HIDE DEF m, y
<1>5. y \in 0 .. m - 1
  BY <1>2, <1>3, <1>4
<1>6. d * m \in {0, m}
  <2>1. CASE d = 0
    BY <1>2, <2>1
  <2>2. CASE d = 1
    BY <1>2, <2>2
  <2> QED
    BY <2>1, <2>2
<1>7. y + d * m \in 0 .. 2 * m - 1
  BY <1>2, <1>5, <1>6
<1> QED
  BY <1>2, <1>7 DEF Word, m, y

\* A step outside a frame that uses no more than is left.
LEMMA UsesLeft ==
    ASSUME NEW p, NEW q, NEW clocks \in Nat, NEW left \in Int, left <= clocks - 1,
           FreeBit(q) = 0
    PROVE  Uses(p, clocks, q, left) /\ Uses(p, clocks, q, left - 1)
<1>1. FreeBit(p) \in 0 .. 2
  BY DEF FreeBit
<1> QED
  BY <1>1 DEF Uses

LEMMA WaitsGood ==
    ASSUME NEW q \in KeyboardState, q.state \in {"receive", "ack"}, Busy(q), Waits(q),
           q.state = "receive" => q.count \in 1 .. DataBits + 2
    PROVE  KeyboardGood(q) /\ q.state # "send"
  BY DEF KeyboardGood

LEMMA ReceiveGoes ==
    ASSUME NEW p, KeyboardGood(p), p.state = "receive", p.clock_in # 0, NEW h, NEW clocks \in Nat \ {0},
           ~(clocks - p.wait < 0)
    PROVE  StepGoes(p, h, clocks, Timed(p, clocks))
<1>1. PICK left : left = clocks - p.wait
  OBVIOUS
<1>2. PICK q : q = [p EXCEPT !.step = p.step + 1]
  OBVIOUS
<1>3. left \in Int /\ left - 1 \in Int /\ left <= clocks - 1 /\ Timed(p, clocks) = ReceiveStep(q, left)
  BY <1>1, <1>2, TimedIs
<1>4. p \in KeyboardState /\ Waits(p) /\ Busy(p) /\ p.count \in 1 .. DataBits + 2 /\ DataBits \in Nat
  BY Ps2Constants DEF KeyboardGood
<1>5. p.step \in 0 .. 3
  BY <1>4 DEF Waits
<1>6. /\ q \in KeyboardState /\ q.step = p.step + 1 /\ q.state = "receive"
      /\ q.clock_in = p.clock_in /\ q.count = p.count /\ q.busy = p.busy
  BY <1>2, <1>4, <1>5, NextStepIs
<1>7. BitToClock \in 0 .. SendByte + BitToClock /\ BitToClock >= 1 /\ 0 \in 0 .. 1 /\ 1 \in 0 .. 1 /\ 0 \in 0 .. 4
  BY Ps2Constants
<1>8. ASSUME p.step # 3,
             NEW r \in KeyboardState, r.state = "receive", r.clock_in = p.clock_in, r.step = p.step + 1,
             r.count = p.count, r.wait = BitToClock, r.busy = p.busy
      PROVE  StepGoes(p, h, clocks, Then(r, left - 1))
  <2>1. Busy(r)
    BY <1>4, <1>8 DEF Busy
  <2>2. Waits(r)
    BY <1>5, <1>7, <1>8 DEF Waits
  <2>3. KeyboardGood(r) /\ r.state # "send"
    BY <1>4, <1>8, <2>1, <2>2, WaitsGood
  <2>4. FreeBit(r) = 0
    BY <1>8 DEF FreeBit
  <2>5. Uses(p, clocks, r, left - 1)
    BY <1>3, <2>4, UsesLeft
  <2> QED
    BY <1>3, <1>8, <2>3, <2>5, GoesOut
<1>9. CASE p.step = 0
  <2> DEFINE r == [q EXCEPT !.clock_out = 0, !.wait = BitToClock]
  <2>1. ReceiveStep(q, left) = Then(r, left - 1)
    <3>1. q.step = 1 /\ q.step # 2 /\ q.step # 3 /\ q.step # 4
      BY <1>6, <1>9
    <3> QED
      BY <3>1, Zenon DEF ReceiveStep
  <2>2. r \in KeyboardState
    BY <1>6, <1>7, ZenonT(60) DEF KeyboardState
  <2>3. r.state = q.state /\ r.clock_in = q.clock_in /\ r.step = q.step /\ r.count = q.count /\ r.wait = BitToClock
    BY <1>6, SMT DEF KeyboardState
  <2>4. r.busy = q.busy
    BY <1>6, ZenonT(60) DEF KeyboardState
  <2> HIDE DEF r
  <2> QED
    BY <1>3, <1>6, <1>8, <1>9, <2>1, <2>2, <2>3, <2>4
<1>10. CASE p.step = 1
  <2> DEFINE r == [q EXCEPT !.clock_out = 1, !.wait = BitToClock]
  <2>1. ReceiveStep(q, left) = Then(r, left - 1)
    <3>1. q.step = 2 /\ q.step # 1 /\ q.step # 3 /\ q.step # 4
      BY <1>6, <1>10
    <3> QED
      BY <3>1, Zenon DEF ReceiveStep
  <2>2. r \in KeyboardState
    BY <1>6, <1>7, ZenonT(60) DEF KeyboardState
  <2>3. r.state = q.state /\ r.clock_in = q.clock_in /\ r.step = q.step /\ r.count = q.count /\ r.wait = BitToClock
    BY <1>6, SMT DEF KeyboardState
  <2>4. r.busy = q.busy
    BY <1>6, ZenonT(60) DEF KeyboardState
  <2> HIDE DEF r
  <2> QED
    BY <1>3, <1>6, <1>8, <1>10, <2>1, <2>2, <2>3, <2>4
<1>11. CASE p.step = 2
  <2> DEFINE x == (q.receive \div 2) + q.data_in * Pow2[DataBits + 1]
             r == [q EXCEPT !.receive = x, !.wait = BitToClock]
  <2>1. ReceiveStep(q, left) = Then(r, left - 1)
    <3>1. q.step = 3 /\ q.step # 1 /\ q.step # 2 /\ q.step # 4
      BY <1>6, <1>11
    <3> QED
      BY <3>1, Zenon DEF ReceiveStep
  <2>2. x \in Word(DataBits + 2)
    <3>1. q.receive \in Word(DataBits + 2) /\ q.data_in \in 0 .. 1
      BY <1>6 DEF KeyboardState
    <3> QED
      BY <3>1, ReceiveType
  <2> HIDE DEF x
  <2>3. r \in KeyboardState
    BY <1>6, <1>7, <2>2, ZenonT(60) DEF KeyboardState
  <2>4. r.state = q.state /\ r.clock_in = q.clock_in /\ r.step = q.step /\ r.count = q.count /\ r.wait = BitToClock
    BY <1>6, SMT DEF KeyboardState
  <2>5. r.busy = q.busy
    BY <1>6, ZenonT(60) DEF KeyboardState
  <2> HIDE DEF r
  <2> QED
    BY <1>3, <1>6, <1>8, <1>11, <2>1, <2>3, <2>4, <2>5
<1>12. CASE p.step = 3
  <2> DEFINE c == p.count - 1
             s == IF p.count = 1 THEN "ack" ELSE "receive"
             r == [q EXCEPT !.count = c, !.state = s, !.step = 0, !.wait = BitToClock]
  <2>1. ReceiveStep(q, left) = Then(r, left)
    <3>1. q.step = 4 /\ q.step # 1 /\ q.step # 2 /\ q.step # 3 /\ q.count = p.count /\ q.state = "receive"
      BY <1>6, <1>12
    <3>2. r = [q EXCEPT !.count = q.count - 1, !.state = IF q.count = 1 THEN "ack" ELSE q.state,
                        !.step = 0, !.wait = BitToClock]
      BY <3>1
    <3> HIDE DEF r
    <3> QED
      BY <3>1, <3>2, Zenon DEF ReceiveStep
  <2>2. c \in 0 .. DataBits + 3 /\ (s = "receive" => c \in 1 .. DataBits + 2) /\ s \in {"receive", "ack"}
    BY <1>4
  <2> HIDE DEF c, s
  <2>3. r \in KeyboardState
    <3>1. s \in {"idle", "wait_host", "wait_host_2", "receive", "ack", "send_wait", "send"}
      BY <2>2
    <3> QED
      BY <1>6, <1>7, <2>2, <3>1, ZenonT(60) DEF KeyboardState
  <2>4. r.state = s /\ r.clock_in = q.clock_in /\ r.step = 0 /\ r.count = c /\ r.wait = BitToClock
    BY <1>6, SMT DEF KeyboardState
  <2>5. r.busy = q.busy
    BY <1>6, ZenonT(60) DEF KeyboardState
  <2> HIDE DEF r
  <2>6. Busy(r)
    BY <1>4, <1>6, <2>2, <2>4, <2>5 DEF Busy
  <2>7. Waits(r)
    BY <1>7, <2>4 DEF Waits
  <2>8. KeyboardGood(r) /\ r.state # "send"
    BY <2>2, <2>3, <2>4, <2>6, <2>7, WaitsGood
  <2>9. FreeBit(r) = 0
    BY <1>6, <2>2, <2>4 DEF FreeBit
  <2>10. Uses(p, clocks, r, left)
    BY <1>3, <2>9, UsesLeft
  <2> QED
    BY <1>3, <1>6, <2>1, <2>4, <2>8, <2>10, GoesOut
<1>13. p.step \in {0, 1, 2, 3}
  BY <1>5
<1> QED
  BY <1>9, <1>10, <1>11, <1>12, <1>13

LEMMA ReceiveAborts ==
    ASSUME NEW p, KeyboardGood(p), p.state = "receive", p.clock_in = 0, NEW h, NEW clocks \in Nat \ {0}
    PROVE  StepGoes(p, h, clocks, Then(ps2_abort(p), clocks))
<1> DEFINE r == ps2_abort(p)
<1>1. p \in KeyboardState /\ Busy(p) /\ clocks \in Int
  BY DEF KeyboardGood
<1>2. p.busy
  BY <1>1 DEF Busy
<1>3. KeyboardGood(r) /\ r.state = "wait_host" /\ r.clock_in = p.clock_in
  BY <1>1, <1>2, AbortIs
<1> HIDE DEF r
<1>4. FreeBit(r) = 1 /\ FreeBit(p) = 2
  BY <1>3 DEF FreeBit
<1>5. Uses(p, clocks, r, clocks)
  BY <1>4 DEF Uses
<1> QED
  BY <1>1, <1>3, <1>5, GoesOut DEF r

\* What a byte from the host may change: no line and not the last byte sent.
Kept(p, q) == q \in KeyboardState /\ q.clock_in = p.clock_in /\ q.last_sent = p.last_sent

LEMMA KeptTwice ==
    ASSUME NEW p, NEW q, NEW r, Kept(p, q), Kept(q, r)
    PROVE  Kept(p, r)
  BY DEF Kept

LEMMA ReplyKeeps ==
    ASSUME NEW p \in KeyboardState, NEW r \in Byte
    PROVE  Kept(p, ps2_queue_reply(p, r))
<1>1. CASE Len(p.rbuffer) = BufSize
  <2>1. ps2_queue_reply(p, r) = p
    BY <1>1, Zenon DEF ps2_queue_reply
  <2> QED
    BY <2>1 DEF Kept
<1>2. CASE Len(p.rbuffer) # BufSize
  <2> DEFINE s == Append(p.rbuffer, r)
             q == [p EXCEPT !.rbuffer = s]
  <2>1. ps2_queue_reply(p, r) = q
    BY <1>2, Zenon DEF ps2_queue_reply
  <2>2. p.rbuffer \in Queue
    BY DEF KeyboardState
  <2>3. s \in Queue
    BY <1>2, <2>2, QueueAdds
  <2> HIDE DEF s
  <2>4. q \in KeyboardState
    BY <2>3, ZenonT(60) DEF KeyboardState
  <2>5. q.clock_in = p.clock_in /\ q.last_sent = p.last_sent
    BY SMT DEF KeyboardState
  <2> QED
    BY <2>1, <2>4, <2>5 DEF Kept
<1> QED
  BY <1>1, <1>2

LEMMA FlagKeeps ==
    ASSUME NEW p \in KeyboardState, NEW x \in 0 .. 3, NEW d \in BOOLEAN
    PROVE  /\ Kept(p, [p EXCEPT !.rxstate = x]) /\ Kept(p, [p EXCEPT !.disabled = d])
           /\ Kept(p, [p EXCEPT !.rxstate = x, !.disabled = d]) /\ Kept(p, p)
<1>1. /\ [p EXCEPT !.rxstate = x] \in KeyboardState
      /\ [p EXCEPT !.disabled = d] \in KeyboardState
  BY ZenonT(60) DEF KeyboardState
<1>2. [p EXCEPT !.rxstate = x, !.disabled = d] \in KeyboardState
  BY ZenonT(60) DEF KeyboardState
<1>3. ASSUME NEW q, q = [p EXCEPT !.rxstate = x]
      PROVE  q.clock_in = p.clock_in /\ q.last_sent = p.last_sent
  BY <1>3, SMT DEF KeyboardState
<1>4. ASSUME NEW q, q = [p EXCEPT !.disabled = d]
      PROVE  q.clock_in = p.clock_in /\ q.last_sent = p.last_sent
  BY <1>4, ZenonT(60) DEF KeyboardState
<1>5. ASSUME NEW q, q = [p EXCEPT !.rxstate = x, !.disabled = d]
      PROVE  q.clock_in = p.clock_in /\ q.last_sent = p.last_sent
  BY <1>5, ZenonT(60) DEF KeyboardState
<1> QED
  BY <1>1, <1>2, <1>3, <1>4, <1>5, Zenon DEF Kept

LEMMA ReplyBytes ==
    /\ Reply["FA"] \in Byte /\ Reply["AB"] \in Byte /\ Reply["83"] \in Byte
    /\ Reply["EE"] \in Byte /\ Reply["FE"] \in Byte /\ Reply["02"] \in Byte /\ Reply["AA"] \in Byte
  BY Ps2Assumption

LEMMA ExecuteKeeps ==
    ASSUME NEW p \in KeyboardState, NEW b \in Byte
    PROVE  Kept(p, Execute(p, b))
<1> DEFINE ack == ps2_queue_reply(p, Reply["FA"])
<1>1. Kept(p, ack) /\ ack \in KeyboardState
  BY ReplyKeeps, ReplyBytes DEF Kept
<1>2. p.last_sent \in Byte
  BY DEF KeyboardState
<1>3. 1 \in 0 .. 3 /\ 2 \in 0 .. 3 /\ 3 \in 0 .. 3 /\ TRUE \in BOOLEAN /\ FALSE \in BOOLEAN
  OBVIOUS
<1>4. Kept(p, ps2_queue_reply(p, p.last_sent)) /\ Kept(p, p)
      /\ Kept(p, ps2_queue_reply(p, Reply["EE"])) /\ Kept(p, ps2_queue_reply(p, Reply["FE"]))
  BY <1>2, <1>3, ReplyKeeps, ReplyBytes, FlagKeeps
<1>5. Kept(p, ps2_queue_reply(ps2_queue_reply(p, Reply["AB"]), Reply["83"]))
  <2>1. PICK q : q = ps2_queue_reply(p, Reply["AB"])
    OBVIOUS
  <2>2. Kept(p, q) /\ q \in KeyboardState
    BY <2>1, ReplyKeeps, ReplyBytes DEF Kept
  <2>3. Kept(q, ps2_queue_reply(q, Reply["83"]))
    BY <2>2, ReplyKeeps, ReplyBytes
  <2> QED
    BY <2>1, <2>2, <2>3, KeptTwice, Zenon
<1> HIDE DEF ack
<1>6. Kept(p, [ack EXCEPT !.rxstate = 2, !.disabled = TRUE])
  BY <1>1, <1>3, FlagKeeps, KeptTwice
<1>7. Kept(p, [ack EXCEPT !.rxstate = 3])
  BY <1>1, <1>3, FlagKeeps, KeptTwice
<1>8. Kept(p, [p EXCEPT !.disabled = TRUE]) /\ Kept(p, [p EXCEPT !.disabled = FALSE])
      /\ Kept(p, [p EXCEPT !.rxstate = 1])
  BY <1>3, FlagKeeps
<1>9. PICK d : d = Decode[b]
  OBVIOUS
<1>10. PICK e : e = Execute(p, b)
  OBVIOUS
<1>11. CASE d \in {"reset", "ack"}
  <2>1. e = ack
    BY <1>9, <1>10, <1>11, SMT DEF Execute, ack
  <2> QED
    BY <1>1, <1>10, <2>1
<1>12. CASE d = "resend"
  <2>1. e = p \/ e = ps2_queue_reply(p, p.last_sent)
    BY <1>9, <1>10, <1>12, SMT DEF Execute
  <2> QED
    BY <1>4, <1>10, <2>1
<1>13. CASE d = "stream"
  <2>1. e = [ack EXCEPT !.rxstate = 2, !.disabled = TRUE]
    BY <1>9, <1>10, <1>13, Zenon DEF Execute, ack
  <2> QED
    BY <1>6, <1>10, <2>1
<1>14. CASE d = "default"
  <2>1. e = p
    BY <1>9, <1>10, <1>14, SMT DEF Execute
  <2> QED
    BY <1>4, <1>10, <2>1
<1>15. CASE d = "disable"
  <2>1. e = [p EXCEPT !.disabled = TRUE]
    BY <1>9, <1>10, <1>15, Zenon DEF Execute
  <2> QED
    BY <1>8, <1>10, <2>1
<1>16. CASE d = "enable"
  <2>1. e = [p EXCEPT !.disabled = FALSE]
    BY <1>9, <1>10, <1>16, Zenon DEF Execute
  <2> QED
    BY <1>8, <1>10, <2>1
<1>17. CASE d = "param"
  <2>1. e = [p EXCEPT !.rxstate = 1]
    BY <1>9, <1>10, <1>17, Zenon DEF Execute
  <2> QED
    BY <1>8, <1>10, <2>1
<1>18. CASE d = "id"
  <2>1. e = ps2_queue_reply(ps2_queue_reply(p, Reply["AB"]), Reply["83"])
    BY <1>9, <1>10, <1>18, SMT DEF Execute
  <2> QED
    BY <1>5, <1>10, <2>1
<1>19. CASE d = "scanset"
  <2>1. e = [ack EXCEPT !.rxstate = 3]
    BY <1>9, <1>10, <1>19, Zenon DEF Execute, ack
  <2> QED
    BY <1>7, <1>10, <2>1
<1>20. CASE d = "echo"
  <2>1. e = ps2_queue_reply(p, Reply["EE"])
    BY <1>9, <1>10, <1>20, SMT DEF Execute
  <2> QED
    BY <1>4, <1>10, <2>1
<1>21. CASE d \notin {"reset", "ack", "resend", "stream", "default", "disable", "enable", "param", "id",
                      "scanset", "echo"}
  <2>1. e = ps2_queue_reply(p, Reply["FE"])
    BY <1>9, <1>10, <1>21, SMT DEF Execute
  <2> QED
    BY <1>4, <1>10, <2>1
<1> QED
  BY <1>10, <1>11, <1>12, <1>13, <1>14, <1>15, <1>16, <1>17, <1>18, <1>19, <1>20, <1>21

LEMMA ReceivedKeeps ==
    ASSUME NEW p \in KeyboardState, NEW b \in Byte
    PROVE  Kept(p, ps2_byte_received(p, b))
<1> DEFINE ack == ps2_queue_reply(p, Reply["FA"])
<1>1. Kept(p, ack) /\ ack \in KeyboardState
  BY ReplyKeeps, ReplyBytes DEF Kept
<1>2. 0 \in 0 .. 3 /\ FALSE \in BOOLEAN
  OBVIOUS
<1>3. PICK e : e = ps2_byte_received(p, b)
  OBVIOUS
<1> HIDE DEF ack
<1>4. p.rxstate \in {0, 1, 2, 3}
  BY DEF KeyboardState
<1>5. CASE p.rxstate = 0
  <2>1. e = Execute(p, b)
    <3>1. p.rxstate # 1 /\ p.rxstate # 2 /\ p.rxstate # 3
      BY <1>5
    <3> QED
      BY <1>3, <1>5, <3>1, Zenon DEF ps2_byte_received
  <2> QED
    BY <1>3, <2>1, ExecuteKeeps
<1>6. CASE p.rxstate = 1
  <2>1. e = [p EXCEPT !.rxstate = 0]
    <3>1. p.rxstate # 0 /\ p.rxstate # 2 /\ p.rxstate # 3
      BY <1>6
    <3> QED
      BY <1>3, <1>6, <3>1, Zenon DEF ps2_byte_received
  <2>2. Kept(p, [p EXCEPT !.rxstate = 0])
    <3>1. PICK x \in 0 .. 3, d \in BOOLEAN : x = 0 /\ d = FALSE
      BY <1>2
    <3>2. Kept(p, [p EXCEPT !.rxstate = x])
      BY FlagKeeps
    <3> QED
      BY <3>1, <3>2, Zenon
  <2> QED
    BY <1>3, <2>1, <2>2, Zenon
<1>7. CASE p.rxstate = 2
  <2> DEFINE z == [ack EXCEPT !.rxstate = 0, !.disabled = FALSE]
  <2>1. e = Execute(IF Decode[b] \notin {"query", "other"} THEN z ELSE ack, b)
    <3>1. p.rxstate # 0 /\ p.rxstate # 1 /\ p.rxstate # 3
      BY <1>7
    <3> QED
      BY <1>3, <1>7, <3>1, Zenon DEF ps2_byte_received, ack
  <2>2. Kept(p, z)
    BY <1>1, <1>2, FlagKeeps, KeptTwice
  <2> HIDE DEF z
  <2>3. PICK q : q = IF Decode[b] \notin {"query", "other"} THEN z ELSE ack
    OBVIOUS
  <2>4. Kept(p, q)
    BY <1>1, <2>2, <2>3
  <2>5. Kept(q, Execute(q, b))
    BY <2>4, ExecuteKeeps DEF Kept
  <2>6. Execute(q, b) = ps2_byte_received(p, b)
    BY <1>3, <2>1, <2>3
  <2>7. Kept(q, ps2_byte_received(p, b))
    BY <2>5, <2>6
  <2> QED
    BY <2>4, <2>7, KeptTwice
<1>8. CASE p.rxstate = 3
  <2> DEFINE y == IF Decode[b] = "query" THEN ps2_queue_reply(ack, Reply["02"]) ELSE ack
             z == [y EXCEPT !.rxstate = 0]
  <2>1. e = Execute(z, b)
    <3>1. p.rxstate # 0 /\ p.rxstate # 1 /\ p.rxstate # 2
      BY <1>8
    <3> QED
      BY <1>3, <1>8, <3>1, Zenon DEF ps2_byte_received, ack
  <2>2. Kept(p, y)
    <3>1. Kept(ack, ps2_queue_reply(ack, Reply["02"]))
      BY <1>1, ReplyKeeps, ReplyBytes
    <3>2. Kept(p, ps2_queue_reply(ack, Reply["02"]))
      BY <1>1, <3>1, KeptTwice
    <3> QED
      BY <1>1, <3>2
  <2> HIDE DEF y
  <2>3. y \in KeyboardState
    BY <2>2 DEF Kept
  <2>4. Kept(p, z)
    BY <1>2, <2>2, <2>3, FlagKeeps, KeptTwice
  <2> HIDE DEF z
  <2>5. Kept(z, Execute(z, b))
    BY <2>4, ExecuteKeeps DEF Kept
  <2> QED
    BY <1>3, <2>1, <2>4, <2>5, KeptTwice, Zenon
<1> QED
  BY <1>4, <1>5, <1>6, <1>7, <1>8

LEMMA ReceivedByte ==
    ASSUME NEW x \in Word(DataBits + 2)
    PROVE  x % Pow2[DataBits] \in Byte
<1>1. DataBits \in Nat /\ DataBits + 2 \in Nat
  BY Ps2Constants
<1>2. Pow2[DataBits] \in Nat \ {0} /\ Pow2[DataBits + 2] \in Nat
  BY <1>1, Pow2Is
<1>3. x \in Int
  BY <1>2 DEF Word
<1>4. x % Pow2[DataBits] \in 0 .. Pow2[DataBits] - 1
  BY <1>2, <1>3, DivMod
<1> QED
  BY <1>4 DEF Byte, Word

\* The keyboard acknowledges the byte and does what it says.
LEMMA AckGoes ==
    ASSUME NEW p, KeyboardGood(p), p.state = "ack", NEW h, NEW clocks \in Nat \ {0},
           ~(clocks - p.wait < 0)
    PROVE  StepGoes(p, h, clocks, Timed(p, clocks))
<1>1. PICK left : left = clocks - p.wait
  OBVIOUS
<1>2. PICK q : q = [p EXCEPT !.step = p.step + 1]
  OBVIOUS
<1>3. left \in Int /\ 0 \in Int /\ left <= clocks - 1 /\ Timed(p, clocks) = AckStep(q, left)
  BY <1>1, <1>2, TimedIs
<1>4. p \in KeyboardState /\ Waits(p) /\ Busy(p)
  BY DEF KeyboardGood
<1>5. p.step \in 0 .. 3
  BY <1>4 DEF Waits
<1>6. /\ q \in KeyboardState /\ q.step = p.step + 1 /\ q.state = "ack"
      /\ q.clock_in = p.clock_in /\ q.data_in = p.data_in /\ q.busy = p.busy
  BY <1>2, <1>4, <1>5, NextStepIs
<1>7. BitToClock \in 0 .. SendByte + BitToClock /\ BitToClock >= 1 /\ 0 \in 0 .. 1 /\ 0 \in 0 .. 4
  BY Ps2Constants
<1>8. ASSUME NEW r \in KeyboardState, r.state = "ack", r.clock_in = p.clock_in, r.step \in 0 .. 3,
             r.wait >= 1, r.busy = p.busy, NEW c \in {0, left}
      PROVE  StepGoes(p, h, clocks, Then(r, c))
  <2>1. Busy(r)
    BY <1>4, <1>8 DEF Busy
  <2>2. Waits(r)
    BY <1>8 DEF Waits
  <2>3. KeyboardGood(r) /\ r.state # "send"
    BY <1>8, <2>1, <2>2, WaitsGood
  <2>4. FreeBit(r) = 0
    BY <1>8 DEF FreeBit
  <2>5. Uses(p, clocks, r, c) /\ c \in Int
    <3>1. Uses(p, clocks, r, left)
      BY <1>3, <2>4, UsesLeft
    <3>2. Uses(p, clocks, r, 0)
      BY DEF Uses
    <3> QED
      BY <1>3, <3>1, <3>2
  <2> QED
    BY <1>8, <2>3, <2>5, GoesOut
<1>9. CASE p.step = 0 /\ p.data_in = 0
  <2> DEFINE r == [q EXCEPT !.step = 0]
  <2>1. AckStep(q, left) = Then(r, 0)
    <3>1. q.step = 1 /\ q.step # 2 /\ q.step # 3 /\ q.step # 4 /\ q.data_in = 0 /\ q.data_in # 1
      BY <1>6, <1>9
    <3> QED
      BY <3>1, Zenon DEF AckStep
  <2>2. r \in KeyboardState
    BY <1>6, <1>7, ZenonT(60) DEF KeyboardState
  <2>3. r.state = q.state /\ r.clock_in = q.clock_in /\ r.step = 0 /\ r.wait = q.wait
    BY <1>6, SMT DEF KeyboardState
  <2>4. r.busy = q.busy
    BY <1>6, ZenonT(60) DEF KeyboardState
  <2> HIDE DEF r
  <2>5. q.wait >= 1
    <3>1. q.wait = p.wait
      BY <1>2, <1>4, SMT DEF KeyboardState
    <3> QED
      BY <1>4, <3>1 DEF Waits
  <2> QED
    BY <1>3, <1>6, <1>8, <2>1, <2>2, <2>3, <2>4, <2>5
<1>10. CASE p.step = 0 /\ p.data_in = 1
  <2> DEFINE r == [q EXCEPT !.wait = BitToClock]
  <2>1. AckStep(q, left) = Then(r, left)
    <3>1. q.step = 1 /\ q.step # 2 /\ q.step # 3 /\ q.step # 4 /\ q.data_in = 1 /\ q.data_in # 0
      BY <1>6, <1>10
    <3> QED
      BY <3>1, Zenon DEF AckStep
  <2>2. r \in KeyboardState
    BY <1>6, <1>7, ZenonT(60) DEF KeyboardState
  <2>3. r.state = q.state /\ r.clock_in = q.clock_in /\ r.step = q.step /\ r.wait = BitToClock
    BY <1>6, SMT DEF KeyboardState
  <2>4. r.busy = q.busy
    BY <1>6, ZenonT(60) DEF KeyboardState
  <2> HIDE DEF r
  <2> QED
    BY <1>3, <1>6, <1>7, <1>8, <1>10, <2>1, <2>2, <2>3, <2>4
<1>11. CASE p.step = 1
  <2> DEFINE r == [q EXCEPT !.data_out = 0, !.wait = BitToClock]
  <2>1. AckStep(q, left) = Then(r, left)
    <3>1. q.step = 2 /\ q.step # 1 /\ q.step # 3 /\ q.step # 4
      BY <1>6, <1>11
    <3> QED
      BY <3>1, Zenon DEF AckStep
  <2>2. r \in KeyboardState
    BY <1>6, <1>7, ZenonT(60) DEF KeyboardState
  <2>3. r.state = q.state /\ r.clock_in = q.clock_in /\ r.step = q.step /\ r.wait = BitToClock
    BY <1>6, SMT DEF KeyboardState
  <2>4. r.busy = q.busy
    BY <1>6, ZenonT(60) DEF KeyboardState
  <2> HIDE DEF r
  <2> QED
    BY <1>3, <1>6, <1>7, <1>8, <1>11, <2>1, <2>2, <2>3, <2>4
<1>12. CASE p.step = 2
  <2> DEFINE r == [q EXCEPT !.clock_out = 0, !.wait = BitToClock]
  <2>1. AckStep(q, left) = Then(r, left)
    <3>1. q.step = 3 /\ q.step # 1 /\ q.step # 2 /\ q.step # 4
      BY <1>6, <1>12
    <3> QED
      BY <3>1, Zenon DEF AckStep
  <2>2. r \in KeyboardState
    BY <1>6, <1>7, ZenonT(60) DEF KeyboardState
  <2>3. r.state = q.state /\ r.clock_in = q.clock_in /\ r.step = q.step /\ r.wait = BitToClock
    BY <1>6, SMT DEF KeyboardState
  <2>4. r.busy = q.busy
    BY <1>6, ZenonT(60) DEF KeyboardState
  <2> HIDE DEF r
  <2> QED
    BY <1>3, <1>6, <1>7, <1>8, <1>12, <2>1, <2>2, <2>3, <2>4
<1>13. CASE p.step = 3
  <2> DEFINE x == q.receive % Pow2[DataBits]
             b == ps2_byte_received(q, x)
             r == ps2_idle(b)
  <2>1. AckStep(q, left) = Then(r, left)
    <3>1. q.step = 4 /\ q.step # 1 /\ q.step # 2 /\ q.step # 3
      BY <1>6, <1>13
    <3> QED
      BY <3>1, Zenon DEF AckStep
  <2>2. x \in Byte
    <3>1. q.receive \in Word(DataBits + 2)
      BY <1>6 DEF KeyboardState
    <3> QED
      BY <3>1, ReceivedByte
  <2> HIDE DEF x
  <2>3. b \in KeyboardState /\ b.clock_in = q.clock_in
    BY <1>6, <2>2, ReceivedKeeps DEF Kept
  <2> HIDE DEF b
  <2>4. KeyboardGood(r) /\ r.state = "idle" /\ r.clock_in = q.clock_in
    BY <2>3, IdleIs, KeyIdleGood
  <2> HIDE DEF r
  <2>5. FreeBit(r) = 0
    BY <2>4 DEF FreeBit
  <2>6. Uses(p, clocks, r, left)
    BY <1>3, <2>5, UsesLeft
  <2> QED
    BY <1>3, <1>6, <2>1, <2>4, <2>6, GoesOut
<1>14. p.step \in {0, 1, 2, 3} /\ p.data_in \in {0, 1}
  BY <1>4, <1>5 DEF KeyboardState
<1> QED
  BY <1>9, <1>10, <1>11, <1>12, <1>13, <1>14

\* So goes every turn.
LEMMA EveryStep ==
    ASSUME NEW p, KeyboardGood(p), NEW h, HeardGood(p, h), NEW clocks \in Nat \ {0}
    PROVE  StepGoes(p, h, clocks, Step(p, clocks))
<1>1. p \in KeyboardState
  BY DEF KeyboardGood
<1>2. p.state \in {"idle", "wait_host", "wait_host_2", "receive", "ack", "send_wait", "send"}
  BY <1>1 DEF KeyboardState
<1>3. CASE p.state = "idle"
  <2>1. Step(p, clocks) = ps2_state_idle(p, clocks)
    BY <1>3, SMT DEF Step
  <2> QED
    BY <1>3, <2>1, IdleGoes
<1>4. CASE p.state = "wait_host"
  <2>1. Step(p, clocks) = ps2_wait_host(p, clocks)
    BY <1>4, SMT DEF Step
  <2> QED
    BY <1>4, <2>1, WaitHostGoes
<1>5. CASE p.state = "wait_host_2"
  <2>1. Step(p, clocks) = ps2_wait_host_2(p, clocks)
    BY <1>5, SMT DEF Step
  <2> QED
    BY <1>5, <2>1, WaitHost2Goes
<1>6. CASE p.state = "send_wait"
  <2>1. Step(p, clocks) = ps2_send_wait(p, clocks)
    BY <1>6, SMT DEF Step
  <2> QED
    BY <1>6, <2>1, SendWaitGoes
<1>7. CASE p.state = "receive" /\ p.clock_in = 0
  <2>1. Step(p, clocks) = Then(ps2_abort(p), clocks)
    BY <1>7, SMT DEF Step
  <2> QED
    BY <1>7, <2>1, ReceiveAborts
<1>8. CASE p.state \in {"send", "ack"} \/ (p.state = "receive" /\ p.clock_in # 0)
  <2>1. Step(p, clocks) = Timed(p, clocks)
    BY <1>8, SMT DEF Step
  <2>2. CASE clocks - p.wait < 0
    BY <1>8, <2>1, <2>2, WaitingGoes
  <2>3. CASE ~(clocks - p.wait < 0)
    BY <1>8, <2>1, <2>3, SendGoes, ReceiveGoes, AckGoes
  <2> QED
    BY <2>2, <2>3
<1> QED
  BY <1>2, <1>3, <1>4, <1>5, <1>6, <1>7, <1>8

\* Every byte that has left a queue was read whole, unless the host held a line
\* down.
WholeEntry(e) ==
    \/ e.bits = Broken
    \/ /\ Len(e.bits) = DataBits + 3
       /\ \A i \in 1 .. DataBits + 3 : e.bits[i] = (Frame(e.byte) \div Pow2[i - 1]) % 2

\* The state of the loop of ps2_clocks.
LoopState ==
    [ps2 : KeyboardState, clocks : Int, heard : Seq(0 .. 2),
     ended : SUBSET [byte : Byte, bits : Seq(0 .. 2)]]

LoopGood(t) ==
    /\ t \in LoopState
    /\ KeyboardGood(t.ps2) /\ HeardGood(t.ps2, t.heard)
    /\ \A e \in t.ended : WholeEntry(e)

LEMMA HeardType ==
    ASSUME NEW p, NEW h, HeardGood(p, h)
    PROVE  h \in Seq(0 .. 2)
<1>1. <<>> \in Seq(0 .. 2) /\ Broken \in Seq(0 .. 2)
  BY DEF Broken
<1>2. h \in Seq(0 .. 1) => h \in Seq(0 .. 2)
  OBVIOUS
<1> QED
  BY <1>1, <1>2 DEF HeardGood, HeardWhole

LEMMA WholeSent ==
    ASSUME NEW p, KeyboardGood(p), NEW h, HeardGood(p, h), p.state = "send",
           h = Broken \/ Len(h) = DataBits + 3,
           NEW e, e = [byte |-> p.last_sent, bits |-> h]
    PROVE  WholeEntry(e) /\ e \in [byte : Byte, bits : Seq(0 .. 2)]
<1>1. p.last_sent \in Byte
  BY DEF KeyboardGood, KeyboardState
<1>2. h \in Seq(0 .. 2)
  BY HeardType
<1>3. e \in [byte : Byte, bits : Seq(0 .. 2)] /\ e.byte = p.last_sent /\ e.bits = h
  BY <1>1, <1>2
<1>4. h = Broken \/ \A i \in 1 .. Len(h) : h[i] = (Frame(p.last_sent) \div Pow2[i - 1]) % 2
  BY Zenon DEF HeardGood, HeardWhole, BitOf
<1>5. WholeEntry(e)
  BY <1>3, <1>4, Zenon DEF WholeEntry
<1> QED
  BY <1>3, <1>5

\* A turn of the loop keeps it good and comes closer to its end.
LEMMA TurnGood ==
    ASSUME NEW t, LoopGood(t), t.clocks > 0
    PROVE  LoopGood(Turn(t)) /\ Uses(t.ps2, t.clocks, Turn(t).ps2, Turn(t).clocks)
           /\ Turn(t).ps2.clock_in = t.ps2.clock_in
<1>1. PICK p : p = t.ps2
  OBVIOUS
<1>2. PICK h : h = t.heard
  OBVIOUS
<1>3. PICK c \in Nat \ {0} : c = t.clocks
  BY DEF LoopGood, LoopState
<1>4. PICK r : r = Step(p, c)
  OBVIOUS
<1>5. KeyboardGood(p) /\ HeardGood(p, h)
  BY <1>1, <1>2 DEF LoopGood
<1>6. StepGoes(p, h, c, r)
  BY <1>4, <1>5, EveryStep
<1> DEFINE leaves == p.state = "send" /\ Queued(r.ps2) < Queued(p)
           e == [byte |-> Leaves(p, r.ps2), bits |-> h]
           g == Hear(h, p, r.ps2)
           E == IF leaves THEN t.ended \cup {e} ELSE t.ended
<1>7. Turn(t) = [ps2 |-> r.ps2, clocks |-> r.clocks, heard |-> g, ended |-> E]
  BY <1>1, <1>2, <1>3, <1>4, Zenon DEF Turn
<1>8. KeyboardGood(r.ps2) /\ r.ps2 \in KeyboardState /\ r.clocks \in Int /\ HeardGood(r.ps2, g)
      /\ Uses(p, c, r.ps2, r.clocks) /\ r.ps2.clock_in = p.clock_in
  BY <1>6 DEF StepGoes, KeyboardGood
<1>9. g \in Seq(0 .. 2)
  BY <1>8, HeardType
<1>10. leaves => WholeEntry(e) /\ e \in [byte : Byte, bits : Seq(0 .. 2)]
  <2> SUFFICES ASSUME leaves  PROVE WholeEntry(e) /\ e \in [byte : Byte, bits : Seq(0 .. 2)]
    OBVIOUS
  <2>1. Leaves(p, r.ps2) = p.last_sent /\ (h = Broken \/ Len(h) = DataBits + 3)
    BY <1>6 DEF StepGoes
  <2>2. e = [byte |-> p.last_sent, bits |-> h] /\ p.state = "send"
    BY <2>1
  <2> HIDE DEF e
  <2> QED
    BY <1>5, <2>1, <2>2, WholeSent
<1>11. t.ended \in SUBSET [byte : Byte, bits : Seq(0 .. 2)] /\ \A x \in t.ended : WholeEntry(x)
  BY DEF LoopGood, LoopState
<1> HIDE DEF leaves, e, g
<1>12. E \in SUBSET [byte : Byte, bits : Seq(0 .. 2)] /\ \A x \in E : WholeEntry(x)
  BY <1>10, <1>11, Zenon
<1> HIDE DEF E
<1>13. /\ Turn(t).ps2 = r.ps2 /\ Turn(t).clocks = r.clocks /\ Turn(t).heard = g /\ Turn(t).ended = E
       /\ Turn(t) \in LoopState
  BY <1>7, <1>8, <1>9, <1>12 DEF LoopState
<1>14. LoopGood(Turn(t))
  BY <1>8, <1>12, <1>13, Zenon DEF LoopGood
<1> QED
  BY <1>1, <1>3, <1>8, <1>13, <1>14, Zenon

NextTurn(t) == IF t.clocks <= 0 THEN t ELSE Turn(t)

LoopBody(N, a, f) ==
    [n \in 0 .. N |-> IF n = 0 THEN a ELSE LET t == f[n - 1] IN IF t.clocks <= 0 THEN t ELSE Turn(t)]

Loop(N, a) == CHOOSE f : f = LoopBody(N, a, f)

GoodLoops == {t \in LoopState : LoopGood(t)}

LEMMA NextTurnGood ==
    ASSUME NEW t \in GoodLoops
    PROVE  NextTurn(t) \in GoodLoops
<1>1. LoopGood(t) /\ t.clocks \in Int
  BY DEF GoodLoops, LoopState
<1>2. CASE t.clocks <= 0
  BY <1>2, Zenon DEF NextTurn
<1>3. CASE ~(t.clocks <= 0)
  <2>1. t.clocks > 0
    BY <1>1, <1>3
  <2>2. LoopGood(Turn(t))
    BY <1>1, <2>1, TurnGood
  <2>3. Turn(t) \in GoodLoops
    BY <2>2 DEF GoodLoops, LoopGood
  <2> QED
    BY <1>3, <2>3, Zenon DEF NextTurn
<1> QED
  BY <1>2, <1>3

\* The loop does what its recursion says, and stays good.
LEMMA LoopIs ==
    ASSUME NEW a \in GoodLoops, NEW N \in Nat, NEW f, f = Loop(N, a)
    PROVE  /\ f[0] = a /\ \A n \in 1 .. N : f[n] = NextTurn(f[n - 1])
           /\ \A n \in 0 .. N : f[n] \in GoodLoops
<1> DEFINE F == [p \in Nat \X GoodLoops |-> NextTurn(p[2])]
<1>1. ASSUME NEW i \in Nat, NEW t \in GoodLoops  PROVE F[<<i, t>>] = NextTurn(t)
  <2>1. <<i, t>> \in Nat \X GoodLoops /\ <<i, t>>[2] = t
    OBVIOUS
  <2>2. \A p \in Nat \X GoodLoops : F[p] = NextTurn(p[2])
    OBVIOUS
  <2> HIDE DEF F
  <2> QED
    BY <2>1, <2>2
<1> HIDE DEF F
<1>2. Stays(F, GoodLoops, N)
  <2>1. ASSUME NEW i \in 1 .. N, NEW t \in GoodLoops  PROVE F[<<i, t>>] \in GoodLoops
    <3>1. i \in Nat
      OBVIOUS
    <3> QED
      BY <1>1, <3>1, NextTurnGood
  <2> QED
    BY <2>1 DEF Stays
<1>3. PICK g \in [0 .. N -> GoodLoops] : Iterated(F, a, N, g)
  BY <1>2, Iterates
<1>4. g = LoopBody(N, a, g)
  <2>1. ASSUME NEW n \in 0 .. N  PROVE g[n] = IF n = 0 THEN a ELSE NextTurn(g[n - 1])
    <3>1. CASE n = 0
      BY <1>3, <3>1 DEF Iterated
    <3>2. CASE n # 0
      <4>1. n \in 1 .. N /\ n \in Nat /\ n - 1 \in 0 .. N
        BY <3>2
      <4>2. g[n] = F[<<n, g[n - 1]>>]
        BY <1>3, <4>1 DEF Iterated
      <4>3. g[n - 1] \in GoodLoops
        BY <4>1
      <4> QED
        BY <1>1, <3>2, <4>1, <4>2, <4>3
    <3> QED
      BY <3>1, <3>2
  <2>2. g = [n \in 0 .. N |-> g[n]]
    OBVIOUS
  <2>3. LoopBody(N, a, g) = [n \in 0 .. N |-> IF n = 0 THEN a ELSE NextTurn(g[n - 1])]
    BY Zenon DEF LoopBody, NextTurn
  <2> QED
    BY <2>1, <2>2, <2>3
<1>5. f = LoopBody(N, a, f)
  BY <1>4, Zenon DEF Loop
<1>6. LoopBody(N, a, f) = [n \in 0 .. N |-> IF n = 0 THEN a ELSE NextTurn(f[n - 1])]
  BY Zenon DEF LoopBody, NextTurn
<1>7. f[0] = a /\ \A n \in 1 .. N : f[n] = NextTurn(f[n - 1])
  <2>1. \A n \in 0 .. N : f[n] = IF n = 0 THEN a ELSE NextTurn(f[n - 1])
    BY <1>5, <1>6
  <2>2. ASSUME NEW n \in 1 .. N  PROVE n \in 0 .. N /\ n # 0
    OBVIOUS
  <2>3. 0 \in 0 .. N
    OBVIOUS
  <2> QED
    BY <2>1, <2>2, <2>3, Zenon
<1> DEFINE T == {n \in Nat : n <= N => f[n] \in GoodLoops}
<1>8. 0 \in T
  BY <1>7
<1>9. ASSUME NEW n \in Nat, n \in T  PROVE n + 1 \in T
  <2> SUFFICES ASSUME n + 1 <= N  PROVE f[n + 1] \in GoodLoops
    OBVIOUS
  <2>1. n + 1 \in 1 .. N /\ (n + 1) - 1 = n /\ f[n] \in GoodLoops
    BY <1>9
  <2>2. f[n + 1] = NextTurn(f[n])
    BY <1>7, <2>1
  <2> QED
    BY <2>1, <2>2, NextTurnGood
<1> HIDE DEF T
<1>10. \A n \in Nat : n \in T
  BY <1>8, <1>9, NatSetInduction
<1>11. \A n \in 0 .. N : f[n] \in GoodLoops
  BY <1>10 DEF T
<1> QED
  BY <1>7, <1>11

Begun(p, c, h) == [ps2 |-> p, clocks |-> c, heard |-> h, ended |-> {}]

LEMMA ClocksIs ==
    ASSUME NEW p, NEW c, NEW h
    PROVE  ps2_clocks(p, c, h) = Loop(c + FreeTurns, Begun(p, c, h))[c + FreeTurns]
  BY Zenon DEF ps2_clocks, Loop, LoopBody, Begun

\* The turns that use no clocks are few.
LEMMA FreeFew ==
    ASSUME NEW p, NEW q, NEW c, NEW d
    PROVE  /\ FreeBit(p) \in 0 .. FreeTurns
           /\ Uses(p, c, q, d) /\ q.clock_in = p.clock_in => d <= 0 \/ d + FreeBit(q) <= (c + FreeBit(p)) - 1
<1>1. FreeBit(p) \in 0 .. FreeTurns
  BY DEF FreeBit, FreeTurns
<1> QED
  BY <1>1, Zenon DEF Uses

\* The loop of ps2_clocks ends within the turns that the model gives it, and
\* leaves the keyboard good.
LEMMA ClocksGood ==
    ASSUME NEW p, KeyboardGood(p), NEW h, HeardGood(p, h), NEW c \in Nat
    PROVE  LoopGood(ps2_clocks(p, c, h)) /\ ps2_clocks(p, c, h).clocks <= 0
<1> DEFINE N == c + FreeTurns
           a == Begun(p, c, h)
<1>1. PICK f : f = Loop(N, a)
  OBVIOUS
<1>2. N \in Nat /\ N \in 0 .. N
  BY DEF FreeTurns
<1>3. a.ps2 = p /\ a.clocks = c /\ a.heard = h /\ a.ended = {}
  BY DEF Begun
<1>4. a \in GoodLoops
  <2>1. h \in Seq(0 .. 2) /\ p \in KeyboardState /\ c \in Int
    BY HeardType DEF KeyboardGood
  <2>2. a \in LoopState
    BY <2>1 DEF Begun, LoopState
  <2> HIDE DEF a
  <2> QED
    BY <1>3, <2>2, Zenon DEF GoodLoops, LoopGood
<1>5. ps2_clocks(p, c, h) = f[N]
  BY <1>1, ClocksIs
<1> HIDE DEF a
<1> DEFINE m == c + FreeBit(p)
<1>6. m \in Nat /\ m <= N
  BY FreeFew DEF FreeTurns
<1> HIDE DEF N
<1>7. /\ f[0] = a /\ \A n \in 1 .. N : f[n] = NextTurn(f[n - 1])
      /\ \A n \in 0 .. N : f[n] \in GoodLoops
  BY <1>1, <1>2, <1>4, LoopIs
<1> DEFINE Nears(n) == f[n].clocks <= 0 \/ f[n].clocks + FreeBit(f[n].ps2) <= m - n
           T == {n \in Nat : n <= N => Nears(n)}
<1>8. 0 \in T
  BY <1>3, <1>6, <1>7
<1>9. ASSUME NEW n \in Nat, n \in T  PROVE n + 1 \in T
  <2> SUFFICES ASSUME n + 1 <= N  PROVE Nears(n + 1)
    OBVIOUS
  <2>1. n + 1 \in 1 .. N /\ (n + 1) - 1 = n /\ n \in 0 .. N /\ n + 1 \in 0 .. N /\ n <= N
    BY <1>2
  <2>2. Nears(n)
    BY <1>9, <2>1
  <2>3. PICK t : t = f[n]
    OBVIOUS
  <2>4. PICK u : u = f[n + 1]
    OBVIOUS
  <2>5. u = NextTurn(t) /\ LoopGood(t) /\ LoopGood(u)
    BY <1>7, <2>1, <2>3, <2>4 DEF GoodLoops
  <2>6. t.clocks \in Int /\ u.clocks \in Int /\ FreeBit(t.ps2) \in 0 .. FreeTurns /\ FreeBit(u.ps2) \in 0 .. FreeTurns
    BY <2>5, FreeFew DEF LoopGood, LoopState
  <2>7. CASE t.clocks <= 0
    <3>1. u = t
      BY <2>5, <2>7, Zenon DEF NextTurn
    <3> QED
      BY <2>4, <2>7, <3>1
  <2>8. CASE ~(t.clocks <= 0)
    <3>1. u = Turn(t) /\ t.clocks > 0
      BY <2>5, <2>6, <2>8 DEF NextTurn
    <3>2. Uses(t.ps2, t.clocks, u.ps2, u.clocks)
      BY <2>5, <3>1, TurnGood
    <3>3. t.clocks + FreeBit(t.ps2) <= m - n
      BY <2>2, <2>3, <2>8, Zenon
    <3>4. u.clocks <= 0 \/ u.clocks + FreeBit(u.ps2) <= m - (n + 1)
      <4>1. PICK x \in Int, y \in Int, v \in Int, w \in Int :
                x = t.clocks /\ y = FreeBit(t.ps2) /\ v = u.clocks /\ w = FreeBit(u.ps2)
        BY <2>6 DEF FreeTurns
      <4>2. x + y <= m - n /\ (v <= 0 \/ v + w <= (x + y) - 1)
        BY <3>2, <3>3, <4>1 DEF Uses
      <4>3. v <= 0 \/ v + w <= m - (n + 1)
        BY <1>6, <4>2
      <4> QED
        BY <4>1, <4>3
    <3> QED
      BY <2>4, <3>4
  <2> QED
    BY <2>7, <2>8
<1> HIDE DEF T
<1>10. N \in T
  BY <1>2, <1>8, <1>9, NatSetInduction
<1>11. Nears(N)
  BY <1>2, <1>10 DEF T
<1>12. LoopGood(f[N])
  BY <1>2, <1>7 DEF GoodLoops
<1>13. f[N].clocks <= 0
  <2>1. PICK t : t = f[N]
    OBVIOUS
  <2>2. t.clocks \in Int /\ FreeBit(t.ps2) \in Nat
    <3>1. t.clocks \in Int
      BY <1>12, <2>1 DEF LoopGood, LoopState
    <3>2. FreeBit(t.ps2) \in 0 .. FreeTurns
      BY FreeFew
    <3> QED
      BY <3>1, <3>2 DEF FreeTurns
  <2>3. PICK x \in Int, y \in Nat : x = t.clocks /\ y = FreeBit(t.ps2)
    BY <2>2
  <2>4. x <= 0 \/ x + y <= m - N
    BY <1>11, <2>1, <2>3, Zenon
  <2>5. x <= 0
    BY <1>2, <1>6, <2>4
  <2> QED
    BY <2>1, <2>3, <2>5
<1> QED
  BY <1>5, <1>12, <1>13

\* The byte at the head of the chosen queue becomes the frame to send.
LEMMA BeginsGood ==
    ASSUME NEW p, KeyboardGood(p), p.state = "idle", NEW m \in BOOLEAN, NEW b,
           m => p.rbuffer # <<>> /\ b = p.rbuffer[1],
           ~m => p.buffer # <<>> /\ b = p.buffer[1],
           NEW q, q = [ps2_begin_sending(p, b) EXCEPT !.replymode = m]
    PROVE  KeyboardGood(q) /\ q.state = "send_wait"
<1> DEFINE f == Frame(b)
           n == DataBits + 3
           z == [p EXCEPT !.last_sent = b, !.send = f, !.busy = TRUE, !.state = "send_wait", !.count = n]
<1>1. p \in KeyboardState /\ p.clock_out = 1
  BY DEF KeyboardGood
<1>2. b \in Byte
  <2>1. p.rbuffer \in Queue /\ p.buffer \in Queue
    BY <1>1 DEF KeyboardState
  <2>2. m => b \in Byte
    BY <2>1, QueueDrops
  <2>3. ~m => b \in Byte
    BY <2>1, QueueDrops
  <2> QED
    BY <2>2, <2>3
<1>3. f \in Word(n) /\ n \in 0 .. n /\ TRUE \in BOOLEAN
  BY <1>2, FrameType, Ps2Constants
<1>4. ps2_begin_sending(p, b) = z
  BY Zenon DEF ps2_begin_sending
<1>5. n = DataBits + 3
  OBVIOUS
<1> HIDE DEF f, n
<1>6. "send_wait" \in {"idle", "wait_host", "wait_host_2", "receive", "ack", "send_wait", "send"}
  OBVIOUS
<1>7. z \in KeyboardState
  BY <1>1, <1>2, <1>3, <1>5, <1>6, ZenonT(60) DEF KeyboardState
<1>8. /\ z.state = "send_wait" /\ z.clock_out = p.clock_out /\ z.count = n /\ z.send = f /\ z.last_sent = b
      /\ z.rbuffer = p.rbuffer /\ z.buffer = p.buffer
  BY <1>1, SMT DEF KeyboardState
<1>9. z.busy = TRUE
  BY <1>1, ZenonT(60) DEF KeyboardState
<1> HIDE DEF z
<1>10. q = [z EXCEPT !.replymode = m]
  BY <1>4
<1>11. q \in KeyboardState
  BY <1>7, <1>10, ZenonT(60) DEF KeyboardState
<1>12. /\ q.state = z.state /\ q.clock_out = z.clock_out /\ q.count = z.count /\ q.send = z.send
       /\ q.last_sent = z.last_sent /\ q.rbuffer = z.rbuffer /\ q.buffer = z.buffer
  BY <1>7, <1>10, SMT DEF KeyboardState
<1>13. q.busy = z.busy /\ q.replymode = m
  BY <1>7, <1>10, ZenonT(60) DEF KeyboardState
<1>14. Busy(q)
  BY <1>8, <1>9, <1>12, <1>13 DEF Busy
<1>15. HeadIs(q)
  BY <1>8, <1>12, <1>13, ZenonT(60) DEF HeadIs
<1>16. q.count = DataBits + 3 /\ q.send = Frame(q.last_sent)
  BY <1>5, <1>8, <1>12 DEF f
<1> QED
  BY <1>1, <1>8, <1>11, <1>12, <1>14, <1>15, <1>16 DEF KeyboardGood

LEMMA PollGood ==
    ASSUME NEW p, KeyboardGood(p), NEW h, HeardGood(p, h)
    PROVE  KeyboardGood(ps2_poll(p)) /\ HeardGood(ps2_poll(p), h)
<1>1. CASE p.busy
  <2>1. ps2_poll(p) = p
    BY <1>1, Zenon DEF ps2_poll
  <2> QED
    BY <2>1
<1>2. CASE ~p.busy
  <2>1. p.state = "idle" /\ p \in KeyboardState
    <3>1. p.busy \in BOOLEAN /\ Busy(p) /\ p \in KeyboardState
      BY DEF KeyboardGood, KeyboardState
    <3> QED
      BY <1>2, <3>1, Zenon DEF Busy
  <2>2. h = <<>>
    BY <2>1 DEF HeardGood
  <2>3. TRUE \in BOOLEAN /\ FALSE \in BOOLEAN
    OBVIOUS
  <2>4. ASSUME NEW q, KeyboardGood(q), q.state = "send_wait"  PROVE HeardGood(q, h)
    BY <2>2, <2>4 DEF HeardGood
  <2>5. CASE p.rbuffer # <<>>
    <3>1. ps2_poll(p) = [ps2_begin_sending(p, p.rbuffer[1]) EXCEPT !.replymode = TRUE]
      BY <1>2, <2>5, Zenon DEF ps2_poll
    <3>2. PICK m \in BOOLEAN : m = TRUE
      OBVIOUS
    <3>3. PICK b : b = p.rbuffer[1]
      OBVIOUS
    <3>4. PICK q : q = [ps2_begin_sending(p, b) EXCEPT !.replymode = m]
      OBVIOUS
    <3>5. KeyboardGood(q) /\ q.state = "send_wait"
      BY <2>1, <2>5, <3>2, <3>3, <3>4, BeginsGood
    <3>6. ps2_poll(p) = q
      BY <3>1, <3>2, <3>3, <3>4, Zenon
    <3> QED
      BY <2>4, <3>5, <3>6
  <2>6. CASE p.rbuffer = <<>> /\ p.buffer # <<>>
    <3>1. ps2_poll(p) = [ps2_begin_sending(p, p.buffer[1]) EXCEPT !.replymode = FALSE]
      BY <1>2, <2>6, Zenon DEF ps2_poll
    <3>2. PICK m \in BOOLEAN : m = FALSE
      OBVIOUS
    <3>3. PICK b : b = p.buffer[1]
      OBVIOUS
    <3>4. PICK q : q = [ps2_begin_sending(p, b) EXCEPT !.replymode = m]
      OBVIOUS
    <3>5. KeyboardGood(q) /\ q.state = "send_wait"
      BY <2>1, <2>6, <3>2, <3>3, <3>4, BeginsGood
    <3>6. ps2_poll(p) = q
      BY <3>1, <3>2, <3>3, <3>4, Zenon
    <3> QED
      BY <2>4, <3>5, <3>6
  <2>7. CASE p.rbuffer = <<>> /\ p.buffer = <<>>
    <3>1. ps2_poll(p) = p
      BY <1>2, <2>7, Zenon DEF ps2_poll
    <3> QED
      BY <3>1
  <2> QED
    BY <2>5, <2>6, <2>7
<1> QED
  BY <1>1, <1>2

\* A keyboard that differs in what software drives and in a longer queue.
LEMMA OutsideGood ==
    ASSUME NEW p, KeyboardGood(p), NEW h, HeardGood(p, h), NEW q \in KeyboardState,
           q.state = p.state, q.clock_out = p.clock_out, q.data_out = p.data_out, q.step = p.step,
           q.count = p.count, q.wait = p.wait, q.send = p.send, q.last_sent = p.last_sent,
           q.busy = p.busy, q.replymode = p.replymode, q.rbuffer = p.rbuffer,
           p.buffer # <<>> => q.buffer # <<>> /\ q.buffer[1] = p.buffer[1]
    PROVE  KeyboardGood(q) /\ HeardGood(q, h)
<1>1. Busy(q)
  BY Zenon DEF KeyboardGood, Busy
<1>2. p.state \in {"send_wait", "send"} => HeadIs(q)
  <2> SUFFICES ASSUME p.state \in {"send_wait", "send"}  PROVE HeadIs(q)
    OBVIOUS
  <2>1. HeadIs(p)
    BY DEF KeyboardGood
  <2> QED
    BY <2>1, Zenon DEF HeadIs
<1>3. Sent(q) = Sent(p)
  BY DEF Sent
<1>4. p.state = "send" => KeySendGood(q)
  <2> SUFFICES ASSUME p.state = "send"  PROVE KeySendGood(q)
    OBVIOUS
  <2>1. KeySendGood(p)
    BY DEF KeyboardGood
  <2> QED
    BY <1>3, <2>1, Zenon DEF KeySendGood
<1>5. Waits(p) => Waits(q)
  BY DEF Waits
<1>6. KeyboardGood(q)
  BY <1>1, <1>2, <1>4, <1>5 DEF KeyboardGood
<1>7. HeardGood(q, h)
  BY <1>3, Zenon DEF HeardGood, HeardWhole
<1> QED
  BY <1>6, <1>7

Ps2Inv ==
    /\ KeyboardGood(ps2) /\ HeardGood(ps2, heard)
    /\ \A e \in ended : WholeEntry(e)

LEMMA KeyKeeps ==
    ASSUME Ps2Inv, Ps2Key
    PROVE  Ps2Inv'
<1>1. PICK k \in Keys : ps2' = ps2_queue_key(ps2, k)
  BY DEF Ps2Key
<1>2. PICK q : q = ps2_queue_key(ps2, k)
  OBVIOUS
<1>3. k \in Byte /\ ps2 \in KeyboardState /\ KeyboardGood(ps2) /\ HeardGood(ps2, heard)
  BY Ps2Assumption DEF Ps2Inv, KeyboardGood
<1>4. KeyboardGood(q) /\ HeardGood(q, heard)
  <2>1. CASE ps2.disabled \/ Len(ps2.buffer) = BufSize
    <3>1. q = ps2
      BY <1>2, <2>1, Zenon DEF ps2_queue_key
    <3> QED
      BY <1>3, <3>1
  <2>2. CASE ~(ps2.disabled \/ Len(ps2.buffer) = BufSize)
    <3> DEFINE s == Append(ps2.buffer, k)
    <3>1. q = [ps2 EXCEPT !.buffer = s]
      BY <1>2, <2>2, Zenon DEF ps2_queue_key
    <3>2. ps2.buffer \in Queue /\ Len(ps2.buffer) # BufSize
      BY <1>3, <2>2 DEF KeyboardState
    <3>3. s \in Queue /\ s # <<>> /\ (ps2.buffer # <<>> => s[1] = ps2.buffer[1])
      BY <1>3, <3>2, QueueAdds
    <3> HIDE DEF s
    <3>4. q \in KeyboardState
      BY <1>3, <3>1, <3>3, ZenonT(60) DEF KeyboardState
    <3>5. /\ q.state = ps2.state /\ q.clock_out = ps2.clock_out /\ q.data_out = ps2.data_out
          /\ q.step = ps2.step /\ q.count = ps2.count /\ q.wait = ps2.wait /\ q.send = ps2.send
          /\ q.last_sent = ps2.last_sent /\ q.rbuffer = ps2.rbuffer /\ q.buffer = s
      BY <1>3, <3>1, SMT DEF KeyboardState
    <3>6. q.busy = ps2.busy /\ q.replymode = ps2.replymode
      BY <1>3, <3>1, ZenonT(60) DEF KeyboardState
    <3> QED
      BY <1>3, <3>3, <3>4, <3>5, <3>6, OutsideGood
  <2> QED
    BY <2>1, <2>2
<1>5. ps2' = q /\ heard' = heard /\ ended' = ended
  BY <1>1, <1>2 DEF Ps2Key
<1> QED
  BY <1>4, <1>5, Zenon DEF Ps2Inv

LEMMA LinesKeep ==
    ASSUME Ps2Inv, Ps2SetLines
    PROVE  Ps2Inv'
<1>1. PICK c \in 0 .. 1, d \in 0 .. 1 : ps2' = [ps2 EXCEPT !.clock_in = c, !.data_in = d]
  BY DEF Ps2SetLines
<1>2. PICK q : q = [ps2 EXCEPT !.clock_in = c, !.data_in = d]
  OBVIOUS
<1>3. ps2 \in KeyboardState /\ KeyboardGood(ps2) /\ HeardGood(ps2, heard)
  BY DEF Ps2Inv, KeyboardGood
<1>4. q \in KeyboardState
  BY <1>2, <1>3, ZenonT(60) DEF KeyboardState
<1>5. /\ q.state = ps2.state /\ q.clock_out = ps2.clock_out /\ q.data_out = ps2.data_out
      /\ q.step = ps2.step /\ q.count = ps2.count /\ q.wait = ps2.wait /\ q.send = ps2.send
      /\ q.last_sent = ps2.last_sent /\ q.rbuffer = ps2.rbuffer /\ q.buffer = ps2.buffer
  BY <1>2, <1>3, SMT DEF KeyboardState
<1>6. q.busy = ps2.busy /\ q.replymode = ps2.replymode
  BY <1>2, <1>3, ZenonT(60) DEF KeyboardState
<1>7. KeyboardGood(q) /\ HeardGood(q, heard)
  BY <1>3, <1>4, <1>5, <1>6, OutsideGood
<1>8. ps2' = q /\ heard' = heard /\ ended' = ended
  BY <1>1, <1>2 DEF Ps2SetLines
<1> QED
  BY <1>7, <1>8, Zenon DEF Ps2Inv

LEMMA EventKeeps ==
    ASSUME Ps2Inv, NEW c \in EventClocks, Ps2Event(c)
    PROVE  Ps2Inv'
<1>1. PICK r : r = ps2_clocks(ps2, c, heard)
  OBVIOUS
<1>2. c \in Nat
  BY Ps2Assumption
<1>3. LoopGood(r)
  BY <1>1, <1>2, ClocksGood DEF Ps2Inv
<1>4. ps2' = ps2_poll(r.ps2) /\ heard' = r.heard /\ ended' = r.ended
  BY <1>1, Zenon DEF Ps2Event
<1>5. KeyboardGood(ps2_poll(r.ps2)) /\ HeardGood(ps2_poll(r.ps2), r.heard) /\ \A e \in r.ended : WholeEntry(e)
  BY <1>3, PollGood DEF LoopGood
<1> QED
  BY <1>4, <1>5, Zenon DEF Ps2Inv

LEMMA Ps2Begins ==
    ASSUME Ps2Init
    PROVE  Ps2Inv
<1> DEFINE s == <<Reply["AA"]>>
           q == [clock_in |-> 0, clock_out |-> 1, data_in |-> 0, data_out |-> 1,
                 state |-> "idle", step |-> 0, count |-> 0, wait |-> 0, rxstate |-> 0, last_sent |-> 0,
                 receive |-> 0, send |-> 0, busy |-> FALSE, replymode |-> FALSE, disabled |-> FALSE,
                 rbuffer |-> s, buffer |-> <<>>]
<1>1. /\ 0 \in 0 .. 1 /\ 1 \in 0 .. 1 /\ 0 \in 0 .. 4 /\ 0 \in 0 .. 3 /\ FALSE \in BOOLEAN
      /\ 0 \in 0 .. DataBits + 3 /\ 0 \in 0 .. SendByte + BitToClock
      /\ "idle" \in {"idle", "wait_host", "wait_host_2", "receive", "ack", "send_wait", "send"}
  BY Ps2Constants
<1>2. 0 \in Byte /\ 0 \in Word(DataBits + 2) /\ 0 \in Word(DataBits + 3)
  <2>1. ASSUME NEW n \in Nat  PROVE 0 \in Word(n)
    BY Pow2Is DEF Word
  <2>2. DataBits \in Nat /\ DataBits + 2 \in Nat /\ DataBits + 3 \in Nat
    BY Ps2Constants
  <2> QED
    BY <2>1, <2>2 DEF Byte
<1>3. s \in Queue /\ <<>> \in Queue
  BY Ps2Assumption, ReplyBytes DEF Queue
<1>4. ps2 = q /\ heard = <<>> /\ ended = {}
  BY DEF Ps2Init, Ps2Created
<1> HIDE DEF s
<1>5. q \in KeyboardState
  BY <1>1, <1>2, <1>3, ZenonT(60) DEF KeyboardState
<1>6. q.state = "idle" /\ q.clock_out = 1 /\ q.busy = FALSE
  OBVIOUS
<1> HIDE DEF q
<1>7. KeyboardGood(q)
  BY <1>5, <1>6, KeyIdleGood
<1> QED
  BY <1>4, <1>6, <1>7 DEF Ps2Inv, HeardGood

LEMMA Ps2Step == Ps2Inv /\ [Ps2Next]_ps2Vars => Ps2Inv'
<1> SUFFICES ASSUME Ps2Inv, [Ps2Next]_ps2Vars  PROVE Ps2Inv'
  OBVIOUS
<1>1. CASE Ps2SetLines
  BY <1>1, LinesKeep
<1>2. CASE Ps2Key
  BY <1>2, KeyKeeps
<1>3. CASE \E c \in EventClocks : Ps2Event(c)
  BY <1>3, EventKeeps
<1>4. CASE UNCHANGED ps2Vars
  BY <1>4, Zenon DEF ps2Vars, Ps2Inv
<1> QED
  BY <1>1, <1>2, <1>3, <1>4 DEF Ps2Next

LEMMA Ps2InvHolds == Ps2Spec => []Ps2Inv
<1>1. Ps2Init => Ps2Inv
  BY Ps2Begins
<1> QED
  BY <1>1, Ps2Step, PTL DEF Ps2Spec

LEMMA Ps2InvImplies == Ps2Inv => Ps2TypeOK /\ Ps2SendsWhole
<1> SUFFICES ASSUME Ps2Inv  PROVE Ps2TypeOK /\ Ps2SendsWhole
  OBVIOUS
<1>1. ps2 \in KeyboardState /\ DataBits \in Nat /\ KeyboardGood(ps2) /\ HeardGood(ps2, heard)
  BY Ps2Constants DEF Ps2Inv, KeyboardGood
<1>2. Len(heard) <= DataBits + 3
  <2>1. CASE ps2.state # "send"
    <3>1. heard = <<>> /\ Len(<<>>) = 0
      BY <1>1, <2>1 DEF HeardGood
    <3> QED
      BY <1>1, <3>1
  <2>2. CASE ps2.state = "send"
    <3>1. ps2.count \in 1 .. DataBits + 3
      BY <1>1, <2>2 DEF KeyboardGood, KeySendGood
    <3>2. Sent(ps2) \in Nat /\ Sent(ps2) + 1 <= DataBits + 3
      BY <1>1, <3>1 DEF Sent
    <3>3. heard = Broken \/ Len(heard) = Sent(ps2) \/ Len(heard) = Sent(ps2) + 1
      BY <1>1, <2>2, Zenon DEF HeardGood, HeardWhole
    <3>4. heard = Broken => Len(heard) = 1
      BY DEF Broken
    <3> QED
      BY <1>1, <3>2, <3>3, <3>4
  <2> QED
    BY <2>1, <2>2
<1>3. Ps2SendsWhole
  BY Zenon DEF Ps2Inv, WholeEntry, Ps2SendsWhole
<1> QED
  BY <1>1, <1>2, <1>3 DEF Ps2TypeOK

\* A byte leaves a queue of the keyboard only after the host has read all bits of
\* its frame from the lines in one piece, however often it cut the frame off, or
\* has held a line down at an edge of that frame: ps2_byte_sent is called for the
\* right byte.
THEOREM Ps2Whole == Ps2Spec => []Ps2SendsWhole
<1>1. Ps2Spec => []Ps2Inv
  BY Ps2InvHolds
<1> QED
  BY <1>1, Ps2InvImplies, PTL

\* The loop of ps2_clocks uses up its clocks within FreeTurns turns more than
\* it was given clocks: the bound on the model's turns cuts nothing off, and
\* the while of the code ends.
THEOREM Ps2LoopEnds ==
    Ps2Spec => [](\A c \in EventClocks : ps2_clocks(ps2, c, heard).clocks <= 0)
<1>1. Ps2Spec => []Ps2Inv
  BY Ps2InvHolds
<1>2. Ps2Inv => \A c \in EventClocks : ps2_clocks(ps2, c, heard).clocks <= 0
  <2> SUFFICES ASSUME Ps2Inv, NEW c \in EventClocks  PROVE ps2_clocks(ps2, c, heard).clocks <= 0
    OBVIOUS
  <2>1. c \in Nat
    BY Ps2Assumption
  <2> QED
    BY <2>1, ClocksGood DEF Ps2Inv
<1> QED
  BY <1>1, <1>2, PTL

-----------------------------------------------------------------------------
(* The I2C bus and its clock *)

\* Byte k of the bits s, and the bytes that are complete after q groups and
\* pos bits more.
ByteOf(s, k) == Value(s, k * Group + 1, ByteBits)
Done(q, pos) == IF pos = ByteBits THEN q + 1 ELSE q

\* The address is coming in.
Addressed(bus, r, s, f, pos) ==
    /\ bus.state = "ID" /\ bus.byte = Value(s, 1, pos) /\ r.bp = f
    /\ pos = ByteBits - 1 => bus.devid = Value(s, 1, ByteBits - 1)

\* Bytes are written: the shift register ends with the bits of this one, and
\* the clock holds those before it.
InChip(r, s, done) ==
    /\ r.first = TRUE <=> done = 1
    /\ done > 1 =>
         /\ r.bp = (ByteOf(s, 1) + done - 2) % RamSize
         /\ \A k \in 2 .. done - 1 :
                k + RamSize >= done => r.ram[(ByteOf(s, 1) + k - 2) % RamSize] = ByteOf(s, k)

Writing(bus, r, s, q, pos) ==
    /\ bus.state = "DATA_IN"
    /\ pos = ByteBits => bus.output = 0
    /\ bus.byte % Pow2[pos] = Value(s, q * Group + 1, pos)
    /\ bus.current = TRUE => InChip(r, s, Done(q, pos))

\* The cell that goes out after done complete bytes.
Out(r, f, done) == r.ram[(f + done - 1) % RamSize]

\* Bytes are read: the shift register holds what is left of the cell.
Reading(bus, r, f, q, pos) ==
    /\ bus.state = "DATA_OUT"
    /\ bus.current = TRUE =>
         /\ r.bp = (f + Done(q, pos)) % RamSize
         /\ pos = ByteBits => bus.byte = Out(r, f, q + 1)
         /\ pos < ByteBits => /\ bus.byte = (Out(r, f, q) * Pow2[pos + 1]) % Pow2[ByteBits]
                              /\ bus.output = (Out(r, f, q) \div Pow2[(ByteBits - 1) - pos]) % 2

\* What the bus, the clock chip, the bits since the START and the pointer of
\* the chip at the START have to do with each other.
InStep(bus, r, s, f, q, pos) ==
    IF Done(q, pos) = 0 THEN Addressed(bus, r, s, f, pos)
    ELSE /\ bus.current = TRUE <=> Value(s, 1, ByteBits - 1) = RTC_ID
         /\ IF s[ByteBits] = 0 THEN Writing(bus, r, s, q, pos) ELSE Reading(bus, r, f, q, pos)

BusGood(bus, r, s, f) ==
    /\ bus \in I2cState /\ r \in RtcState /\ s \in Seq(0 .. 1) /\ f \in Cell
    /\ bus.state # "IDLE" =>
         \E q \in Nat, pos \in 0 .. ByteBits :
             Len(s) = q * Group + pos /\ bus.bitcnt = pos /\ InStep(bus, r, s, f, q, pos)

I2cInv == BusGood(i2c, rtc, since, from)

I2cConst == ByteBits \in Nat /\ ByteBits >= 2 /\ RamSize \in Nat \ {0}

LEMMA I2cConstants == I2cConst /\ Group = ByteBits + 1 /\ Group \in Nat \ {0} /\ 0 \in Octet /\ 0 \in Cell
<1>1. ByteBits \in Nat /\ ByteBits >= 2 /\ RamSize \in 1 .. Pow2[ByteBits]
  BY I2cAssumption
<1>2. Pow2[ByteBits] \in Nat \ {0}
  BY <1>1, Pow2Is
<1> QED
  BY <1>1, <1>2 DEF I2cConst, Group, Octet, Cell

-----------------------------------------------------------------------------
(* The value of a run of bits *)

ValueBody(s, i, n, f) == [k \in 0 .. n |-> IF k = 0 THEN 0 ELSE f[k - 1] * 2 + s[i + k - 1]]

Values(s, i, n) == CHOOSE f : f = ValueBody(s, i, n, f)

LEMMA ValueUnfolds ==
    ASSUME NEW s, NEW i, NEW n
    PROVE  Value(s, i, n) = Values(s, i, n)[n]
  BY Zenon DEF Value, Values, ValueBody

\* The step of the recursion.
Bits(s, i) == [p \in Nat \X Nat |-> p[2] * 2 + s[i + p[1] - 1]]

LEMMA BitsIs ==
    ASSUME NEW s, NEW i, NEW k \in Nat, NEW x \in Nat
    PROVE  Bits(s, i)[<<k, x>>] = x * 2 + s[i + k - 1]
<1>1. \A p \in Nat \X Nat : Bits(s, i)[p] = p[2] * 2 + s[i + p[1] - 1]
  BY DEF Bits
<1>2. <<k, x>> \in Nat \X Nat /\ <<k, x>>[1] = k /\ <<k, x>>[2] = x
  OBVIOUS
<1> QED
  BY <1>1, <1>2

LEMMA ValuesAre ==
    ASSUME NEW s \in Seq(0 .. 1), NEW i \in Nat \ {0}, NEW n \in Nat, i + n - 1 <= Len(s), NEW f, f = Values(s, i, n)
    PROVE  Iterated(Bits(s, i), 0, n, f) /\ \A k \in 0 .. n : f[k] \in Nat
<1>1. ASSUME NEW k \in 1 .. n  PROVE s[i + k - 1] \in 0 .. 1
  <2>1. i + k - 1 \in 1 .. Len(s)
    OBVIOUS
  <2> QED
    BY <2>1
<1>2. Stays(Bits(s, i), Nat, n)
  <2>1. ASSUME NEW k \in 1 .. n, NEW x \in Nat  PROVE Bits(s, i)[<<k, x>>] \in Nat
    <3>1. Bits(s, i)[<<k, x>>] = x * 2 + s[i + k - 1]
      BY BitsIs
    <3>2. PICK d \in 0 .. 1 : d = s[i + k - 1]
      BY <1>1
    <3> QED
      BY <3>1, <3>2
  <2> QED
    BY <2>1 DEF Stays
<1>3. PICK g \in [0 .. n -> Nat] : Iterated(Bits(s, i), 0, n, g)
  BY <1>2, Iterates
<1>4. g = ValueBody(s, i, n, g)
  <2>1. ASSUME NEW k \in 0 .. n  PROVE g[k] = IF k = 0 THEN 0 ELSE g[k - 1] * 2 + s[i + k - 1]
    <3>1. CASE k = 0
      BY <1>3, <3>1 DEF Iterated
    <3>2. CASE k # 0
      <4>1. k \in 1 .. n /\ k \in Nat /\ k - 1 \in 0 .. n
        BY <3>2
      <4>2. g[k] = Bits(s, i)[<<k, g[k - 1]>>]
        BY <1>3, <4>1 DEF Iterated
      <4>3. g[k - 1] \in Nat
        BY <4>1
      <4>4. Bits(s, i)[<<k, g[k - 1]>>] = g[k - 1] * 2 + s[i + k - 1]
        BY <4>1, <4>3, BitsIs
      <4> QED
        BY <3>2, <4>2, <4>4
    <3> QED
      BY <3>1, <3>2
  <2>2. g = [k \in 0 .. n |-> g[k]]
    OBVIOUS
  <2>3. ValueBody(s, i, n, g) = [k \in 0 .. n |-> IF k = 0 THEN 0 ELSE g[k - 1] * 2 + s[i + k - 1]]
    BY Zenon DEF ValueBody
  <2> QED
    BY <2>1, <2>2, <2>3
<1>5. f = ValueBody(s, i, n, f)
  BY <1>4, Zenon DEF Values
<1>6. \A k \in 0 .. n : f[k] = IF k = 0 THEN 0 ELSE f[k - 1] * 2 + s[i + k - 1]
  <2>1. ValueBody(s, i, n, f) = [k \in 0 .. n |-> IF k = 0 THEN 0 ELSE f[k - 1] * 2 + s[i + k - 1]]
    BY Zenon DEF ValueBody
  <2> QED
    BY <1>5, <2>1
<1> DEFINE T == {k \in Nat : k <= n => f[k] \in Nat}
<1>7. 0 \in T
  BY <1>6
<1>8. ASSUME NEW k \in Nat, k \in T  PROVE k + 1 \in T
  <2> SUFFICES ASSUME k + 1 <= n  PROVE f[k + 1] \in Nat
    OBVIOUS
  <2>1. k + 1 \in 1 .. n /\ k + 1 \in 0 .. n /\ k + 1 # 0 /\ (k + 1) - 1 = k /\ f[k] \in Nat
    BY <1>8
  <2>2. f[k + 1] = f[k] * 2 + s[i + (k + 1) - 1]
    BY <1>6, <2>1
  <2>3. PICK d \in 0 .. 1 : d = s[i + (k + 1) - 1]
    BY <1>1, <2>1
  <2>4. PICK x \in Nat : x = f[k]
    BY <2>1
  <2>5. f[k + 1] = x * 2 + d
    BY <2>2, <2>3, <2>4
  <2> QED
    BY <2>5
<1> HIDE DEF T
<1>9. \A k \in Nat : k \in T
  BY <1>7, <1>8, NatSetInduction
<1>10. \A k \in 0 .. n : f[k] \in Nat
  BY <1>9 DEF T
<1>11. Iterated(Bits(s, i), 0, n, f)
  <2>1. f[0] = 0
    BY <1>6
  <2>2. ASSUME NEW k \in 1 .. n  PROVE f[k] = Bits(s, i)[<<k, f[k - 1]>>]
    <3>1. k \in 0 .. n /\ k # 0 /\ k \in Nat /\ k - 1 \in 0 .. n
      OBVIOUS
    <3>2. PICK x \in Nat : x = f[k - 1]
      BY <1>10, <3>1
    <3>3. Bits(s, i)[<<k, x>>] = x * 2 + s[i + k - 1]
      <4>1. k \in Nat /\ x \in Nat
        BY <3>1
      <4> QED
        BY ONLY <4>1, BitsIs
    <3>4. f[k] = x * 2 + s[i + k - 1]
      BY <1>6, <3>1, <3>2
    <3> QED
      BY <3>2, <3>3, <3>4
  <2> QED
    BY <2>1, <2>2 DEF Iterated
<1> QED
  BY <1>10, <1>11

\* What Value computes: one bit more doubles it and adds the bit,
LEMMA ValueIs ==
    ASSUME NEW s \in Seq(0 .. 1), NEW i \in Nat \ {0}, NEW n \in Nat, i + n - 1 <= Len(s)
    PROVE  /\ Value(s, i, n) \in Nat
           /\ n = 0 => Value(s, i, n) = 0
           /\ i + n <= Len(s) => Value(s, i, n + 1) = Value(s, i, n) * 2 + s[i + n]
<1>1. PICK f : f = Values(s, i, n)
  OBVIOUS
<1>2. Iterated(Bits(s, i), 0, n, f) /\ \A k \in 0 .. n : f[k] \in Nat
  BY <1>1, ValuesAre
<1>3. Value(s, i, n) = f[n] /\ n \in 0 .. n
  BY <1>1, ValueUnfolds
<1>4. f[0] = 0
  BY <1>2 DEF Iterated
<1>5. ASSUME i + n <= Len(s)  PROVE Value(s, i, n + 1) = Value(s, i, n) * 2 + s[i + n]
  <2>1. n + 1 \in Nat /\ i + (n + 1) - 1 <= Len(s) /\ n <= n + 1 /\ n + 1 \in 1 .. n + 1 /\ (n + 1) - 1 = n
        /\ i + (n + 1) - 1 = i + n
    BY <1>5
  <2>2. PICK g : g = Values(s, i, n + 1)
    OBVIOUS
  <2>3. Iterated(Bits(s, i), 0, n + 1, g)
    BY <2>1, <2>2, ValuesAre
  <2>4. f[n] = g[n]
    BY <1>2, <1>3, <2>1, <2>3, IteratesAgree
  <2>5. g[n + 1] = Bits(s, i)[<<n + 1, g[n]>>]
    BY <2>1, <2>3 DEF Iterated
  <2>6. g[n] \in Nat
    BY <1>2, <1>3, <2>4
  <2>7. g[n + 1] = g[n] * 2 + s[i + n]
    BY <2>1, <2>5, <2>6, BitsIs
  <2>8. Value(s, i, n + 1) = g[n + 1]
    BY <2>2, ValueUnfolds
  <2> QED
    BY <1>3, <2>4, <2>7, <2>8
<1> QED
  BY <1>2, <1>3, <1>4, <1>5

\* bits that come later do not count,
LEMMA ValueAppend ==
    ASSUME NEW s \in Seq(0 .. 1), NEW d \in 0 .. 1, NEW i \in Nat \ {0}, NEW n \in Nat, i + n - 1 <= Len(s)
    PROVE  Value(Append(s, d), i, n) = Value(s, i, n)
<1> DEFINE z == Append(s, d)
<1>1. z \in Seq(0 .. 1) /\ Len(z) = Len(s) + 1 /\ Len(s) \in Nat
  OBVIOUS
<1>2. i + n - 1 <= Len(z)
  BY <1>1
<1>3. ASSUME NEW k \in 1 .. n  PROVE z[i + k - 1] = s[i + k - 1]
  <2>1. i + k - 1 \in 1 .. Len(s)
    OBVIOUS
  <2> QED
    BY <2>1
<1> HIDE DEF z
<1>4. PICK f : f = Values(s, i, n)
  OBVIOUS
<1>5. PICK g : g = Values(z, i, n)
  OBVIOUS
<1>6. Iterated(Bits(s, i), 0, n, f)
  BY <1>4, ValuesAre
<1>7. Iterated(Bits(z, i), 0, n, g) /\ \A k \in 0 .. n : g[k] \in Nat
  BY <1>1, <1>2, <1>5, ValuesAre
<1>8. Iterated(Bits(s, i), 0, n, g)
  <2>1. g[0] = 0
    BY <1>7 DEF Iterated
  <2>2. ASSUME NEW k \in 1 .. n  PROVE g[k] = Bits(s, i)[<<k, g[k - 1]>>]
    <3>1. k \in Nat /\ k - 1 \in 0 .. n
      OBVIOUS
    <3>2. PICK x \in Nat : x = g[k - 1]
      BY <1>7, <3>1
    <3>3. g[k] = Bits(z, i)[<<k, x>>]
      BY <1>7, <3>2 DEF Iterated
    <3>4. Bits(z, i)[<<k, x>>] = x * 2 + z[i + k - 1] /\ Bits(s, i)[<<k, x>>] = x * 2 + s[i + k - 1]
      <4>1. k \in Nat /\ x \in Nat
        BY <3>1
      <4> QED
        BY ONLY <4>1, BitsIs
    <3> QED
      BY <1>3, <3>2, <3>3, <3>4
  <2> QED
    BY <2>1, <2>2 DEF Iterated
<1>9. f[n] = g[n]
  <2>1. n <= n /\ n \in 0 .. n
    OBVIOUS
  <2> QED
    BY <1>6, <1>8, <2>1, IteratesAgree
<1> QED
  BY <1>4, <1>5, <1>9, ValueUnfolds DEF z

\* and n bits are a number of n bits.
LEMMA ValueSmall ==
    ASSUME NEW s \in Seq(0 .. 1), NEW i \in Nat \ {0}
    PROVE  \A n \in Nat : i + n - 1 <= Len(s) => Value(s, i, n) \in 0 .. Pow2[n] - 1
<1> DEFINE T == {n \in Nat : i + n - 1 <= Len(s) => Value(s, i, n) \in 0 .. Pow2[n] - 1}
<1>1. 0 \in T
  <2>1. i + 0 - 1 <= Len(s) => Value(s, i, 0) = 0
    BY ValueIs
  <2>2. 0 .. Pow2[0] - 1 = 0 .. 0
    BY Pow2Is
  <2>3. i + 0 - 1 <= Len(s) => Value(s, i, 0) \in 0 .. Pow2[0] - 1
    BY <2>1, <2>2
  <2> QED
    BY <2>3
<1>2. ASSUME NEW n \in Nat, n \in T  PROVE n + 1 \in T
  <2> SUFFICES ASSUME i + (n + 1) - 1 <= Len(s)  PROVE Value(s, i, n + 1) \in 0 .. Pow2[n + 1] - 1
    OBVIOUS
  <2>1. i + n - 1 <= Len(s) /\ i + n <= Len(s) /\ i + n \in 1 .. Len(s)
    OBVIOUS
  <2>2. PICK d \in 0 .. 1 : d = s[i + n]
    BY <2>1
  <2>3. PICK p \in Nat \ {0} : p = Pow2[n]
    BY Pow2Is
  <2>4. Value(s, i, n) \in 0 .. p - 1
    BY <1>2, <2>1, <2>3
  <2>5. PICK v \in 0 .. p - 1 : v = Value(s, i, n)
    BY <2>4
  <2>6. Value(s, i, n + 1) = v * 2 + d
    BY <2>1, <2>2, <2>5, ValueIs
  <2>7. Pow2[n + 1] = 2 * p
    BY <2>3, Pow2Is
  <2> QED
    BY <2>6, <2>7
<1> HIDE DEF T
<1>3. \A n \in Nat : n \in T
  BY <1>1, <1>2, NatSetInduction
<1> QED
  BY <1>3 DEF T

-----------------------------------------------------------------------------
(* What a bit does to the bus *)

LEMMA MachineIs ==
    ASSUME NEW x, NEW r
    PROVE  Machine(x, r).bus = x /\ Machine(x, r).rtc = r
  BY Zenon DEF Machine

Top(x) == x.byte \div Pow2[ByteBits - 1]
In(x, d) == (x.byte * 2 + (IF x.state = "DATA_OUT" THEN 0 ELSE d)) % Pow2[ByteBits]

LEMMA ShiftTypes ==
    ASSUME NEW x \in I2cState, NEW d \in 0 .. 1
    PROVE  Top(x) \in 0 .. 1 /\ In(x, d) \in Octet
<1> DEFINE H == Pow2[ByteBits - 1]
           v == IF x.state = "DATA_OUT" THEN 0 ELSE d
           y == x.byte * 2 + v
<1>1. ByteBits \in Nat /\ ByteBits - 1 \in Nat /\ (ByteBits - 1) + 1 = ByteBits
  BY I2cConstants DEF I2cConst
<1>2. H \in Nat \ {0} /\ Pow2[ByteBits] = 2 * H
  BY <1>1, Pow2Is
<1>3. x.byte \in 0 .. 2 * H - 1
  BY <1>2 DEF I2cState, Octet
<1>4. PICK a \in 0 .. 2 * H - 1 : a = x.byte
  BY <1>3
<1>5. v \in 0 .. 1
  OBVIOUS
<1>6. y \in Int
  BY <1>4, <1>5
<1> HIDE DEF H, v
<1>7. a \div H \in 0 .. 1
  <2>1. CASE a < H
    <3>1. a = 0 * H + a /\ a \in 0 .. H - 1
      BY <1>2, <2>1
    <3>2. a \div H = 0
      BY <1>2, <3>1, DivIs
    <3> QED
      BY <3>2
  <2>2. CASE a >= H
    <3>1. a = 1 * H + (a - H) /\ a - H \in 0 .. H - 1
      BY <1>2, <2>2
    <3>2. a \div H = 1
      BY <1>2, <3>1, DivIs
    <3> QED
      BY <3>2
  <2> QED
    BY <1>2, <2>1, <2>2
<1>8. Top(x) \in 0 .. 1
  BY <1>4, <1>7 DEF Top, H
<1> HIDE DEF y
<1>9. y % Pow2[ByteBits] \in 0 .. Pow2[ByteBits] - 1
  BY <1>2, <1>6, DivMod
<1>10. In(x, d) = y % Pow2[ByteBits]
  BY DEF In, y, v
<1> QED
  BY <1>8, <1>9, <1>10 DEF Octet
\* The fields of a bus that the protocol is about.
Fields(x, state, byte, bitcnt, output, devid) ==
    x.state = state /\ x.byte = byte /\ x.bitcnt = bitcnt /\ x.output = output /\ x.devid = devid

\* A bus whose counter may stand one past the acknowledgement.
WideState ==
    [clk : 0 .. 1, data : 0 .. 1, byte : Octet, output : 0 .. 1, bitcnt : 0 .. ByteBits + 1,
     state : {"IDLE", "ID", "DATA_IN", "DATA_OUT"}, stable : BOOLEAN, devid : Octet,
     current : BOOLEAN]

LEMMA ShiftIs ==
    ASSUME NEW x \in I2cState, NEW r, NEW d \in 0 .. 1, NEW time
    PROVE  \E t \in WideState :
               /\ i2c_databit(Machine(x, r), d, time) = Shifted(t, r, time)
               /\ Fields(t, x.state, In(x, d), x.bitcnt + 1, Top(x), x.devid)
               /\ t.current = x.current
               /\ x.bitcnt < ByteBits => t \in I2cState
<1> DEFINE o == Top(x)
           y == In(x, d)
           n == x.bitcnt + 1
           t == [x EXCEPT !.output = o, !.byte = y, !.bitcnt = n]
<1>1. o \in 0 .. 1 /\ y \in Octet /\ n \in 0 .. ByteBits + 1 /\ (x.bitcnt < ByteBits => n \in 0 .. ByteBits)
  <2>1. x.bitcnt \in 0 .. ByteBits /\ ByteBits \in Nat
    BY I2cConstants DEF I2cState, I2cConst
  <2> QED
    BY <2>1, ShiftTypes
<1>2. i2c_databit(Machine(x, r), d, time) = Shifted(t, r, time)
  BY MachineIs, Zenon DEF i2c_databit, Top, In
<1> HIDE DEF o, y, n
<1>3. x \in WideState
  <2>1. \A k \in 0 .. ByteBits : k \in 0 .. ByteBits + 1
    BY I2cConstants DEF I2cConst
  <2> QED
    BY <2>1, ZenonT(60) DEF I2cState, WideState
<1>4. t \in WideState
  BY <1>1, <1>3, ZenonT(60) DEF WideState
<1>5. x.bitcnt < ByteBits => t \in I2cState
  BY <1>1, ZenonT(60) DEF I2cState
<1>6. Fields(t, x.state, y, n, o, x.devid)
  BY <1>3, SMT DEF Fields, WideState
<1>7. t.current = x.current
  BY <1>3, ZenonT(60) DEF WideState
<1> HIDE DEF t
<1> QED
  BY <1>2, <1>4, <1>5, <1>6, <1>7, Zenon DEF o, y, n

LEMMA RtcReads ==
    ASSUME NEW r \in RtcState
    PROVE  /\ rtc_read(r) \in RtcState
           /\ rtc_read(r).ram = r.ram /\ rtc_read(r).bp = (r.bp + 1) % RamSize
<1>1. RamSize \in Nat /\ RamSize > 0
  BY I2cConstants DEF I2cConst
<1>2. r.bp \in Int
  BY <1>1, SMT DEF RtcState, Cell
<1>3. (r.bp + 1) % RamSize \in Cell
  BY <1>1, <1>2, DivMod DEF Cell
<1>4. rtc_read(r) \in RtcState
  BY <1>3, ZenonT(60) DEF RtcState, rtc_read
<1> QED
  BY <1>4, SMT DEF RtcState, rtc_read

\* The first byte of a transaction sets the pointer,
LEMMA RtcPoints ==
    ASSUME NEW r \in RtcState, NEW v \in Octet, r.first = TRUE
    PROVE  /\ rtc_write(r, v) \in RtcState /\ rtc_write(r, v).first = FALSE
           /\ rtc_write(r, v).bp = v % RamSize
<1> DEFINE p == v % RamSize
           w == [r EXCEPT !.bp = p, !.first = FALSE]
<1>1. RamSize \in Nat /\ RamSize > 0 /\ v \in Int
  BY I2cConstants, Pow2Is DEF I2cConst, Octet
<1>2. p \in Cell
  BY <1>1, DivMod DEF Cell
<1>3. rtc_write(r, v) = w
  BY Zenon DEF rtc_write
<1> HIDE DEF p
<1>4. w \in RtcState
  BY <1>2, ZenonT(60) DEF RtcState
<1>5. w.bp = p
  BY <1>2, SMT DEF RtcState
<1>6. w.first = FALSE
  BY ZenonT(60) DEF RtcState
<1> QED
  BY <1>3, <1>4, <1>5, <1>6, Zenon DEF p

\* and the others are stored.
LEMMA RtcStores ==
    ASSUME NEW r \in RtcState, NEW v \in Octet, r.first = FALSE
    PROVE  /\ rtc_write(r, v) \in RtcState /\ rtc_write(r, v).first = FALSE
           /\ rtc_write(r, v).bp = (r.bp + 1) % RamSize
           /\ rtc_write(r, v).ram[r.bp] = v
           /\ \A c \in Cell : c # r.bp => rtc_write(r, v).ram[c] = r.ram[c]
<1> DEFINE p == (r.bp + 1) % RamSize
           m == [r.ram EXCEPT ![r.bp] = v]
           w == [r EXCEPT !.ram = m, !.bp = p]
<1>1. RamSize \in Nat /\ RamSize > 0
  BY I2cConstants DEF I2cConst
<1>2. r.bp \in Cell /\ r.ram \in [Cell -> Octet]
  BY SMT DEF RtcState
<1>3. p \in Cell
  <2>1. r.bp + 1 \in Int
    BY <1>1, <1>2 DEF Cell
  <2> QED
    BY <1>1, <2>1, DivMod DEF Cell
<1>4. rtc_write(r, v) = w
  <2>1. rtc_write(r, v) = [r EXCEPT !.ram[r.bp] = v, !.bp = (@ + 1) % RamSize]
    BY Zenon DEF rtc_write
  <2>2. [r EXCEPT !.ram[r.bp] = v, !.bp = (@ + 1) % RamSize] = w
    BY Zenon
  <2> QED
    BY <2>1, <2>2
<1> HIDE DEF p
<1>5. m \in [Cell -> Octet] /\ m[r.bp] = v /\ \A c \in Cell : c # r.bp => m[c] = r.ram[c]
  BY <1>2
<1> HIDE DEF m
<1>6. w \in RtcState
  BY <1>3, <1>5, ZenonT(60) DEF RtcState
<1>7. w.bp = p /\ w.ram = m
  BY <1>3, <1>5, SMT DEF RtcState
<1>8. w.first = FALSE
  BY ZenonT(60) DEF RtcState
<1> QED
  BY <1>4, <1>5, <1>6, <1>7, <1>8, Zenon DEF p

\* The chip is addressed: it takes the time, and waits for a pointer.
LEMMA RtcStarts ==
    ASSUME NEW r \in RtcState, NEW time \in TimeByte
    PROVE  RtcStart(r, time) \in RtcState /\ RtcStart(r, time).first = TRUE /\ RtcStart(r, time).bp = r.bp
<1> DEFINE m == [c \in Cell |-> IF c \in TimeCells THEN time ELSE r.ram[c]]
           u == [r EXCEPT !.ram = m]
           w == [u EXCEPT !.first = TRUE]
<1>1. time \in Octet
  BY I2cAssumption DEF Octet
<1>2. r.ram \in [Cell -> Octet]
  BY SMT DEF RtcState
<1>3. m \in [Cell -> Octet]
  BY <1>1, <1>2
<1>4. RtcStart(r, time) = w
  BY Zenon DEF RtcStart, rtc_freeze
<1> HIDE DEF m
<1>5. u \in RtcState /\ w \in RtcState
  BY <1>3, ZenonT(60) DEF RtcState
<1>6. w.bp = r.bp
  BY SMT DEF RtcState
<1>7. w.first = TRUE
  BY ZenonT(60) DEF RtcState
<1> QED
  BY <1>4, <1>5, <1>6, <1>7

\* The acknowledgement, and the next byte out.
Acked(z) == [z EXCEPT !.output = 0]
Sends(z, a) == [z EXCEPT !.byte = a, !.output = 1]

\* What i2c_byte makes of a machine.
Makes(b, time, z, u) == i2c_byte(b, time) = Machine(z, u) /\ z.current \in BOOLEAN

\* After the last bit of a byte, by what i2c_byte makes of it.
LEMMA CompleteSplits ==
    ASSUME NEW b, NEW time, NEW z, NEW u, Makes(b, time, z, u)
    PROVE  Complete(b, time) = IF z.state # "DATA_OUT" THEN Machine(Acked(z), u)
                               ELSE IF z.current
                               THEN Machine(Sends(z, u.ram[u.bp]), rtc_read(u))
                               ELSE Machine(Sends(z, Pow2[ByteBits] - 1), u)
<1> DEFINE c == i2c_byte(b, time)
<1>0. c = Machine(z, u) /\ z.current \in BOOLEAN
  BY Zenon DEF Makes
<1>1. c.bus = z /\ c.rtc = u
  BY <1>0, MachineIs
<1> HIDE DEF c
<1>2. Complete(b, time) = IF c.bus.state # "DATA_OUT" THEN Machine(Acked(c.bus), c.rtc)
                          ELSE IF c.bus.current
                          THEN Machine(Sends(c.bus, c.rtc.ram[c.rtc.bp]), rtc_read(c.rtc))
                          ELSE Machine(Sends(c.bus, Pow2[ByteBits] - 1), c.rtc)
  BY Zenon DEF Complete, c, Acked, Sends
<1>3. Complete(b, time) = IF z.state # "DATA_OUT" THEN Machine(Acked(z), u)
                          ELSE IF z.current
                          THEN Machine(Sends(z, u.ram[u.bp]), rtc_read(u))
                          ELSE Machine(Sends(z, Pow2[ByteBits] - 1), u)
  BY <1>1, <1>2, Zenon
<1> QED
  BY <1>3

\* What the end of a byte leaves.
Completes(b, time, z, u, y, v) ==
    /\ Complete(b, time) = Machine(y, v)
    /\ y.state = z.state /\ y.bitcnt = z.bitcnt /\ y.current = z.current
    /\ z.state # "DATA_OUT" => y.byte = z.byte /\ y.output = 0 /\ v = u
    /\ z.state = "DATA_OUT" /\ z.current = TRUE =>
           y.byte = u.ram[u.bp] /\ v.ram = u.ram /\ v.bp = (u.bp + 1) % RamSize

\* The first bit of a byte that goes out, and the acknowledgement.
LEMMA CompleteGood ==
    ASSUME NEW b, NEW time, NEW z \in I2cState, NEW u \in RtcState, Makes(b, time, z, u)
    PROVE  \E y \in I2cState, v \in RtcState : Completes(b, time, z, u, y, v)
<1>1. z.current \in BOOLEAN
  BY Zenon DEF Makes
<1>5. Complete(b, time) = IF z.state # "DATA_OUT" THEN Machine(Acked(z), u)
                          ELSE IF z.current
                          THEN Machine(Sends(z, u.ram[u.bp]), rtc_read(u))
                          ELSE Machine(Sends(z, Pow2[ByteBits] - 1), u)
  BY CompleteSplits
<1>2. CASE z.state # "DATA_OUT"
  <2> DEFINE y == [z EXCEPT !.output = 0]
  <2>1. 0 \in 0 .. 1
    OBVIOUS
  <2>2. y \in I2cState
    BY <2>1, ZenonT(60) DEF I2cState
  <2>3. y.state = z.state /\ y.bitcnt = z.bitcnt /\ y.byte = z.byte /\ y.output = 0
    BY SMT DEF I2cState
  <2>4. y.current = z.current
    BY ZenonT(60) DEF I2cState
  <2>5. Complete(b, time) = Machine(y, u)
    BY <1>2, <1>5, Zenon DEF Acked
  <2> HIDE DEF y
  <2> QED
    BY <1>2, <2>2, <2>3, <2>4, <2>5, Zenon DEF Completes
<1>3. CASE z.state = "DATA_OUT" /\ z.current = TRUE
  <2> DEFINE a == u.ram[u.bp]
             y == [z EXCEPT !.byte = a, !.output = 1]
             v == rtc_read(u)
  <2>1. 1 \in 0 .. 1 /\ a \in Octet
    BY SMT DEF RtcState
  <2>2. Complete(b, time) = Machine(y, v)
    BY <1>3, <1>5, Zenon DEF Sends
  <2> HIDE DEF a
  <2>3. y \in I2cState
    BY <2>1, ZenonT(60) DEF I2cState
  <2>4. y.state = z.state /\ y.bitcnt = z.bitcnt /\ y.byte = a
    BY <2>1, SMT DEF I2cState
  <2>5. y.current = z.current
    BY ZenonT(60) DEF I2cState
  <2>6. v \in RtcState /\ v.ram = u.ram /\ v.bp = (u.bp + 1) % RamSize
    BY RtcReads
  <2> HIDE DEF y, v
  <2> QED
    BY <1>3, <2>2, <2>3, <2>4, <2>5, <2>6, Zenon DEF a, Completes
<1>4. CASE z.state = "DATA_OUT" /\ z.current = FALSE
  <2> DEFINE a == Pow2[ByteBits] - 1
             y == [z EXCEPT !.byte = a, !.output = 1]
  <2>1. 1 \in 0 .. 1 /\ a \in Octet
    BY I2cConstants, Pow2Is DEF Octet, I2cConst
  <2>2. Complete(b, time) = Machine(y, u)
    BY <1>4, <1>5, Zenon DEF Sends
  <2> HIDE DEF a
  <2>3. y \in I2cState
    BY <2>1, ZenonT(60) DEF I2cState
  <2>4. y.state = z.state /\ y.bitcnt = z.bitcnt
    BY <2>1, SMT DEF I2cState
  <2>5. y.current = z.current
    BY ZenonT(60) DEF I2cState
  <2> HIDE DEF y
  <2>6. z.current # TRUE
    BY <1>4
  <2> QED
    BY <1>4, <2>2, <2>3, <2>4, <2>5, <2>6, Zenon DEF Completes
<1> QED
  BY <1>1, <1>2, <1>3, <1>4, Zenon

\* What a bit does that does not end a byte,
Within(x, r, d, time, y) ==
    /\ i2c_databit(Machine(x, r), d, time) = Machine(y, r)
    /\ y.state = x.state /\ y.byte = In(x, d) /\ y.bitcnt = x.bitcnt + 1 /\ y.output = Top(x)
    /\ y.current = x.current
    /\ x.state = "ID" /\ x.bitcnt + 1 = ByteBits - 1 => y.devid = In(x, d)

LEMMA BitWithin ==
    ASSUME NEW x \in I2cState, NEW r, NEW d \in 0 .. 1, NEW time, x.bitcnt + 1 < ByteBits
    PROVE  \E y \in I2cState : Within(x, r, d, time, y)
<1>1. ByteBits \in Nat /\ x.bitcnt \in 0 .. ByteBits /\ x.bitcnt < ByteBits
      /\ x.bitcnt + 1 # ByteBits /\ x.bitcnt + 1 # ByteBits + 1
  BY I2cConstants, SMT DEF I2cConst, I2cState
<1>2. PICK t \in WideState :
          /\ i2c_databit(Machine(x, r), d, time) = Shifted(t, r, time)
          /\ Fields(t, x.state, In(x, d), x.bitcnt + 1, Top(x), x.devid)
          /\ t.current = x.current
          /\ x.bitcnt < ByteBits => t \in I2cState
  BY ShiftIs
<1>3. t \in I2cState /\ t.bitcnt # ByteBits /\ t.bitcnt # ByteBits + 1
  BY <1>1, <1>2 DEF Fields
<1>4. CASE t.state = "ID" /\ t.bitcnt = ByteBits - 1
  <2> DEFINE a == t.byte
             y == [t EXCEPT !.devid = a]
  <2>1. a \in Octet
    BY <1>3, SMT DEF I2cState
  <2>2. Shifted(t, r, time) = Machine(y, r)
    BY <1>3, <1>4, Zenon DEF Shifted
  <2> HIDE DEF a
  <2>3. y \in I2cState
    BY <1>3, <2>1, ZenonT(60) DEF I2cState
  <2>4. y.state = t.state /\ y.byte = t.byte /\ y.bitcnt = t.bitcnt /\ y.output = t.output /\ y.devid = a
    BY <1>3, <2>1, SMT DEF I2cState
  <2>5. y.current = t.current
    BY <1>3, ZenonT(60) DEF I2cState
  <2> HIDE DEF y
  <2> QED
    BY <1>2, <2>2, <2>3, <2>4, <2>5, Zenon DEF Within, Fields, a
<1>5. CASE ~(t.state = "ID" /\ t.bitcnt = ByteBits - 1)
  <2>1. Shifted(t, r, time) = Machine(t, r)
    BY <1>3, <1>5, Zenon DEF Shifted
  <2>2. ~(x.state = "ID" /\ x.bitcnt + 1 = ByteBits - 1)
    BY <1>2, <1>5, Zenon DEF Fields
  <2> QED
    BY <1>2, <1>3, <2>1, <2>2, Zenon DEF Within, Fields
<1> QED
  BY <1>4, <1>5, Zenon

\* the bit of the acknowledgement,
Acknowledges(x, r, d, time, y) ==
    /\ i2c_databit(Machine(x, r), d, time) = Machine(y, r)
    /\ y.state = x.state /\ y.byte = In(x, d) /\ y.bitcnt = 0 /\ y.output = Top(x)
    /\ y.current = x.current

LEMMA BitAcknowledges ==
    ASSUME NEW x \in I2cState, NEW r, NEW d \in 0 .. 1, NEW time, x.bitcnt = ByteBits
    PROVE  \E y \in I2cState : Acknowledges(x, r, d, time, y)
<1>1. ByteBits \in Nat /\ ByteBits + 1 # ByteBits /\ ByteBits + 1 # ByteBits - 1 /\ 0 \in 0 .. ByteBits
  BY I2cConstants, SMT DEF I2cConst
<1>2. PICK t \in WideState :
          /\ i2c_databit(Machine(x, r), d, time) = Shifted(t, r, time)
          /\ Fields(t, x.state, In(x, d), x.bitcnt + 1, Top(x), x.devid)
          /\ t.current = x.current
          /\ x.bitcnt < ByteBits => t \in I2cState
  BY ShiftIs
<1>3. t.bitcnt = ByteBits + 1
  BY <1>2, Zenon DEF Fields
<1>4. t.bitcnt # ByteBits /\ t.bitcnt # ByteBits - 1
  BY <1>1, <1>3
<1> DEFINE y == [t EXCEPT !.bitcnt = 0]
<1>5. Shifted(t, r, time) = Machine(y, r)
  BY <1>3, <1>4, Zenon DEF Shifted
<1>6. y \in I2cState
  BY <1>1, ZenonT(60) DEF WideState, I2cState
<1>7. y.state = t.state /\ y.byte = t.byte /\ y.output = t.output /\ y.bitcnt = 0
  BY SMT DEF WideState
<1>8. y.current = t.current
  BY ZenonT(60) DEF WideState
<1> HIDE DEF y
<1> QED
  BY <1>2, <1>5, <1>6, <1>7, <1>8, Zenon DEF Acknowledges, Fields

LEMMA ShiftedLast ==
    ASSUME NEW t, NEW r, NEW time, t.bitcnt = ByteBits
    PROVE  Shifted(t, r, time) = Complete(Machine(t, r), time)
<1>1. t.bitcnt # ByteBits - 1 /\ t.bitcnt # ByteBits + 1
  BY I2cConstants DEF I2cConst
<1> QED
  BY <1>1, Zenon DEF Shifted

\* the last bit of the address,
Addresses(x, r, d, time, y, v) ==
    /\ i2c_databit(Machine(x, r), d, time) = Machine(y, v)
    /\ y.bitcnt = ByteBits
    /\ y.current = TRUE <=> x.devid = RTC_ID
    /\ In(x, d) % 2 # 1 => /\ y.state = "DATA_IN" /\ y.byte = In(x, d) /\ y.output = 0
                           /\ y.current = TRUE => v.first = TRUE
    /\ In(x, d) % 2 = 1 => /\ y.state = "DATA_OUT"
                           /\ y.current = TRUE => y.byte = v.ram[r.bp] /\ v.bp = (r.bp + 1) % RamSize

\* The last bit of the address.
LEMMA BitAddresses ==
    ASSUME NEW x \in I2cState, NEW r \in RtcState, NEW d \in 0 .. 1, NEW time \in TimeByte,
           x.bitcnt + 1 = ByteBits, x.state = "ID"
    PROVE  \E y \in I2cState, v \in RtcState : Addresses(x, r, d, time, y, v)
<1>1. ByteBits \in Nat /\ x.bitcnt \in 0 .. ByteBits /\ x.bitcnt < ByteBits /\ ByteBits # ByteBits - 1
  BY I2cConstants, SMT DEF I2cConst, I2cState
<1>2. PICK t \in WideState :
          /\ i2c_databit(Machine(x, r), d, time) = Shifted(t, r, time)
          /\ Fields(t, x.state, In(x, d), x.bitcnt + 1, Top(x), x.devid)
          /\ t.current = x.current
          /\ x.bitcnt < ByteBits => t \in I2cState
  BY ShiftIs
<1>3. t \in I2cState /\ t.state = "ID" /\ t.bitcnt = ByteBits /\ t.bitcnt # ByteBits - 1
      /\ t.byte = In(x, d) /\ t.devid = x.devid
  BY <1>1, <1>2, Zenon DEF Fields
<1>4. Shifted(t, r, time) = Complete(Machine(t, r), time)
  BY <1>3, ShiftedLast
<1> DEFINE here == t.devid = RTC_ID
           st == IF t.byte % 2 = 1 THEN "DATA_OUT" ELSE "DATA_IN"
           z == [t EXCEPT !.state = st, !.current = here]
           u == IF here THEN RtcStart(r, time) ELSE r
<1>5. i2c_byte(Machine(t, r), time) = Machine(z, u)
  <2>1. Machine(t, r).bus = t /\ Machine(t, r).rtc = r
    BY MachineIs
  <2> QED
    BY <1>3, <2>1, Zenon DEF i2c_byte
<1>6. here \in BOOLEAN /\ st \in {"IDLE", "ID", "DATA_IN", "DATA_OUT"}
  OBVIOUS
<1>7. u \in RtcState /\ u.bp = r.bp /\ (here => u.first = TRUE)
  <2>1. CASE here
    BY <2>1, RtcStarts, Zenon
  <2>2. CASE ~here
    BY <2>2, Zenon
  <2> QED
    BY <2>1, <2>2
<1>8. (here <=> x.devid = RTC_ID) /\ (In(x, d) % 2 = 1 => st = "DATA_OUT") /\ (In(x, d) % 2 # 1 => st = "DATA_IN")
  BY <1>3, Zenon
<1> HIDE DEF here, st, u
<1>9. z \in I2cState
  BY <1>3, <1>6, ZenonT(60) DEF I2cState
<1>10. z.state = st /\ z.bitcnt = t.bitcnt /\ z.byte = t.byte
  BY <1>3, <1>6, SMT DEF I2cState
<1>11. z.current = here
  BY <1>3, ZenonT(60) DEF I2cState
<1> HIDE DEF z
<1>12. Makes(Machine(t, r), time, z, u)
  BY <1>5, <1>6, <1>11, Zenon DEF Makes
<1>13. PICK y \in I2cState, v \in RtcState : Completes(Machine(t, r), time, z, u, y, v)
  BY <1>7, <1>9, <1>12, CompleteGood
<1>14. y.current = TRUE <=> x.devid = RTC_ID
  BY <1>6, <1>8, <1>11, <1>13, Zenon DEF Completes
<1>15. ASSUME In(x, d) % 2 # 1
       PROVE  /\ y.state = "DATA_IN" /\ y.byte = In(x, d) /\ y.output = 0
              /\ y.current = TRUE => v.first = TRUE
  <2>1. st = "DATA_IN" /\ st # "DATA_OUT"
    BY <1>8, <1>15
  <2>2. v = u /\ (y.current = TRUE => u.first = TRUE)
    BY <1>6, <1>7, <1>10, <1>11, <1>13, <2>1, Zenon DEF Completes
  <2> QED
    BY <1>3, <1>10, <1>13, <2>1, <2>2, Zenon DEF Completes
<1>16. ASSUME In(x, d) % 2 = 1
       PROVE  /\ y.state = "DATA_OUT"
              /\ y.current = TRUE => y.byte = v.ram[r.bp] /\ v.bp = (r.bp + 1) % RamSize
  BY <1>7, <1>8, <1>10, <1>13, <1>16, Zenon DEF Completes
<1> QED
  BY <1>2, <1>3, <1>4, <1>10, <1>13, <1>14, <1>15, <1>16, Zenon DEF Addresses, Completes

\* and the last bit of any other byte: it goes to the chip, or the next one comes.
Ends(x, r, d, time, y, v) ==
    /\ i2c_databit(Machine(x, r), d, time) = Machine(y, v)
    /\ y.bitcnt = ByteBits /\ y.state = x.state /\ y.current = x.current
    /\ x.state = "DATA_IN" => /\ y.byte = In(x, d) /\ y.output = 0
                              /\ x.current = TRUE => v = rtc_write(r, In(x, d))
    /\ x.state = "DATA_OUT" /\ x.current = TRUE =>
           y.byte = r.ram[r.bp] /\ v.ram = r.ram /\ v.bp = (r.bp + 1) % RamSize

LEMMA BitEnds ==
    ASSUME NEW x \in I2cState, NEW r \in RtcState, NEW d \in 0 .. 1, NEW time,
           x.bitcnt + 1 = ByteBits, x.state # "ID"
    PROVE  \E y \in I2cState, v \in RtcState : Ends(x, r, d, time, y, v)
<1>1. ByteBits \in Nat /\ x.bitcnt \in 0 .. ByteBits /\ x.bitcnt < ByteBits
  BY I2cConstants, SMT DEF I2cConst, I2cState
<1>2. PICK t \in WideState :
          /\ i2c_databit(Machine(x, r), d, time) = Shifted(t, r, time)
          /\ Fields(t, x.state, In(x, d), x.bitcnt + 1, Top(x), x.devid)
          /\ t.current = x.current
          /\ x.bitcnt < ByteBits => t \in I2cState
  BY ShiftIs
<1>3. t \in I2cState /\ t.state = x.state /\ t.bitcnt = ByteBits /\ t.byte = In(x, d) /\ t.current = x.current
  BY <1>1, <1>2, Zenon DEF Fields
<1>4. Shifted(t, r, time) = Complete(Machine(t, r), time)
  BY <1>3, ShiftedLast
<1>5. t.current \in BOOLEAN
  BY <1>3, ZenonT(60) DEF I2cState
<1>6. Machine(t, r).bus = t /\ Machine(t, r).rtc = r
  BY MachineIs
<1>7. In(x, d) \in Octet /\ t.byte \in Octet
  BY <1>3, ShiftTypes
<1> DEFINE w == rtc_write(r, t.byte)
<1>8. PICK u \in RtcState : /\ Makes(Machine(t, r), time, t, u)
                            /\ x.state = "DATA_IN" /\ x.current = TRUE => u = w
                            /\ x.state = "DATA_OUT" => u = r
  <2>1. CASE t.state = "DATA_IN" /\ t.current = TRUE
    <3>1. i2c_byte(Machine(t, r), time) = Machine(t, w)
      BY <1>6, <2>1, Zenon DEF i2c_byte
    <3>2. w \in RtcState
      <4>1. r.first \in BOOLEAN
        BY ZenonT(60) DEF RtcState
      <4>2. CASE r.first = TRUE
        BY <1>7, <4>2, RtcPoints
      <4>3. CASE r.first = FALSE
        BY <1>7, <4>3, RtcStores
      <4> QED
        BY <4>1, <4>2, <4>3
    <3> HIDE DEF w
    <3>3. Makes(Machine(t, r), time, t, w)
      BY <1>5, <3>1, Zenon DEF Makes
    <3>4. x.state # "DATA_OUT"
      BY <1>3, <2>1
    <3> QED
      BY <3>2, <3>3, <3>4, Zenon
  <2>2. CASE ~(t.state = "DATA_IN" /\ t.current = TRUE)
    <3>1. t.state # "ID" /\ ~(t.state = "DATA_IN" /\ t.current)
      BY <1>3, <2>2, Zenon
    <3>2. i2c_byte(Machine(t, r), time) = Machine(t, r)
      BY <1>6, <3>1, Zenon DEF i2c_byte
    <3>3. Makes(Machine(t, r), time, t, r)
      BY <1>5, <3>2, Zenon DEF Makes
    <3>4. ~(x.state = "DATA_IN" /\ x.current = TRUE)
      BY <1>3, <2>2, Zenon
    <3> HIDE DEF w
    <3> QED
      BY <3>3, <3>4, Zenon
  <2> QED
    BY <2>1, <2>2
<1>9. PICK y \in I2cState, v \in RtcState : Completes(Machine(t, r), time, t, u, y, v)
  BY <1>3, <1>8, CompleteGood
<1>10. /\ i2c_databit(Machine(x, r), d, time) = Machine(y, v)
       /\ y.bitcnt = ByteBits /\ y.state = x.state /\ y.current = x.current
  BY <1>2, <1>3, <1>4, <1>9, Zenon DEF Completes
<1>11. ASSUME x.state = "DATA_IN"
       PROVE  /\ y.byte = In(x, d) /\ y.output = 0
              /\ x.current = TRUE => v = rtc_write(r, In(x, d))
  <2>1. t.state # "DATA_OUT"
    BY <1>3, <1>11
  <2> QED
    BY <1>3, <1>8, <1>9, <1>11, <2>1, Zenon DEF Completes
<1>12. ASSUME x.state = "DATA_OUT", x.current = TRUE
       PROVE  y.byte = r.ram[r.bp] /\ v.ram = r.ram /\ v.bp = (r.bp + 1) % RamSize
  BY <1>3, <1>8, <1>9, <1>12, Zenon DEF Completes
<1> QED
  BY <1>10, <1>11, <1>12, Zenon DEF Ends
LEMMA PowDivides ==
    ASSUME NEW p \in Nat, p < ByteBits
    PROVE  /\ Pow2[p] \in Nat \ {0} /\ Pow2[p + 1] = 2 * Pow2[p] /\ ByteBits - 1 - p \in Nat
           /\ Pow2[ByteBits - 1 - p] \in Nat \ {0}
           /\ Pow2[ByteBits] = Pow2[ByteBits - 1 - p] * (2 * Pow2[p])
           /\ 2 * Pow2[p] <= Pow2[ByteBits]
<1> DEFINE m == Pow2[p]
           e == ByteBits - 1 - p
           k == Pow2[e]
<1>1. ByteBits \in Nat
  BY I2cConstants DEF I2cConst
<1>2. e \in Nat /\ e + (p + 1) = ByteBits /\ p + 1 \in Nat
  BY <1>1
<1>3. m \in Nat \ {0} /\ k \in Nat \ {0} /\ Pow2[p + 1] = 2 * m
  BY <1>2, Pow2Is
<1>4. Pow2[e + (p + 1)] = k * Pow2[p + 1]
  BY <1>2, Pow2Sum
<1>5. Pow2[ByteBits] = k * (2 * m)
  BY <1>2, <1>3, <1>4
<1> HIDE DEF k, m, e
<1>6. k * (2 * m) >= 2 * m
  <2> DEFINE n == 2 * m
  <2>1. n \in Nat
    BY <1>3
  <2> HIDE DEF n
  <2>2. k * n >= n
    BY <1>3, <2>1
  <2> QED
    BY <2>2 DEF n
<1> QED
  BY <1>2, <1>3, <1>5, <1>6 DEF k, m, e

\* A bit more.
LEMMA Appended ==
    ASSUME NEW s \in Seq(0 .. 1), NEW d \in 0 .. 1
    PROVE  /\ Append(s, d) \in Seq(0 .. 1) /\ Len(Append(s, d)) = Len(s) + 1 /\ Len(s) \in Nat
           /\ Append(s, d)[Len(s) + 1] = d
           /\ \A k \in 1 .. Len(s) : Append(s, d)[k] = s[k]
  OBVIOUS

LEMMA BytesKept ==
    ASSUME NEW s \in Seq(0 .. 1), NEW d \in 0 .. 1
    PROVE  \A k \in Nat : k * Group + ByteBits <= Len(s) => ByteOf(Append(s, d), k) = ByteOf(s, k)
<1> TAKE k \in Nat
<1> SUFFICES ASSUME k * Group + ByteBits <= Len(s)  PROVE ByteOf(Append(s, d), k) = ByteOf(s, k)
  OBVIOUS
<1>1. ByteBits \in Nat /\ Group \in Nat /\ Len(s) \in Nat
  BY I2cConstants DEF I2cConst
<1>2. k * Group \in Nat
  BY <1>1
<1>3. PICK i \in Nat : i = k * Group
  BY <1>2
<1>4. i + 1 \in Nat \ {0} /\ (i + 1) + ByteBits - 1 <= Len(s)
  BY <1>1, <1>3
<1>5. Value(Append(s, d), i + 1, ByteBits) = Value(s, i + 1, ByteBits)
  BY <1>1, <1>4, ValueAppend
<1> QED
  BY <1>3, <1>5 DEF ByteOf

\* The group that the bit belongs to.
LEMMA GroupGrows ==
    ASSUME NEW s \in Seq(0 .. 1), NEW d \in 0 .. 1, NEW q \in Nat, NEW pos \in Nat, Len(s) = q * Group + pos
    PROVE  /\ Value(s, q * Group + 1, pos) \in Nat
           /\ Value(Append(s, d), q * Group + 1, pos + 1) = Value(s, q * Group + 1, pos) * 2 + d
<1>1. Group \in Nat
  BY I2cConstants
<1>2. q * Group \in Nat
  BY <1>1
<1>3. PICK g \in Nat : g = q * Group
  BY <1>2
<1>4. Len(s) = g + pos /\ g + 1 \in Nat \ {0} /\ (g + 1) + pos - 1 <= Len(s)
  BY <1>3
<1> DEFINE z == Append(s, d)
           a == Value(s, g + 1, pos)
<1>5. z \in Seq(0 .. 1) /\ Len(z) = Len(s) + 1 /\ z[Len(s) + 1] = d
  BY Appended
<1>6. Value(z, g + 1, pos) = a
  BY <1>4, ValueAppend
<1> HIDE DEF z
<1>7. (g + 1) + pos - 1 <= Len(z) /\ (g + 1) + pos <= Len(z) /\ (g + 1) + pos = Len(s) + 1
  BY <1>4, <1>5
<1>8. Value(z, g + 1, pos + 1) = Value(z, g + 1, pos) * 2 + z[(g + 1) + pos]
  BY <1>4, <1>5, <1>7, ValueIs
<1>9. a \in Nat
  BY <1>4, ValueIs
<1> QED
  BY <1>3, <1>5, <1>6, <1>7, <1>8, <1>9 DEF z

\* The low end of the shift register.
LEMMA InShifts ==
    ASSUME NEW x \in I2cState, NEW d \in 0 .. 1, NEW p \in Nat, p < ByteBits, x.state # "DATA_OUT"
    PROVE  In(x, d) % Pow2[p + 1] = (x.byte % Pow2[p]) * 2 + d
<1>1. PICK m \in Nat \ {0} : m = Pow2[p]
  BY PowDivides
<1>2. PICK k \in Nat \ {0} : k = Pow2[ByteBits - 1 - p]
  BY PowDivides
<1>3. Pow2[ByteBits] = k * (2 * m) /\ Pow2[p + 1] = 2 * m
  BY <1>1, <1>2, PowDivides
<1>4. ByteBits \in Nat /\ x.byte \in Octet
  BY I2cConstants, SMT DEF I2cConst, I2cState
<1>5. x.byte \in Nat
  BY <1>4, Pow2Is DEF Octet
<1>6. PICK a \in Nat : a = x.byte
  BY <1>5
<1>7. In(x, d) = (a * 2 + d) % (k * (2 * m))
  BY <1>3, <1>6, Zenon DEF In
<1>8. ((a * 2 + d) % (k * (2 * m))) % (2 * m) = (a % m) * 2 + d
  BY ShiftIn
<1> QED
  BY <1>1, <1>3, <1>6, <1>7, <1>8

\* The bits that address the chip are in when the first group is.
LEMMA AddressKept ==
    ASSUME NEW s \in Seq(0 .. 1), NEW d \in 0 .. 1, NEW q \in Nat, NEW pos \in 0 .. ByteBits,
           Len(s) = q * Group + pos, Done(q, pos) # 0
    PROVE  /\ Value(Append(s, d), 1, ByteBits - 1) = Value(s, 1, ByteBits - 1)
           /\ Append(s, d)[ByteBits] = s[ByteBits] /\ s[ByteBits] \in 0 .. 1
           /\ ByteBits <= Len(s)
<1>1. ByteBits \in Nat /\ ByteBits >= 2 /\ Group = ByteBits + 1
  BY I2cConstants DEF I2cConst
<1>2. ByteBits <= Len(s)
  <2>1. CASE q = 0
    <3>1. pos = ByteBits /\ q * Group = 0
      BY <1>1, <2>1 DEF Done
    <3> QED
      BY <1>1, <3>1
  <2>2. CASE q >= 1
    <3>1. q * Group >= Group /\ q * Group \in Nat
      BY <1>1, <2>2
    <3> QED
      BY <1>1, <3>1
  <2> QED
    BY <2>1, <2>2
<1>3. 1 + (ByteBits - 1) - 1 <= Len(s) /\ ByteBits - 1 \in Nat /\ 1 \in Nat \ {0} /\ ByteBits \in 1 .. Len(s)
  BY <1>1, <1>2
<1>4. Value(Append(s, d), 1, ByteBits - 1) = Value(s, 1, ByteBits - 1)
  BY <1>3, ValueAppend
<1> QED
  BY <1>2, <1>3, <1>4, Appended

LEMMA AddressIn ==
    ASSUME NEW s \in Seq(0 .. 1), NEW d \in 0 .. 1, NEW pos \in Nat, Len(s) = pos, pos < ByteBits,
           NEW x \in I2cState, x.state = "ID", x.byte = Value(s, 1, pos)
    PROVE  /\ In(x, d) = Value(Append(s, d), 1, pos + 1)
           /\ Value(Append(s, d), 1, pos + 1) = Value(s, 1, pos) * 2 + d
           /\ Value(s, 1, pos) \in Nat
<1> DEFINE a == Value(s, 1, pos)
           z == Append(s, d)
           b == Value(z, 1, pos + 1)
<1>1. 0 * Group + 1 = 1 /\ Len(s) = 0 * Group + pos /\ 0 \in Nat
  BY I2cConstants
<1>2. a \in Nat /\ b = a * 2 + d
  BY <1>1, GroupGrows
<1>3. z \in Seq(0 .. 1) /\ 1 + (pos + 1) - 1 <= Len(z) /\ 1 + pos - 1 <= Len(s) /\ pos + 1 \in Nat
      /\ 1 \in Nat \ {0}
  BY Appended
<1> HIDE DEF z
<1>4. b \in 0 .. Pow2[pos + 1] - 1
  BY <1>3, ValueSmall
<1>5. Pow2[pos + 1] = 2 * Pow2[pos] /\ 2 * Pow2[pos] <= Pow2[ByteBits] /\ Pow2[pos] \in Nat \ {0}
  BY PowDivides
<1>6. ByteBits \in Nat /\ Pow2[ByteBits] \in Nat \ {0}
  BY I2cConstants, Pow2Is DEF I2cConst
<1> HIDE DEF a, b
<1>7. b \in 0 .. Pow2[ByteBits] - 1
  BY <1>4, <1>5, <1>6
<1>8. b % Pow2[ByteBits] = b
  BY <1>6, <1>7, ModSmall
<1>9. x.byte = a /\ x.state # "DATA_OUT"
  BY DEF a
<1>10. In(x, d) = (a * 2 + d) % Pow2[ByteBits]
  BY <1>9, Zenon DEF In
<1>11. In(x, d) = b
  BY <1>2, <1>8, <1>10
<1> QED
  BY <1>2, <1>11 DEF a, b, z

\* A bit of the address.
LEMMA AddressStep ==
    ASSUME NEW x \in I2cState, NEW r \in RtcState, NEW s \in Seq(0 .. 1), NEW f, NEW d \in 0 .. 1,
           NEW pos \in Nat, pos + 1 < ByteBits, Len(s) = 0 * Group + pos, InStep(x, r, s, f, 0, pos), NEW y,
           y.state = x.state, y.byte = In(x, d),
           x.state = "ID" /\ pos + 1 = ByteBits - 1 => y.devid = In(x, d)
    PROVE  InStep(y, r, Append(s, d), f, 0, pos + 1)
<1>1. ByteBits \in Nat /\ 0 * Group = 0 /\ Len(s) = pos
  BY I2cConstants DEF I2cConst
<1>2. Done(0, pos) = 0 /\ Done(0, pos + 1) = 0 /\ pos < ByteBits /\ pos # ByteBits - 1
  BY <1>1 DEF Done
<1>3. Addressed(x, r, s, f, pos)
  BY <1>2, Zenon DEF InStep
<1>4. x.state = "ID" /\ x.byte = Value(s, 1, pos) /\ r.bp = f
  BY <1>3, Zenon DEF Addressed
<1>5. In(x, d) = Value(Append(s, d), 1, pos + 1)
  BY <1>1, <1>2, <1>4, AddressIn
<1>6. pos + 1 = ByteBits - 1 => y.devid = Value(Append(s, d), 1, ByteBits - 1)
  <2> SUFFICES ASSUME pos + 1 = ByteBits - 1  PROVE y.devid = Value(Append(s, d), 1, ByteBits - 1)
    OBVIOUS
  <2>1. y.devid = In(x, d)
    BY <1>4
  <2>2. Value(Append(s, d), 1, pos + 1) = Value(Append(s, d), 1, ByteBits - 1)
    OBVIOUS
  <2> QED
    BY <1>5, <2>1, <2>2
<1>7. Addressed(y, r, Append(s, d), f, pos + 1)
  BY <1>4, <1>5, <1>6, Zenon DEF Addressed
<1> QED
  BY <1>2, <1>7, Zenon DEF InStep

\* The last bit of the address.
LEMMA AddressEnds ==
    ASSUME NEW x \in I2cState, NEW r \in RtcState, NEW s \in Seq(0 .. 1), NEW f \in Cell, NEW d \in 0 .. 1,
           NEW pos \in Nat, pos + 1 = ByteBits, Len(s) = 0 * Group + pos, InStep(x, r, s, f, 0, pos),
           NEW y, NEW v,
           y.current = TRUE <=> x.devid = RTC_ID,
           In(x, d) % 2 # 1 => /\ y.state = "DATA_IN" /\ y.byte = In(x, d) /\ y.output = 0
                               /\ y.current = TRUE => v.first = TRUE,
           In(x, d) % 2 = 1 => /\ y.state = "DATA_OUT"
                               /\ y.current = TRUE => y.byte = v.ram[r.bp] /\ v.bp = (r.bp + 1) % RamSize
    PROVE  InStep(y, v, Append(s, d), f, 0, ByteBits)
<1> DEFINE z == Append(s, d)
           a == Value(s, 1, pos)
<1>1. ByteBits \in Nat /\ ByteBits - 1 = pos /\ 0 * Group = 0 /\ Len(s) = pos /\ pos < ByteBits /\ pos # ByteBits
  BY I2cConstants DEF I2cConst
<1>2. Done(0, pos) = 0 /\ Done(0, ByteBits) = 1
  BY <1>1 DEF Done
<1>3. Addressed(x, r, s, f, pos)
  BY <1>2, Zenon DEF InStep
<1>4. x.state = "ID" /\ x.byte = a /\ r.bp = f /\ x.devid = Value(s, 1, ByteBits - 1)
  BY <1>1, <1>3, Zenon DEF Addressed
<1>5. In(x, d) = Value(z, 1, pos + 1) /\ Value(z, 1, pos + 1) = a * 2 + d /\ a \in Nat
  BY <1>1, <1>4, AddressIn
<1>6. z \in Seq(0 .. 1) /\ z[ByteBits] = d
  <2>1. Len(s) + 1 = ByteBits
    BY <1>1
  <2> QED
    BY <2>1, Appended
<1>7. Value(z, 1, ByteBits - 1) = x.devid
  <2>1. 1 + pos - 1 <= Len(s) /\ 1 \in Nat \ {0}
    BY <1>1
  <2>2. Value(z, 1, pos) = a
    BY <2>1, ValueAppend
  <2> QED
    BY <1>1, <1>4, <2>2
<1> HIDE DEF z, a
<1>8. In(x, d) % 2 = d
  <2>1. (a * 2 + d) % 2 = d
    BY <1>5
  <2> QED
    BY <1>5, <2>1
<1>9. CASE d = 0
  <2>1. In(x, d) % 2 # 1
    BY <1>8, <1>9
  <2>2. y.state = "DATA_IN" /\ y.byte = In(x, d) /\ y.output = 0 /\ (y.current = TRUE => v.first = TRUE)
    BY <2>1
  <2>3. y.byte % Pow2[ByteBits] = Value(z, 0 * Group + 1, ByteBits)
    <3>1. 0 * Group + 1 = 1 /\ y.byte = Value(z, 1, ByteBits)
      BY <1>1, <1>5, <2>2
    <3>2. PICK p \in Nat \ {0} : p = Pow2[ByteBits]
      BY <1>1, Pow2Is
    <3>3. In(x, d) \in 0 .. p - 1
      BY <3>2, ShiftTypes DEF Octet
    <3>4. In(x, d) % p = In(x, d)
      BY <3>3, ModSmall
    <3>5. y.byte % Pow2[ByteBits] = y.byte
      BY <2>2, <3>2, <3>4
    <3> QED
      BY <3>1, <3>5
  <2>4. y.current = TRUE => InChip(v, z, 1)
    BY <2>2 DEF InChip
  <2>5. Writing(y, v, z, 0, ByteBits)
    BY <1>2, <2>2, <2>3, <2>4, Zenon DEF Writing
  <2>6. z[ByteBits] = 0
    BY <1>6, <1>9
  <2>7. Done(0, ByteBits) # 0
    BY <1>2
  <2> QED
    BY <1>7, <2>5, <2>6, <2>7, Zenon DEF InStep, z
<1>10. CASE d = 1
  <2>1. In(x, d) % 2 = 1
    BY <1>8, <1>10
  <2>2. y.state = "DATA_OUT" /\ (y.current = TRUE => y.byte = v.ram[f] /\ v.bp = (f + 1) % RamSize)
    BY <1>4, <2>1
  <2>3. Out(v, f, 1) = v.ram[f]
    <3>1. RamSize \in Nat /\ RamSize > 0 /\ f \in 0 .. RamSize - 1
      BY I2cConstants DEF I2cConst, Cell
    <3>2. f + 1 - 1 = f
      BY <3>1
    <3>3. f % RamSize = f
      BY <3>1, ModSmall
    <3> QED
      BY <3>2, <3>3 DEF Out
  <2>4. Reading(y, v, f, 0, ByteBits)
    <3>1. 0 + 1 = 1 /\ ~(ByteBits < ByteBits)
      BY <1>1
    <3> QED
      BY <1>2, <2>2, <2>3, <3>1, Zenon DEF Reading
  <2>5. z[ByteBits] # 0
    BY <1>6, <1>10
  <2>6. Done(0, ByteBits) # 0
    BY <1>2
  <2> QED
    BY <1>7, <2>4, <2>5, <2>6, Zenon DEF InStep, z
<1> QED
  BY <1>9, <1>10

-----------------------------------------------------------------------------
(* Bytes that are written *)

\* Complete bytes keep their value when a bit comes in.
LEMMA StoredKept ==
    ASSUME NEW s \in Seq(0 .. 1), NEW d \in 0 .. 1, NEW n \in Nat, NEW r, InChip(r, s, n),
           \A k \in 1 .. n - 1 : k * Group + ByteBits <= Len(s)
    PROVE  InChip(r, Append(s, d), n)
<1> DEFINE z == Append(s, d)
<1>1. \A k \in 1 .. n - 1 : ByteOf(z, k) = ByteOf(s, k)
  BY BytesKept
<1> HIDE DEF z
<1>2. ASSUME n > 1  PROVE ByteOf(z, 1) = ByteOf(s, 1)
  <2>1. 1 \in 1 .. n - 1
    BY <1>2
  <2> QED
    BY <1>1, <2>1
<1>3. \A k \in 2 .. n - 1 : ByteOf(z, k) = ByteOf(s, k)
  BY <1>1
<1>4. n > 1 => r.bp = (ByteOf(z, 1) + n - 2) % RamSize
  BY <1>2, Zenon DEF InChip
<1>5. ASSUME n > 1, NEW k \in 2 .. n - 1, k + RamSize >= n
      PROVE  r.ram[(ByteOf(z, 1) + k - 2) % RamSize] = ByteOf(z, k)
  <2>1. r.ram[(ByteOf(s, 1) + k - 2) % RamSize] = ByteOf(s, k)
    BY <1>5, Zenon DEF InChip
  <2> QED
    BY <1>2, <1>3, <1>5, <2>1, Zenon
<1>6. r.first = TRUE <=> n = 1
  BY Zenon DEF InChip
<1> QED
  BY <1>4, <1>5, <1>6, Zenon DEF InChip, z

\* Groups that are in: the bits of their bytes are.
LEMMA GroupsIn ==
    ASSUME NEW s \in Seq(0 .. 1), NEW q \in Nat, NEW pos \in Nat, pos <= ByteBits, Len(s) = q * Group + pos
    PROVE  \A k \in Nat : k < Done(q, pos) => k * Group + ByteBits <= Len(s)
<1> TAKE k \in Nat
<1> SUFFICES ASSUME k < Done(q, pos)  PROVE k * Group + ByteBits <= Len(s)
  OBVIOUS
<1>1. ByteBits \in Nat /\ Group = ByteBits + 1 /\ Group \in Nat
  BY I2cConstants DEF I2cConst
<1>2. PICK a \in Nat, b \in Nat : a = k * Group /\ b = q * Group
  <2>1. k * Group \in Nat /\ q * Group \in Nat
    BY <1>1
  <2> QED
    BY <2>1
<1>3. CASE k < q
  <2>1. (q - k) * Group >= Group
    BY <1>1, <1>3
  <2>2. (q - k) * Group = q * Group - k * Group
    BY <1>1
  <2> QED
    BY <1>1, <1>2, <2>1, <2>2
<1>4. CASE k >= q
  <2>1. k = q /\ pos = ByteBits
    BY <1>1, <1>4 DEF Done
  <2> QED
    BY <1>2, <2>1
<1> QED
  BY <1>3, <1>4

\* What does not change in a transaction that writes.
LEMMA WrittenKept ==
    ASSUME NEW s \in Seq(0 .. 1), NEW d \in 0 .. 1, NEW q \in Nat, NEW pos \in Nat, pos <= ByteBits,
           Len(s) = q * Group + pos, NEW r, InChip(r, s, Done(q, pos))
    PROVE  InChip(r, Append(s, d), Done(q, pos))
<1>1. Done(q, pos) \in Nat
  BY DEF Done
<1>2. \A k \in 1 .. Done(q, pos) - 1 : k * Group + ByteBits <= Len(s)
  <2>1. \A k \in 1 .. Done(q, pos) - 1 : k \in Nat /\ k < Done(q, pos)
    BY <1>1
  <2> QED
    BY <2>1, GroupsIn
<1> QED
  BY <1>1, <1>2, StoredKept

LEMMA WriteStep ==
    ASSUME NEW x \in I2cState, NEW r \in RtcState, NEW s \in Seq(0 .. 1), NEW d \in 0 .. 1,
           NEW q \in Nat, NEW pos \in Nat, pos + 1 < ByteBits, Len(s) = q * Group + pos,
           Writing(x, r, s, q, pos), NEW y,
           y.state = x.state, y.byte = In(x, d), y.current = x.current
    PROVE  Writing(y, r, Append(s, d), q, pos + 1)
<1>1. ByteBits \in Nat /\ pos # ByteBits /\ pos + 1 # ByteBits /\ pos < ByteBits /\ pos <= ByteBits
  BY I2cConstants DEF I2cConst
<1>2. Done(q, pos) = q /\ Done(q, pos + 1) = q
  BY <1>1 DEF Done
<1>3. x.state = "DATA_IN" /\ x.byte % Pow2[pos] = Value(s, q * Group + 1, pos)
      /\ (x.current = TRUE => InChip(r, s, q))
  BY <1>2, Zenon DEF Writing
<1>4. x.state # "DATA_OUT"
  BY <1>3
<1>5. In(x, d) % Pow2[pos + 1] = (x.byte % Pow2[pos]) * 2 + d
  BY <1>1, <1>4, InShifts
<1>6. Value(Append(s, d), q * Group + 1, pos + 1) = Value(s, q * Group + 1, pos) * 2 + d
  BY GroupGrows
<1>7. x.current = TRUE => InChip(r, Append(s, d), q)
  <2> SUFFICES ASSUME x.current = TRUE  PROVE InChip(r, Append(s, d), Done(q, pos))
    BY <1>2
  <2>1. InChip(r, s, Done(q, pos))
    BY <1>2, <1>3
  <2> QED
    BY <1>1, <2>1, WrittenKept
<1>8. y.byte % Pow2[pos + 1] = Value(Append(s, d), q * Group + 1, pos + 1)
  BY <1>3, <1>5, <1>6, Zenon
<1>9. y.state = "DATA_IN" /\ (y.current = TRUE => InChip(r, Append(s, d), q))
  BY <1>3, <1>7
<1> QED
  BY <1>1, <1>2, <1>8, <1>9, Zenon DEF Writing

LEMMA WriteAcknowledged ==
    ASSUME NEW x \in I2cState, NEW r \in RtcState, NEW s \in Seq(0 .. 1), NEW d \in 0 .. 1,
           NEW q \in Nat, Len(s) = q * Group + ByteBits, Len(Append(s, d)) = (q + 1) * Group + 0,
           Writing(x, r, s, q, ByteBits), NEW y,
           y.state = x.state, y.byte = In(x, d), y.current = x.current
    PROVE  Writing(y, r, Append(s, d), q + 1, 0)
<1>1. ByteBits \in Nat /\ ByteBits # 0 /\ ByteBits <= ByteBits /\ Group \in Nat
  BY SMTT(60), I2cConstants DEF I2cConst
<1>2. Done(q, ByteBits) = q + 1 /\ Done(q + 1, 0) = q + 1
  BY <1>1 DEF Done
<1>3. x.state = "DATA_IN" /\ (x.current = TRUE => InChip(r, s, q + 1))
  BY <1>2, Zenon DEF Writing
<1>4. x.current = TRUE => InChip(r, Append(s, d), q + 1)
  <2> SUFFICES ASSUME x.current = TRUE  PROVE InChip(r, Append(s, d), Done(q, ByteBits))
    BY <1>2
  <2>1. InChip(r, s, Done(q, ByteBits))
    BY <1>2, <1>3
  <2> QED
    BY <1>1, <2>1, WrittenKept
<1>5. y.byte % Pow2[0] = 0
  <2>1. In(x, d) \in Nat
    <3>1. In(x, d) \in Octet /\ Pow2[ByteBits] \in Nat
      BY <1>1, ShiftTypes, Pow2Is
    <3> QED
      BY <3>1 DEF Octet
  <2>2. In(x, d) % 1 = 0
    BY <2>1
  <2> QED
    BY <2>2, Pow2Is
<1>6. Value(Append(s, d), (q + 1) * Group + 1, 0) = 0
  <2>1. PICK g \in Nat : g = (q + 1) * Group
    BY <1>1
  <2>2. Append(s, d) \in Seq(0 .. 1) /\ g + 1 \in Nat \ {0} /\ (g + 1) + 0 - 1 <= Len(Append(s, d))
    BY <2>1, Appended
  <2>3. PICK z \in Seq(0 .. 1), i \in Nat \ {0} : z = Append(s, d) /\ i = g + 1
    BY <2>2
  <2>4. i + 0 - 1 <= Len(z) /\ 0 \in Nat
    BY <2>2, <2>3
  <2>5. Value(z, i, 0) = 0
    BY <2>4, ValueIs
  <2>6. i = (q + 1) * Group + 1
    BY <2>1, <2>3
  <2> QED
    BY <2>3, <2>5, <2>6, Zenon
<1>7. y.state = "DATA_IN" /\ (y.current = TRUE => InChip(r, Append(s, d), q + 1))
  BY <1>3, <1>4
<1> QED
  BY <1>1, <1>2, <1>5, <1>6, <1>7, Zenon DEF Writing

\* The byte is complete and goes to the chip.
LEMMA StoredNext ==
    ASSUME NEW r \in RtcState, NEW s \in Seq(0 .. 1), NEW q \in Nat \ {0}, NEW w \in Octet, InChip(r, s, q),
           ByteOf(s, q) = w, ByteOf(s, 1) \in Nat
    PROVE  InChip(rtc_write(r, w), s, q + 1)
<1> DEFINE v == rtc_write(r, w)
<1>1. RamSize \in Nat /\ RamSize > 0
  BY I2cConstants DEF I2cConst
<1>2. PICK b \in Nat : b = ByteOf(s, 1)
  OBVIOUS
<1>3. r.first \in BOOLEAN
  BY ZenonT(60) DEF RtcState
<1>4. q + 1 # 1 /\ q + 1 > 1 /\ (q + 1) - 1 = q /\ (q = 1 \/ q > 1)
  OBVIOUS
<1>5. r.first = TRUE <=> q = 1
  BY Zenon DEF InChip
<1>6. CASE q = 1
  <2>1. v.first = FALSE /\ v.bp = w % RamSize
    BY <1>5, <1>6, RtcPoints
  <2>2. w = b
    BY <1>2, <1>6
  <2>3. b + (q + 1) - 2 = b
    BY <1>6
  <2>4. v.bp = (ByteOf(s, 1) + (q + 1) - 2) % RamSize
    BY <1>2, <2>1, <2>2, <2>3
  <2>5. 2 .. (q + 1) - 1 = {}
    BY <1>6
  <2> HIDE DEF v
  <2>6. v.first # TRUE
    BY <2>1
  <2>7. InChip(v, s, q + 1)
    BY <1>4, <2>4, <2>5, <2>6, Zenon DEF InChip
  <2> QED
    BY <2>7 DEF v
<1>7. CASE q > 1
  <2> DEFINE c == (b + q - 2) % RamSize
  <2>1. r.first = FALSE
    BY <1>3, <1>5, <1>7
  <2>2. r.bp = c
    BY <1>2, <1>7, Zenon DEF InChip
  <2>3. /\ v.first = FALSE /\ v.bp = (r.bp + 1) % RamSize /\ v.ram[r.bp] = w
        /\ \A e \in Cell : e # r.bp => v.ram[e] = r.ram[e]
    BY <2>1, RtcStores
  <2> HIDE DEF v
  <2>4. v.bp = (b + (q + 1) - 2) % RamSize
    <3>1. b + q - 2 \in Int /\ (b + q - 2) + 1 = b + (q + 1) - 2
      OBVIOUS
    <3>2. (((b + q - 2) % RamSize) + 1) % RamSize = ((b + q - 2) + 1) % RamSize
      BY <1>1, <3>1, ModSum
    <3> QED
      BY <2>2, <2>3, <3>1, <3>2
  <2>5. ASSUME NEW k \in 2 .. (q + 1) - 1, k + RamSize >= q + 1
        PROVE  v.ram[(b + k - 2) % RamSize] = ByteOf(s, k)
    <3>1. CASE k = q
      BY <2>2, <2>3, <3>1
    <3>2. CASE k # q
      <4>1. k \in 2 .. q - 1 /\ k + RamSize >= q /\ k < q /\ k \in Int
        BY <1>1, <2>5, <3>2
      <4>2. r.ram[(b + k - 2) % RamSize] = ByteOf(s, k)
        BY <1>2, <1>7, <4>1, Zenon DEF InChip
      <4> DEFINE m == b + k - 2
                 n == b + q - 2
      <4>3. m \in Int /\ n \in Int /\ m < n /\ n < m + RamSize
        BY <1>1, <2>5, <4>1
      <4> HIDE DEF m, n
      <4>4. m % RamSize # n % RamSize /\ m % RamSize \in Cell
        BY <1>1, <4>3, ModApart, DivMod DEF Cell
      <4>5. v.ram[m % RamSize] = r.ram[m % RamSize]
        BY <2>2, <2>3, <4>4 DEF n
      <4> QED
        BY <4>2, <4>5 DEF m
    <3> QED
      BY <3>1, <3>2
  <2>6. v.first # TRUE
    BY <2>3
  <2>7. InChip(v, s, q + 1)
    BY <1>2, <1>4, <2>4, <2>5, <2>6, Zenon DEF InChip
  <2> QED
    BY <2>7 DEF v
<1> QED
  BY <1>4, <1>6, <1>7

LEMMA WriteEnds ==
    ASSUME NEW x \in I2cState, NEW r \in RtcState, NEW s \in Seq(0 .. 1), NEW d \in 0 .. 1,
           NEW q \in Nat \ {0}, NEW pos \in Nat, pos + 1 = ByteBits, Len(s) = q * Group + pos,
           Writing(x, r, s, q, pos), NEW y, NEW v,
           y.state = x.state, y.current = x.current,
           x.state = "DATA_IN" => /\ y.byte = In(x, d) /\ y.output = 0
                                  /\ x.current = TRUE => v = rtc_write(r, In(x, d))
    PROVE  Writing(y, v, Append(s, d), q, ByteBits)
<1> DEFINE z == Append(s, d)
<1>1. ByteBits \in Nat /\ pos # ByteBits /\ pos < ByteBits /\ pos <= ByteBits /\ Group \in Nat /\ Group = ByteBits + 1
  BY I2cConstants DEF I2cConst
<1>2. Done(q, pos) = q /\ Done(q, ByteBits) = q + 1
  BY <1>1 DEF Done
<1>3. x.state = "DATA_IN" /\ x.byte % Pow2[pos] = Value(s, q * Group + 1, pos)
      /\ (x.current = TRUE => InChip(r, s, q))
  BY <1>2, Zenon DEF Writing
<1>4. x.state # "DATA_OUT"
  BY <1>3
<1>5. In(x, d) % Pow2[pos + 1] = (x.byte % Pow2[pos]) * 2 + d
  BY <1>1, <1>4, InShifts
<1>6. Value(z, q * Group + 1, pos + 1) = Value(s, q * Group + 1, pos) * 2 + d
  BY GroupGrows
<1>7. In(x, d) % Pow2[ByteBits] = ByteOf(z, q)
  <2>1. Value(z, q * Group + 1, pos + 1) = Value(z, q * Group + 1, ByteBits)
    OBVIOUS
  <2>2. Pow2[pos + 1] = Pow2[ByteBits]
    OBVIOUS
  <2> HIDE DEF z
  <2> QED
    BY <1>3, <1>5, <1>6, <2>1, <2>2, Zenon DEF ByteOf
<1>8. In(x, d) = ByteOf(z, q) /\ In(x, d) \in Octet
  <2>1. PICK p \in Nat \ {0} : p = Pow2[ByteBits]
    BY <1>1, Pow2Is
  <2>2. In(x, d) \in 0 .. p - 1
    BY <2>1, ShiftTypes DEF Octet
  <2>3. In(x, d) % p = In(x, d)
    BY <2>2, ModSmall
  <2> QED
    BY <1>7, <2>1, <2>3, ShiftTypes
<1>9. ASSUME x.current = TRUE  PROVE InChip(v, z, q + 1)
  <2>1. InChip(r, z, q)
    <3>1. InChip(r, s, Done(q, pos))
      BY <1>2, <1>3, <1>9
    <3>2. InChip(r, Append(s, d), Done(q, pos))
      BY <1>1, <3>1, WrittenKept
    <3> QED
      BY <1>2, <3>2
  <2>2. z \in Seq(0 .. 1) /\ Len(z) = Len(s) + 1
    BY Appended
  <2>3. ByteOf(z, 1) \in Nat
    <3>1. q * Group >= Group /\ q * Group \in Nat
      BY <1>1
    <3> HIDE DEF z
    <3>2. 1 * Group + 1 \in Nat \ {0} /\ (1 * Group + 1) + ByteBits - 1 <= Len(z)
      BY <1>1, <2>2, <3>1
    <3> QED
      BY <1>1, <2>2, <3>2, ValueIs DEF ByteOf
  <2>4. v = rtc_write(r, In(x, d))
    BY <1>3, <1>9
  <2> HIDE DEF z
  <2>5. InChip(rtc_write(r, In(x, d)), z, q + 1)
    BY <1>8, <2>1, <2>2, <2>3, StoredNext
  <2> QED
    BY <2>4, <2>5
<1>10. y.state = "DATA_IN" /\ y.byte = In(x, d) /\ y.output = 0 /\ (y.current = TRUE => InChip(v, z, q + 1))
  BY <1>3, <1>9
<1> HIDE DEF z
<1>11. y.byte % Pow2[ByteBits] = Value(z, q * Group + 1, ByteBits)
  BY <1>7, <1>10, Zenon DEF ByteOf
<1>12. Writing(y, v, z, q, ByteBits)
  BY <1>2, <1>10, <1>11, Zenon DEF Writing
<1> QED
  BY <1>12 DEF z

-----------------------------------------------------------------------------
(* Bytes that are read *)

\* The cell that goes out is a byte.
LEMMA OutIs ==
    ASSUME NEW r \in RtcState, NEW f \in Cell, NEW n \in Nat
    PROVE  /\ Out(r, f, n) \in Octet /\ Out(r, f, n) \in Nat
           /\ Out(r, f, n + 1) = r.ram[(f + n) % RamSize]
<1>1. RamSize \in Nat /\ RamSize > 0 /\ ByteBits \in Nat /\ f \in Nat
  BY I2cConstants DEF I2cConst, Cell
<1>2. f + n - 1 \in Int /\ f + (n + 1) - 1 = f + n
  BY <1>1
<1>3. (f + n - 1) % RamSize \in Cell
  BY <1>1, <1>2, DivMod DEF Cell
<1>4. r.ram \in [Cell -> Octet]
  BY SMT DEF RtcState
<1>5. Out(r, f, n) \in Octet
  BY <1>3, <1>4 DEF Out
<1>6. Out(r, f, n) \in Nat
  <2>1. Pow2[ByteBits] \in Nat
    BY <1>1, Pow2Is
  <2> QED
    BY <1>5, <2>1 DEF Octet
<1>7. Out(r, f, n + 1) = r.ram[(f + n) % RamSize]
  BY <1>2 DEF Out
<1> QED
  BY <1>5, <1>6, <1>7

\* The shift register drops a bit: what was left of the cell, but one bit.
LEMMA ReadShifts ==
    ASSUME NEW x \in I2cState, NEW d, NEW c \in Nat, NEW pos \in Nat, pos + 1 < ByteBits, x.state = "DATA_OUT",
           x.byte = (c * Pow2[pos + 1]) % Pow2[ByteBits]
    PROVE  /\ In(x, d) = (c * Pow2[(pos + 1) + 1]) % Pow2[ByteBits]
           /\ Top(x) = (c \div Pow2[(ByteBits - 1) - (pos + 1)]) % 2
<1>1. ByteBits \in Nat /\ ByteBits - 1 \in Nat /\ (ByteBits - 1) + 1 = ByteBits /\ pos + 1 \in Nat
      /\ (ByteBits - 1) - (pos + 1) \in Nat /\ ((ByteBits - 1) - (pos + 1)) + (pos + 1) = ByteBits - 1
  BY I2cConstants DEF I2cConst
<1>2. PICK k \in Nat \ {0} : k = Pow2[pos + 1]
  BY <1>1, Pow2Is
<1>3. PICK n \in Nat \ {0} : n = Pow2[(ByteBits - 1) - (pos + 1)]
  BY <1>1, Pow2Is
<1>4. PICK p \in Nat \ {0} : p = Pow2[ByteBits]
  BY <1>1, Pow2Is
<1>5. Pow2[ByteBits - 1] = n * k
  BY <1>1, <1>2, <1>3, Pow2Sum
<1>6. p = 2 * (n * k)
  BY <1>1, <1>4, <1>5, Pow2Is
<1>7. Pow2[(pos + 1) + 1] = 2 * k
  BY <1>1, <1>2, Pow2Is
<1>8. x.byte = (c * k) % p
  BY <1>2, <1>4
<1>9. Top(x) = (c \div n) % 2
  <2>1. Top(x) = ((c * k) % (2 * (n * k))) \div (n * k)
    BY <1>5, <1>6, <1>8, Zenon DEF Top
  <2> QED
    BY <2>1, TopBit
<1>10. In(x, d) = (c * (2 * k)) % p
  <2> DEFINE a == c * k
  <2>1. a \in Nat /\ 2 * a = c * (2 * k)
    OBVIOUS
  <2>2. PICK e \in Int : e = a % p
    <3> HIDE DEF a
    <3>1. a % p \in Int
      BY <2>1, DivMod
    <3> QED
      BY <3>1
  <2>3. e * 2 + 0 = e * 2
    OBVIOUS
  <2>4. In(x, d) = (e * 2) % p
    <3>1. x.byte = e
      BY <1>8, <2>2
    <3>2. In(x, d) = (x.byte * 2 + 0) % p
      BY <1>4, Zenon DEF In
    <3> QED
      BY <2>3, <3>1, <3>2
  <2> HIDE DEF a
  <2>5. ((a % p) * 2) % p = (2 * a) % p
    BY <2>1, ModDouble
  <2> QED
    BY <2>1, <2>2, <2>4, <2>5
<1> QED
  BY <1>3, <1>4, <1>7, <1>9, <1>10

LEMMA ReadStep ==
    ASSUME NEW x \in I2cState, NEW r \in RtcState, NEW f \in Cell, NEW d,
           NEW q \in Nat, NEW pos \in Nat, pos + 1 < ByteBits, Reading(x, r, f, q, pos), NEW y,
           y.state = x.state, y.byte = In(x, d), y.output = Top(x), y.current = x.current
    PROVE  Reading(y, r, f, q, pos + 1)
<1>1. ByteBits \in Nat /\ pos # ByteBits /\ pos + 1 # ByteBits /\ pos < ByteBits
  BY I2cConstants DEF I2cConst
<1>2. Done(q, pos) = q /\ Done(q, pos + 1) = q
  BY <1>1 DEF Done
<1>3. x.state = "DATA_OUT"
  BY Zenon DEF Reading
<1>4. ASSUME x.current = TRUE
      PROVE  /\ r.bp = (f + q) % RamSize
             /\ y.byte = (Out(r, f, q) * Pow2[(pos + 1) + 1]) % Pow2[ByteBits]
             /\ y.output = (Out(r, f, q) \div Pow2[(ByteBits - 1) - (pos + 1)]) % 2
  <2>1. r.bp = (f + q) % RamSize /\ x.byte = (Out(r, f, q) * Pow2[pos + 1]) % Pow2[ByteBits]
    BY <1>1, <1>2, <1>4, Zenon DEF Reading
  <2>2. PICK c \in Nat : c = Out(r, f, q)
    BY OutIs
  <2>3. x.byte = (c * Pow2[pos + 1]) % Pow2[ByteBits]
    BY <2>1, <2>2
  <2>4. /\ In(x, d) = (c * Pow2[(pos + 1) + 1]) % Pow2[ByteBits]
        /\ Top(x) = (c \div Pow2[(ByteBits - 1) - (pos + 1)]) % 2
    BY <1>3, <2>3, ReadShifts
  <2> QED
    BY <2>1, <2>2, <2>4
<1>5. y.state = "DATA_OUT" /\ (y.current = TRUE => x.current = TRUE)
  BY <1>3
<1> QED
  BY <1>1, <1>2, <1>4, <1>5, Zenon DEF Reading

LEMMA ReadEnds ==
    ASSUME NEW x \in I2cState, NEW r \in RtcState, NEW f \in Cell,
           NEW q \in Nat, NEW pos \in Nat, pos + 1 = ByteBits, Reading(x, r, f, q, pos), NEW y, NEW v \in RtcState,
           y.state = x.state, y.current = x.current,
           x.state = "DATA_OUT" /\ x.current = TRUE =>
               y.byte = r.ram[r.bp] /\ v.ram = r.ram /\ v.bp = (r.bp + 1) % RamSize
    PROVE  Reading(y, v, f, q, ByteBits)
<1>1. ByteBits \in Nat /\ pos # ByteBits /\ ~(ByteBits < ByteBits) /\ RamSize \in Nat /\ RamSize > 0 /\ f \in Nat
  BY I2cConstants DEF I2cConst, Cell
<1>2. Done(q, pos) = q /\ Done(q, ByteBits) = q + 1
  BY <1>1 DEF Done
<1>3. x.state = "DATA_OUT"
  BY Zenon DEF Reading
<1>4. ASSUME x.current = TRUE
      PROVE  v.bp = (f + (q + 1)) % RamSize /\ y.byte = Out(v, f, q + 1)
  <2>1. r.bp = (f + q) % RamSize
    BY <1>2, <1>4, Zenon DEF Reading
  <2>2. y.byte = r.ram[r.bp] /\ v.ram = r.ram /\ v.bp = (r.bp + 1) % RamSize
    BY <1>3, <1>4
  <2>3. Out(v, f, q + 1) = v.ram[(f + q) % RamSize]
    BY OutIs
  <2>4. f + q \in Int /\ (f + q) + 1 = f + (q + 1)
    BY <1>1
  <2>5. (((f + q) % RamSize) + 1) % RamSize = ((f + q) + 1) % RamSize
    <3>1. PICK g \in Int : g = f + q
      BY <2>4
    <3>2. ((g % RamSize) + 1) % RamSize = (g + 1) % RamSize
      BY <1>1, ModSum
    <3> QED
      BY <3>1, <3>2
  <2> QED
    BY <2>1, <2>2, <2>3, <2>4, <2>5
<1>5. y.state = "DATA_OUT" /\ (y.current = TRUE => x.current = TRUE)
  BY <1>3
<1> QED
  BY <1>1, <1>2, <1>4, <1>5, Zenon DEF Reading

LEMMA ReadAcknowledged ==
    ASSUME NEW x \in I2cState, NEW r \in RtcState, NEW f \in Cell, NEW d \in 0 .. 1,
           NEW q \in Nat, Reading(x, r, f, q, ByteBits), NEW y,
           y.state = x.state, y.byte = In(x, d), y.output = Top(x), y.current = x.current
    PROVE  Reading(y, r, f, q + 1, 0)
<1>1. ByteBits \in Nat /\ 0 # ByteBits /\ 0 < ByteBits /\ ByteBits - 1 \in Nat /\ (ByteBits - 1) - 0 = ByteBits - 1
      /\ 0 + 1 = 1
  BY I2cConstants DEF I2cConst
<1>2. Done(q, ByteBits) = q + 1 /\ Done(q + 1, 0) = q + 1
  BY <1>1 DEF Done
<1>3. x.state = "DATA_OUT"
  BY Zenon DEF Reading
<1>4. ASSUME x.current = TRUE
      PROVE  /\ r.bp = (f + (q + 1)) % RamSize
             /\ y.byte = (Out(r, f, q + 1) * Pow2[0 + 1]) % Pow2[ByteBits]
             /\ y.output = (Out(r, f, q + 1) \div Pow2[(ByteBits - 1) - 0]) % 2
  <2>1. r.bp = (f + (q + 1)) % RamSize /\ x.byte = Out(r, f, q + 1)
    BY <1>1, <1>2, <1>4, Zenon DEF Reading
  <2>2. q + 1 \in Nat
    OBVIOUS
  <2>3. PICK c \in Nat : c = Out(r, f, q + 1)
    BY <2>2, OutIs
  <2>4. In(x, d) = (c * 2) % Pow2[ByteBits]
    <3>1. In(x, d) = (c * 2 + 0) % Pow2[ByteBits]
      BY <1>3, <2>1, <2>3, Zenon DEF In
    <3>2. c * 2 + 0 = c * 2
      OBVIOUS
    <3> QED
      BY <3>1, <3>2
  <2>5. Pow2[0 + 1] = 2
    BY <1>1, Pow2Is
  <2>6. Top(x) = c \div Pow2[ByteBits - 1] /\ Top(x) \in 0 .. 1
    BY <2>1, <2>3, ShiftTypes DEF Top
  <2>7. Top(x) % 2 = Top(x)
    BY <2>6
  <2>8. y.byte = (c * Pow2[0 + 1]) % Pow2[ByteBits]
    BY <2>4, <2>5
  <2>9. y.output = (c \div Pow2[(ByteBits - 1) - 0]) % 2
    BY <1>1, <2>6, <2>7, Zenon
  <2> QED
    BY <2>1, <2>3, <2>8, <2>9
<1>5. y.state = "DATA_OUT" /\ (y.current = TRUE => x.current = TRUE)
  BY <1>3
<1> QED
  BY <1>1, <1>2, <1>4, <1>5, Zenon DEF Reading

-----------------------------------------------------------------------------
(* The invariant *)

\* Counting on, in groups.
LEMMA CountsOn ==
    ASSUME NEW n \in Nat, NEW q \in Nat, NEW pos \in 0 .. ByteBits, n = q * Group + pos
    PROVE  /\ pos < ByteBits => n + 1 = q * Group + (pos + 1)
           /\ pos = ByteBits => n + 1 = (q + 1) * Group + 0
<1>1. ByteBits \in Nat /\ Group = ByteBits + 1
  BY I2cConstants DEF I2cConst
<1>2. PICK g \in Nat : g = q * Group
  <2>1. q * Group \in Nat
    BY <1>1
  <2> QED
    BY <2>1
<1>3. (q + 1) * Group = g + Group
  BY <1>1, <1>2
<1> QED
  BY <1>1, <1>2, <1>3

\* A bit that does not end a byte,
LEMMA StepWithin ==
    ASSUME NEW x \in I2cState, NEW r \in RtcState, NEW s \in Seq(0 .. 1), NEW f \in Cell, NEW d \in 0 .. 1,
           NEW time \in TimeByte, NEW q \in Nat, NEW pos \in Nat, pos + 1 < ByteBits,
           Len(s) = q * Group + pos, x.bitcnt = pos, InStep(x, r, s, f, q, pos)
    PROVE  \E y \in I2cState, v \in RtcState :
               /\ i2c_databit(Machine(x, r), d, time) = Machine(y, v)
               /\ y.bitcnt = pos + 1 /\ InStep(y, v, Append(s, d), f, q, pos + 1)
<1>1. ByteBits \in Nat /\ pos # ByteBits /\ pos + 1 # ByteBits /\ pos \in 0 .. ByteBits
  BY I2cConstants DEF I2cConst
<1>2. Done(q, pos) = q /\ Done(q, pos + 1) = q
  BY <1>1 DEF Done
<1>3. x.bitcnt + 1 < ByteBits
  OBVIOUS
<1>40. PICK y \in I2cState : Within(x, r, d, time, y)
  BY <1>3, BitWithin
<1>4. /\ i2c_databit(Machine(x, r), d, time) = Machine(y, r)
      /\ y.state = x.state /\ y.byte = In(x, d) /\ y.bitcnt = x.bitcnt + 1 /\ y.output = Top(x)
      /\ y.current = x.current
      /\ x.state = "ID" /\ x.bitcnt + 1 = ByteBits - 1 => y.devid = In(x, d)
  BY <1>40, Zenon DEF Within
<1>5. CASE q = 0
  <2>1. Len(s) = 0 * Group + pos /\ InStep(x, r, s, f, 0, pos)
    BY <1>5
  <2>2. x.state = "ID" /\ pos + 1 = ByteBits - 1 => y.devid = In(x, d)
    BY <1>4
  <2>3. InStep(y, r, Append(s, d), f, 0, pos + 1)
    BY <1>4, <2>1, <2>2, AddressStep
  <2> QED
    BY <1>4, <1>5, <2>3
<1>6. CASE q # 0
  <2>1. /\ Value(Append(s, d), 1, ByteBits - 1) = Value(s, 1, ByteBits - 1)
        /\ Append(s, d)[ByteBits] = s[ByteBits]
    BY <1>1, <1>2, <1>6, AddressKept
  <2>2. /\ x.current = TRUE <=> Value(s, 1, ByteBits - 1) = RTC_ID
        /\ IF s[ByteBits] = 0 THEN Writing(x, r, s, q, pos) ELSE Reading(x, r, f, q, pos)
    BY <1>2, <1>6, Zenon DEF InStep
  <2>3. s[ByteBits] = 0 => Writing(y, r, Append(s, d), q, pos + 1)
    BY <1>4, <2>2, WriteStep
  <2>4. s[ByteBits] # 0 => Reading(y, r, f, q, pos + 1)
    BY <1>4, <2>2, ReadStep
  <2>5. InStep(y, r, Append(s, d), f, q, pos + 1)
    BY <1>2, <1>4, <1>6, <2>1, <2>2, <2>3, <2>4, Zenon DEF InStep
  <2> QED
    BY <1>4, <2>5
<1> QED
  BY <1>5, <1>6

\* the last bit of a byte,
LEMMA StepEnds ==
    ASSUME NEW x \in I2cState, NEW r \in RtcState, NEW s \in Seq(0 .. 1), NEW f \in Cell, NEW d \in 0 .. 1,
           NEW time \in TimeByte, NEW q \in Nat, NEW pos \in Nat, pos + 1 = ByteBits,
           Len(s) = q * Group + pos, x.bitcnt = pos, InStep(x, r, s, f, q, pos)
    PROVE  \E y \in I2cState, v \in RtcState :
               /\ i2c_databit(Machine(x, r), d, time) = Machine(y, v)
               /\ y.bitcnt = ByteBits /\ InStep(y, v, Append(s, d), f, q, ByteBits)
<1>1. ByteBits \in Nat /\ pos # ByteBits /\ pos \in 0 .. ByteBits
  BY I2cConstants DEF I2cConst
<1>2. Done(q, pos) = q /\ Done(q, ByteBits) = q + 1 /\ q + 1 # 0
  BY <1>1 DEF Done
<1>3. x.bitcnt + 1 = ByteBits
  OBVIOUS
<1>4. CASE q = 0
  <2>1. Len(s) = 0 * Group + pos /\ InStep(x, r, s, f, 0, pos)
    BY <1>4
  <2>2. x.state = "ID"
    BY <1>2, <1>4, Zenon DEF InStep, Addressed
  <2>30. PICK y \in I2cState, v \in RtcState : Addresses(x, r, d, time, y, v)
    BY <1>3, <2>2, BitAddresses
  <2>3. /\ i2c_databit(Machine(x, r), d, time) = Machine(y, v)
        /\ y.bitcnt = ByteBits
        /\ y.current = TRUE <=> x.devid = RTC_ID
        /\ In(x, d) % 2 # 1 => /\ y.state = "DATA_IN" /\ y.byte = In(x, d) /\ y.output = 0
                               /\ y.current = TRUE => v.first = TRUE
        /\ In(x, d) % 2 = 1 => /\ y.state = "DATA_OUT"
                               /\ y.current = TRUE => y.byte = v.ram[r.bp] /\ v.bp = (r.bp + 1) % RamSize
    BY <2>30, Zenon DEF Addresses
  <2>4. InStep(y, v, Append(s, d), f, 0, ByteBits)
    BY <2>1, <2>3, AddressEnds
  <2> QED
    BY <1>4, <2>3, <2>4
<1>5. CASE q # 0
  <2>1. /\ Value(Append(s, d), 1, ByteBits - 1) = Value(s, 1, ByteBits - 1)
        /\ Append(s, d)[ByteBits] = s[ByteBits]
    BY <1>1, <1>2, <1>5, AddressKept
  <2>2. /\ x.current = TRUE <=> Value(s, 1, ByteBits - 1) = RTC_ID
        /\ IF s[ByteBits] = 0 THEN Writing(x, r, s, q, pos) ELSE Reading(x, r, f, q, pos)
    BY <1>2, <1>5, Zenon DEF InStep
  <2>3. x.state # "ID"
    <3>1. x.state = "DATA_IN" \/ x.state = "DATA_OUT"
      BY <2>2, Zenon DEF Writing, Reading
    <3> QED
      BY <3>1
  <2>40. PICK y \in I2cState, v \in RtcState : Ends(x, r, d, time, y, v)
    BY <1>3, <2>3, BitEnds
  <2>4. /\ i2c_databit(Machine(x, r), d, time) = Machine(y, v)
        /\ y.bitcnt = ByteBits /\ y.state = x.state /\ y.current = x.current
        /\ x.state = "DATA_IN" => /\ y.byte = In(x, d) /\ y.output = 0
                                  /\ x.current = TRUE => v = rtc_write(r, In(x, d))
        /\ x.state = "DATA_OUT" /\ x.current = TRUE =>
               y.byte = r.ram[r.bp] /\ v.ram = r.ram /\ v.bp = (r.bp + 1) % RamSize
    BY <2>40, Zenon DEF Ends
  <2>5. s[ByteBits] = 0 => Writing(y, v, Append(s, d), q, ByteBits)
    BY <1>5, <2>2, <2>4, WriteEnds
  <2>6. s[ByteBits] # 0 => Reading(y, v, f, q, ByteBits)
    BY <2>2, <2>4, ReadEnds
  <2>7. InStep(y, v, Append(s, d), f, q, ByteBits)
    BY <1>2, <2>1, <2>2, <2>4, <2>5, <2>6, Zenon DEF InStep
  <2> QED
    BY <2>4, <2>7
<1> QED
  BY <1>4, <1>5

\* and its acknowledgement.
LEMMA StepAcknowledges ==
    ASSUME NEW x \in I2cState, NEW r \in RtcState, NEW s \in Seq(0 .. 1), NEW f \in Cell, NEW d \in 0 .. 1,
           NEW time \in TimeByte, NEW q \in Nat,
           Len(s) = q * Group + ByteBits, x.bitcnt = ByteBits, InStep(x, r, s, f, q, ByteBits)
    PROVE  \E y \in I2cState, v \in RtcState :
               /\ i2c_databit(Machine(x, r), d, time) = Machine(y, v)
               /\ y.bitcnt = 0 /\ InStep(y, v, Append(s, d), f, q + 1, 0)
<1>1. ByteBits \in Nat /\ ByteBits \in 0 .. ByteBits /\ 0 # ByteBits
  BY I2cConstants DEF I2cConst
<1>2. Done(q, ByteBits) = q + 1 /\ Done(q + 1, 0) = q + 1 /\ q + 1 # 0
  BY <1>1 DEF Done
<1>30. PICK y \in I2cState : Acknowledges(x, r, d, time, y)
  BY BitAcknowledges
<1>3. /\ i2c_databit(Machine(x, r), d, time) = Machine(y, r)
      /\ y.state = x.state /\ y.byte = In(x, d) /\ y.bitcnt = 0 /\ y.output = Top(x)
      /\ y.current = x.current
  BY <1>30, Zenon DEF Acknowledges
<1>4. /\ Value(Append(s, d), 1, ByteBits - 1) = Value(s, 1, ByteBits - 1)
      /\ Append(s, d)[ByteBits] = s[ByteBits]
  BY <1>1, <1>2, AddressKept
<1>5. /\ x.current = TRUE <=> Value(s, 1, ByteBits - 1) = RTC_ID
      /\ IF s[ByteBits] = 0 THEN Writing(x, r, s, q, ByteBits) ELSE Reading(x, r, f, q, ByteBits)
  BY <1>2, Zenon DEF InStep
<1>6. Len(Append(s, d)) = (q + 1) * Group + 0
  <2>1. Len(s) \in Nat /\ Len(Append(s, d)) = Len(s) + 1
    BY Appended
  <2>2. Len(s) + 1 = (q + 1) * Group + 0
    BY <1>1, <2>1, CountsOn
  <2> QED
    BY <2>1, <2>2
<1>7. s[ByteBits] = 0 => Writing(y, r, Append(s, d), q + 1, 0)
  BY <1>3, <1>5, <1>6, WriteAcknowledged
<1>8. s[ByteBits] # 0 => Reading(y, r, f, q + 1, 0)
  BY <1>3, <1>5, ReadAcknowledged
<1>9. InStep(y, r, Append(s, d), f, q + 1, 0)
  BY <1>2, <1>3, <1>4, <1>5, <1>7, <1>8, Zenon DEF InStep
<1> QED
  BY <1>3, <1>9
\* What the databits, START and END leave is in step.
Becomes(b, s, f) == \E y \in I2cState, v \in RtcState : b = Machine(y, v) /\ BusGood(y, v, s, f)

LEMMA BusIdle ==
    ASSUME NEW y \in I2cState, NEW v \in RtcState, NEW s \in Seq(0 .. 1), NEW f \in Cell, y.state = "IDLE"
    PROVE  BusGood(y, v, s, f)
  BY Zenon DEF BusGood

LEMMA BusInStep ==
    ASSUME NEW y \in I2cState, NEW v \in RtcState, NEW s \in Seq(0 .. 1), NEW f \in Cell,
           NEW q \in Nat, NEW pos \in 0 .. ByteBits,
           Len(s) = q * Group + pos, y.bitcnt = pos, InStep(y, v, s, f, q, pos)
    PROVE  BusGood(y, v, s, f)
  BY Zenon DEF BusGood

\* A bit of a transaction,
LEMMA BitGood ==
    ASSUME NEW x, NEW r, NEW s, NEW f, BusGood(x, r, s, f), NEW d \in 0 .. 1, NEW time \in TimeByte,
           x.state # "IDLE"
    PROVE  Becomes(i2c_databit(Machine(x, r), d, time), Append(s, d), f)
<1>1. x \in I2cState /\ r \in RtcState /\ s \in Seq(0 .. 1) /\ f \in Cell
  BY Zenon DEF BusGood
<1>2. PICK q \in Nat, pos \in 0 .. ByteBits :
          Len(s) = q * Group + pos /\ x.bitcnt = pos /\ InStep(x, r, s, f, q, pos)
  BY Zenon DEF BusGood
<1>3. ByteBits \in Nat /\ pos \in Nat /\ 0 \in 0 .. ByteBits /\ ByteBits \in 0 .. ByteBits
  BY I2cConstants DEF I2cConst
<1>4. Append(s, d) \in Seq(0 .. 1) /\ Len(Append(s, d)) = Len(s) + 1 /\ Len(s) \in Nat
  BY <1>1, Appended
<1>5. CASE pos + 1 < ByteBits
  <2>1. PICK y \in I2cState, v \in RtcState :
            /\ i2c_databit(Machine(x, r), d, time) = Machine(y, v)
            /\ y.bitcnt = pos + 1 /\ InStep(y, v, Append(s, d), f, q, pos + 1)
    BY <1>1, <1>2, <1>3, <1>5, StepWithin
  <2>2. pos + 1 \in 0 .. ByteBits /\ pos < ByteBits
    BY <1>3, <1>5
  <2>3. Len(Append(s, d)) = q * Group + (pos + 1)
    BY <1>2, <1>4, <2>2, CountsOn
  <2>4. BusGood(y, v, Append(s, d), f)
    BY <1>1, <1>4, <2>1, <2>2, <2>3, BusInStep
  <2> QED
    BY <2>1, <2>4, Zenon DEF Becomes
<1>6. CASE pos + 1 = ByteBits
  <2>1. PICK y \in I2cState, v \in RtcState :
            /\ i2c_databit(Machine(x, r), d, time) = Machine(y, v)
            /\ y.bitcnt = ByteBits /\ InStep(y, v, Append(s, d), f, q, ByteBits)
    BY <1>1, <1>2, <1>3, <1>6, StepEnds
  <2>2. pos < ByteBits
    BY <1>3, <1>6
  <2>3. Len(Append(s, d)) = q * Group + ByteBits
    <3>1. Len(Append(s, d)) = q * Group + (pos + 1)
      BY <1>2, <1>4, <2>2, CountsOn
    <3> QED
      BY <1>6, <3>1
  <2>4. BusGood(y, v, Append(s, d), f)
    BY <1>1, <1>3, <1>4, <2>1, <2>3, BusInStep
  <2> QED
    BY <2>1, <2>4, Zenon DEF Becomes
<1>7. CASE pos = ByteBits
  <2>1. PICK y \in I2cState, v \in RtcState :
            /\ i2c_databit(Machine(x, r), d, time) = Machine(y, v)
            /\ y.bitcnt = 0 /\ InStep(y, v, Append(s, d), f, q + 1, 0)
    BY <1>1, <1>2, <1>7, StepAcknowledges
  <2>2. Len(Append(s, d)) = (q + 1) * Group + 0 /\ q + 1 \in Nat
    BY <1>2, <1>4, <1>7, CountsOn
  <2>3. BusGood(y, v, Append(s, d), f)
    BY <1>1, <1>3, <1>4, <2>1, <2>2, BusInStep
  <2> QED
    BY <2>1, <2>3, Zenon DEF Becomes
<1>8. pos + 1 < ByteBits \/ pos + 1 = ByteBits \/ pos = ByteBits
  BY <1>3
<1> QED
  BY <1>5, <1>6, <1>7, <1>8

\* one while the bus is idle,
LEMMA IdleGood ==
    ASSUME NEW x \in I2cState, NEW r \in RtcState, NEW s \in Seq(0 .. 1), NEW f \in Cell,
           NEW d \in 0 .. 1, NEW time \in TimeByte, x.state = "IDLE"
    PROVE  Becomes(i2c_databit(Machine(x, r), d, time), s, f)
<1>1. ByteBits \in Nat /\ x.bitcnt \in 0 .. ByteBits /\ x.state # "ID"
  BY I2cConstants, SMT DEF I2cConst, I2cState
<1>2. \E y \in I2cState, v \in RtcState :
          i2c_databit(Machine(x, r), d, time) = Machine(y, v) /\ y.state = "IDLE"
  <2>1. CASE x.bitcnt + 1 < ByteBits
    <3>1. PICK y \in I2cState : Within(x, r, d, time, y)
      BY <2>1, BitWithin
    <3> QED
      BY <3>1, Zenon DEF Within
  <2>2. CASE x.bitcnt + 1 = ByteBits
    <3>1. PICK y \in I2cState, v \in RtcState : Ends(x, r, d, time, y, v)
      BY <1>1, <2>2, BitEnds
    <3> QED
      BY <3>1, Zenon DEF Ends
  <2>3. CASE x.bitcnt = ByteBits
    <3>1. PICK y \in I2cState : Acknowledges(x, r, d, time, y)
      BY <2>3, BitAcknowledges
    <3> QED
      BY <3>1, Zenon DEF Acknowledges
  <2>4. x.bitcnt + 1 < ByteBits \/ x.bitcnt + 1 = ByteBits \/ x.bitcnt = ByteBits
    BY <1>1
  <2> QED
    BY <2>1, <2>2, <2>3, <2>4
<1>3. PICK y \in I2cState, v \in RtcState :
          i2c_databit(Machine(x, r), d, time) = Machine(y, v) /\ y.state = "IDLE"
  BY <1>2
<1>4. BusGood(y, v, s, f)
  BY <1>3, BusIdle
<1> QED
  BY <1>3, <1>4, Zenon DEF Becomes

\* START and END.
LEMMA EdgeGood ==
    ASSUME NEW x \in I2cState, NEW r \in RtcState, NEW data \in 0 .. 1, NEW time, x.stable = FALSE
    PROVE  Becomes(FallingClock(Machine(x, r), data, time), <<>>, r.bp)
<1> DEFINE e == [x EXCEPT !.state = "IDLE", !.byte = 0, !.bitcnt = 0, !.current = FALSE]
           g == [e EXCEPT !.state = "ID"]
           h == IF data = 0 THEN g ELSE e
           y == [h EXCEPT !.stable = TRUE]
<1>1. ByteBits \in Nat /\ ByteBits >= 2 /\ 0 \in Octet /\ 0 \in 0 .. ByteBits /\ 0 # ByteBits - 1 /\ 0 # ByteBits
      /\ Group \in Nat
  BY I2cConstants DEF I2cConst
<1>2. FallingClock(Machine(x, r), data, time) = Machine(y, r)
  <2>1. Machine(x, r).bus = x /\ Machine(x, r).rtc = r
    BY MachineIs
  <2> QED
    BY <2>1, Zenon DEF FallingClock, i2c_start, i2c_end
<1>3. r.bp \in Cell /\ <<>> \in Seq(0 .. 1) /\ Len(<<>>) = 0
  BY SMT DEF RtcState
<1>4. e \in I2cState
  BY <1>1, ZenonT(60) DEF I2cState
<1>5. e.state = "IDLE" /\ e.byte = 0 /\ e.bitcnt = 0
  BY <1>1, SMT DEF I2cState
<1> HIDE DEF e
<1>6. g \in I2cState
  BY <1>4, ZenonT(60) DEF I2cState
<1>7. g.state = "ID" /\ g.byte = 0 /\ g.bitcnt = 0
  BY <1>4, <1>5, SMT DEF I2cState
<1> HIDE DEF g
<1>8. h \in I2cState /\ h.bitcnt = 0 /\ h.byte = 0 /\ (data = 0 => h.state = "ID") /\ (data # 0 => h.state = "IDLE")
  BY <1>4, <1>5, <1>6, <1>7, Zenon
<1> HIDE DEF h
<1>9. y \in I2cState
  BY <1>8, ZenonT(60) DEF I2cState
<1>10. y.state = h.state /\ y.bitcnt = 0 /\ y.byte = 0
  BY <1>8, SMT DEF I2cState
<1> HIDE DEF y
<1>11. CASE data = 0
  <2>1. Value(<<>>, 1, 0) = 0
    <3>1. 1 + 0 - 1 <= Len(<<>>) /\ 0 \in Nat /\ 1 \in Nat \ {0}
      BY <1>3
    <3> QED
      BY <1>3, <3>1, ValueIs
  <2>2. y.state = "ID" /\ y.byte = Value(<<>>, 1, 0)
    BY <1>8, <1>10, <1>11, <2>1
  <2>3. Addressed(y, r, <<>>, r.bp, 0)
    BY <1>1, <2>2, Zenon DEF Addressed
  <2>4. Done(0, 0) = 0
    BY <1>1 DEF Done
  <2>5. InStep(y, r, <<>>, r.bp, 0, 0)
    BY <2>3, <2>4, Zenon DEF InStep
  <2>6. Len(<<>>) = 0 * Group + 0 /\ 0 \in Nat
    BY <1>1, <1>3
  <2>7. BusGood(y, r, <<>>, r.bp)
    BY <1>1, <1>3, <1>9, <1>10, <2>5, <2>6, BusInStep
  <2> QED
    BY <1>2, <1>9, <2>7, Zenon DEF Becomes
<1>12. CASE data # 0
  <2>1. y.state = "IDLE"
    BY <1>8, <1>10, <1>12
  <2>2. BusGood(y, r, <<>>, r.bp)
    BY <1>3, <1>9, <2>1, BusIdle
  <2> QED
    BY <1>2, <1>9, <2>2, Zenon DEF Becomes
<1> QED
  BY <1>11, <1>12

\* The lines themselves, and the mark that the data line moved, are not in it.
LEMMA LinesApart ==
    ASSUME NEW y, NEW w \in I2cState, NEW v, NEW s, NEW f, BusGood(y, v, s, f),
           Fields(w, y.state, y.byte, y.bitcnt, y.output, y.devid), w.current = y.current
    PROVE  BusGood(w, v, s, f)
<1>1. v \in RtcState /\ s \in Seq(0 .. 1) /\ f \in Cell
  BY Zenon DEF BusGood
<1>2. w.state = y.state /\ w.byte = y.byte /\ w.bitcnt = y.bitcnt /\ w.output = y.output /\ w.devid = y.devid
      /\ w.current = y.current
  BY Zenon DEF Fields
<1>3. CASE y.state = "IDLE"
  BY <1>1, <1>2, <1>3, BusIdle
<1>4. CASE y.state # "IDLE"
  <2>1. PICK q \in Nat, pos \in 0 .. ByteBits :
            Len(s) = q * Group + pos /\ y.bitcnt = pos /\ InStep(y, v, s, f, q, pos)
    BY <1>4, Zenon DEF BusGood
  <2>2. Addressed(y, v, s, f, pos) => Addressed(w, v, s, f, pos)
    BY <1>2, Zenon DEF Addressed
  <2>3. Writing(y, v, s, q, pos) => Writing(w, v, s, q, pos)
    BY <1>2, Zenon DEF Writing
  <2>4. Reading(y, v, f, q, pos) => Reading(w, v, f, q, pos)
    BY <1>2, Zenon DEF Reading
  <2>5. InStep(w, v, s, f, q, pos)
    BY <1>2, <2>1, <2>2, <2>3, <2>4, Zenon DEF InStep
  <2> QED
    BY <1>1, <1>2, <2>1, <2>5, BusInStep
<1> QED
  BY <1>3, <1>4

\* What a write of the lines makes of the machine c after the clock's edge.
Latched(x, c, clk, data) ==
    Machine([c.bus EXCEPT !.stable = @ /\ ~(clk = 1 /\ data # x.data), !.clk = clk, !.data = data], c.rtc)

LEMMA LatchGood ==
    ASSUME NEW x, NEW c, NEW s, NEW f, Becomes(c, s, f), NEW clk \in 0 .. 1, NEW data \in 0 .. 1
    PROVE  Becomes(Latched(x, c, clk, data), s, f)
<1>1. PICK y \in I2cState, v \in RtcState : c = Machine(y, v) /\ BusGood(y, v, s, f)
  BY Zenon DEF Becomes
<1>2. c.bus = y /\ c.rtc = v
  BY <1>1, MachineIs
<1> DEFINE h == y.stable /\ ~(clk = 1 /\ data # x.data)
           w == [y EXCEPT !.stable = h, !.clk = clk, !.data = data]
<1>3. Latched(x, c, clk, data) = Machine(w, v)
  BY <1>2, Zenon DEF Latched
<1>4. h \in BOOLEAN
  OBVIOUS
<1> HIDE DEF h
<1>5. w \in I2cState
  BY <1>4, ZenonT(60) DEF I2cState
<1>6. Fields(w, y.state, y.byte, y.bitcnt, y.output, y.devid)
  <2>1. w.state = y.state /\ w.byte = y.byte /\ w.bitcnt = y.bitcnt /\ w.output = y.output /\ w.devid = y.devid
    BY SMT DEF I2cState
  <2> HIDE DEF w
  <2> QED
    BY <2>1, Zenon DEF Fields
<1>7. w.current = y.current
  BY ZenonT(60) DEF I2cState
<1> HIDE DEF w
<1>8. BusGood(w, v, s, f)
  BY <1>1, <1>5, <1>6, <1>7, LinesApart
<1> QED
  BY <1>3, <1>5, <1>8, Zenon DEF Becomes

\* Software moves the lines.
LEMMA LinesGood ==
    ASSUME I2cInv, NEW clk \in 0 .. 1, NEW data \in 0 .. 1, I2cLines(clk, data)
    PROVE  I2cInv'
<1> DEFINE b == Machine(i2c, rtc)
           falls == clk = 0 /\ i2c.clk = 1
           bit == falls /\ i2c.stable /\ i2c.state # "IDLE"
<1>1. BusGood(i2c, rtc, since, from)
  BY Zenon DEF I2cInv
<1>2. i2c \in I2cState /\ rtc \in RtcState /\ since \in Seq(0 .. 1) /\ from \in Cell
  BY <1>1, Zenon DEF BusGood
<1>3. PICK time \in TimeByte : i2c' = i2c_write(b, clk, data, time).bus /\ rtc' = i2c_write(b, clk, data, time).rtc
  BY Zenon DEF I2cLines
<1>4. /\ since' = IF bit THEN Append(since, data) ELSE IF falls /\ ~i2c.stable THEN <<>> ELSE since
      /\ from' = IF falls /\ ~i2c.stable THEN rtc.bp ELSE from
  BY Zenon DEF I2cLines
<1>5. b.bus = i2c /\ b.rtc = rtc
  BY MachineIs
<1>6. i2c.stable \in BOOLEAN
  BY <1>2, ZenonT(60) DEF I2cState
<1>7. PICK c : c = IF falls THEN FallingClock(b, data, time) ELSE b
  OBVIOUS
<1>8. i2c_write(b, clk, data, time) = Latched(i2c, c, clk, data)
  BY <1>5, <1>7, Zenon DEF i2c_write, Latched
<1>9. Becomes(c, since', from')
  <2>1. CASE ~falls
    <3>1. c = Machine(i2c, rtc) /\ since' = since /\ from' = from
      BY <1>4, <1>7, <2>1, Zenon
    <3> QED
      BY <1>1, <1>2, <3>1, Zenon DEF Becomes
  <2>2. CASE falls /\ i2c.stable = FALSE
    <3>1. ~i2c.stable /\ ~bit
      BY <2>2
    <3>2. c = FallingClock(Machine(i2c, rtc), data, time) /\ since' = <<>> /\ from' = rtc.bp
      BY <1>4, <1>7, <2>2, <3>1, Zenon
    <3>3. Becomes(FallingClock(Machine(i2c, rtc), data, time), <<>>, rtc.bp)
      BY <1>2, <2>2, EdgeGood
    <3> QED
      BY <3>2, <3>3
  <2>3. CASE falls /\ i2c.stable = TRUE /\ i2c.state # "IDLE"
    <3>1. bit /\ ~(falls /\ ~i2c.stable)
      BY <2>3
    <3>2. c = i2c_databit(Machine(i2c, rtc), data, time)
      BY <1>5, <1>7, <2>3, Zenon DEF FallingClock
    <3>3. since' = Append(since, data) /\ from' = from
      BY <1>4, <3>1, Zenon
    <3>4. Becomes(i2c_databit(Machine(i2c, rtc), data, time), Append(since, data), from)
      BY <1>1, <2>3, BitGood
    <3> QED
      BY <3>2, <3>3, <3>4
  <2>4. CASE falls /\ i2c.stable = TRUE /\ i2c.state = "IDLE"
    <3>1. ~bit /\ ~(falls /\ ~i2c.stable)
      BY <2>4
    <3>2. c = i2c_databit(Machine(i2c, rtc), data, time)
      BY <1>5, <1>7, <2>4, Zenon DEF FallingClock
    <3>3. since' = since /\ from' = from
      BY <1>4, <3>1, Zenon
    <3>4. Becomes(i2c_databit(Machine(i2c, rtc), data, time), since, from)
      BY <1>2, <2>4, IdleGood
    <3> QED
      BY <3>2, <3>3, <3>4
  <2> QED
    BY <1>6, <2>1, <2>2, <2>3, <2>4
<1>10. Becomes(Latched(i2c, c, clk, data), since', from')
  BY <1>9, LatchGood
<1>11. PICK y \in I2cState, v \in RtcState :
           Latched(i2c, c, clk, data) = Machine(y, v) /\ BusGood(y, v, since', from')
  BY <1>10, Zenon DEF Becomes
<1>12. i2c' = y /\ rtc' = v
  BY <1>3, <1>8, <1>11, MachineIs
<1> QED
  BY <1>11, <1>12, Zenon DEF I2cInv

LEMMA I2cInvInit == I2cInit => I2cInv
<1> SUFFICES ASSUME I2cInit  PROVE I2cInv
  OBVIOUS
<1>1. 0 \in Octet /\ 0 \in Cell /\ 0 \in 0 .. ByteBits
  BY I2cConstants DEF I2cConst
<1>2. i2c \in I2cState
  <2>1. 0 \in 0 .. 1 /\ 1 \in 0 .. 1
    OBVIOUS
  <2>2. I2cCreated \in I2cState
    BY <1>1, <2>1, ZenonT(60) DEF I2cCreated, I2cState
  <2> QED
    BY <2>2, Zenon DEF I2cInit
<1>3. i2c.state = "IDLE"
  BY Zenon DEF I2cInit, I2cCreated
<1>4. [c \in Cell |-> 0] \in [Cell -> Octet]
  BY <1>1
<1>5. rtc \in RtcState
  BY <1>1, <1>4, ZenonT(60) DEF I2cInit, RtcState
<1>6. since \in Seq(0 .. 1) /\ from \in Cell
  BY <1>1 DEF I2cInit
<1> QED
  BY <1>2, <1>3, <1>5, <1>6, BusIdle DEF I2cInv

LEMMA I2cStep == I2cInv /\ [I2cNext]_i2cVars => I2cInv'
<1> SUFFICES ASSUME I2cInv, [I2cNext]_i2cVars  PROVE I2cInv'
  OBVIOUS
<1>1. CASE UNCHANGED i2cVars
  <2>1. i2c' = i2c /\ rtc' = rtc /\ since' = since /\ from' = from
    BY <1>1, Zenon DEF i2cVars
  <2> QED
    BY <2>1, Zenon DEF I2cInv
<1>2. CASE I2cNext
  <2>1. PICK clk \in 0 .. 1, data \in 0 .. 1 : I2cLines(clk, data)
    BY <1>2, Zenon DEF I2cNext
  <2> QED
    BY <2>1, LinesGood
<1> QED
  BY <1>1, <1>2

\* i2c_write keeps the state, the count and the shift register of the bus, and
\* ds1307_start and ds1307_write its pointer and cells, what the bits since the
\* START make them: the inductive invariant that I2cStepsWell rests on.
THEOREM I2cInvariant == I2cSpec => []I2cInv
  BY I2cInvInit, I2cStep, PTL DEF I2cSpec

\* A count of bits, in bytes and acknowledgements.
LEMMA CountIs ==
    ASSUME NEW n \in Nat, NEW q \in Nat, NEW pos \in 0 .. ByteBits, n = q * Group + pos
    PROVE  (n + 1) \div Group = Done(q, pos) /\ n % Group = pos /\ n \div Group = q
<1>1. ByteBits \in Nat /\ Group = ByteBits + 1 /\ Group \in Nat /\ Group > 0 /\ q \in Int /\ q + 1 \in Int
  BY I2cConstants DEF I2cConst
<1>2. pos \in 0 .. Group - 1 /\ n \in Int /\ n + 1 \in Int /\ 0 \in 0 .. Group - 1
  BY <1>1
<1>3. n % Group = pos /\ n \div Group = q
  BY <1>1, <1>2, ModIs, DivIs
<1>4. CASE pos < ByteBits
  <2>1. n + 1 = q * Group + (pos + 1) /\ pos + 1 \in 0 .. Group - 1
    BY <1>1, <1>4, CountsOn
  <2>2. (n + 1) \div Group = q
    BY <1>1, <1>2, <2>1, DivIs
  <2> QED
    BY <1>3, <1>4, <2>2 DEF Done
<1>5. CASE pos = ByteBits
  <2>1. n + 1 = (q + 1) * Group + 0
    BY <1>5, CountsOn
  <2>2. (n + 1) \div Group = q + 1
    BY <1>1, <1>2, <2>1, DivIs
  <2> QED
    BY <1>3, <1>5, <2>2 DEF Done
<1> QED
  BY <1>1, <1>4, <1>5

LEMMA I2cInvImplies == I2cInv => I2cTypeOK /\ I2cInStep
<1> SUFFICES ASSUME I2cInv  PROVE I2cTypeOK /\ I2cInStep
  OBVIOUS
<1>1. BusGood(i2c, rtc, since, from)
  BY Zenon DEF I2cInv
<1>2. i2c \in I2cState /\ rtc \in RtcState /\ since \in Seq(0 .. 1) /\ from \in Cell
  BY <1>1, Zenon DEF BusGood
<1>3. i2c.current \in BOOLEAN /\ rtc.first \in BOOLEAN
  BY <1>2, ZenonT(60) DEF I2cState, RtcState
<1>4. I2cInStep
  <2> SUFFICES ASSUME i2c.state # "IDLE"  PROVE I2cInStep
    BY Zenon DEF I2cInStep
  <2>1. PICK q \in Nat, p \in 0 .. ByteBits :
            Len(since) = q * Group + p /\ i2c.bitcnt = p /\ InStep(i2c, rtc, since, from, q, p)
    BY <1>1, Zenon DEF BusGood
  <2>2. PICK n \in Nat : n = Len(since)
    BY <1>2
  <2>3. (n + 1) \div Group = Done(q, p) /\ n % Group = p /\ n \div Group = q
    BY <2>1, <2>2, CountIs
  <2>4. PICK done \in Nat : done = Done(q, p)
    BY DEF Done
  <2> DEFINE mine == Value(since, 1, ByteBits - 1) = RTC_ID
             write == since[ByteBits] = 0
  <2>5. CASE done = 0
    <3>1. i2c.state = "ID"
      BY <2>1, <2>4, <2>5, Zenon DEF InStep, Addressed
    <3> QED
      BY <2>2, <2>3, <2>4, <2>5, <3>1, Zenon DEF I2cInStep
  <2>6. CASE done # 0
    <3>1. /\ i2c.current = TRUE <=> mine
          /\ IF write THEN Writing(i2c, rtc, since, q, p) ELSE Reading(i2c, rtc, from, q, p)
      BY <2>1, <2>4, <2>6, Zenon DEF InStep
    <3>2. i2c.current = mine
      BY <1>3, <3>1, Zenon
    <3>3. i2c.state = IF write THEN "DATA_IN" ELSE "DATA_OUT"
      BY <3>1, Zenon DEF Writing, Reading
    <3>4. write /\ p = ByteBits => i2c.output = 0
      BY <3>1, Zenon DEF Writing
    <3>5. write /\ mine => InChip(rtc, since, done)
      BY <2>4, <3>1, Zenon DEF Writing
    <3>6. write /\ mine => (rtc.first <=> done = 1)
      BY <1>3, <3>5, Zenon DEF InChip
    <3>7. write /\ mine /\ done > 1 =>
              /\ rtc.bp = (ByteAt(1) + done - 2) % RamSize
              /\ \A k \in 2 .. done - 1 :
                     k + RamSize >= done => rtc.ram[(ByteAt(1) + k - 2) % RamSize] = ByteAt(k)
      BY <3>5, Zenon DEF InChip, ByteOf, ByteAt
    <3>8. ~write /\ mine /\ p < ByteBits /\ n > ByteBits =>
              i2c.output = (rtc.ram[(from + q - 1) % RamSize] \div Pow2[ByteBits - 1 - p]) % 2
      <4> SUFFICES ASSUME ~write, mine, p < ByteBits
                   PROVE  i2c.output = (rtc.ram[(from + q - 1) % RamSize] \div Pow2[ByteBits - 1 - p]) % 2
        BY Zenon
      <4>1. Reading(i2c, rtc, from, q, p) /\ i2c.current = TRUE
        BY <3>1, Zenon
      <4>2. i2c.output = (Out(rtc, from, q) \div Pow2[(ByteBits - 1) - p]) % 2
        BY <4>1, Zenon DEF Reading
      <4> QED
        BY <4>2, Zenon DEF Out
    <3> HIDE DEF mine, write
    <3>9. IF (n + 1) \div Group = 0 THEN i2c.state = "ID"
          ELSE /\ i2c.current = mine
               /\ i2c.state = IF write THEN "DATA_IN" ELSE "DATA_OUT"
               /\ write /\ n % Group = ByteBits => i2c.output = 0
               /\ write /\ mine => (rtc.first <=> (n + 1) \div Group = 1)
               /\ write /\ mine /\ (n + 1) \div Group > 1 =>
                      /\ rtc.bp = (ByteAt(1) + ((n + 1) \div Group) - 2) % RamSize
                      /\ \A k \in 2 .. ((n + 1) \div Group) - 1 :
                             k + RamSize >= (n + 1) \div Group =>
                                 rtc.ram[(ByteAt(1) + k - 2) % RamSize] = ByteAt(k)
               /\ ~write /\ mine /\ n % Group < ByteBits /\ n > ByteBits =>
                      i2c.output = (rtc.ram[(from + (n \div Group) - 1) % RamSize]
                                       \div Pow2[ByteBits - 1 - (n % Group)]) % 2
      BY <2>3, <2>4, <2>6, <3>2, <3>3, <3>4, <3>6, <3>7, <3>8, Zenon
    <3> QED
      BY <2>2, <3>9, Zenon DEF I2cInStep, mine, write
  <2> QED
    BY <2>5, <2>6
<1> QED
  BY <1>2, <1>4 DEF I2cTypeOK

\* After any number of lines set in any order, i2c_write has the state, the
\* acknowledge and the output that the bits clocked since the START call for;
\* the DS1307 has stored every byte it was given, from the cell the first one
\* named and around the end of its RAM, and a read gives the bits of the cells
\* from its pointer on. For any width of a byte and any number of cells.
THEOREM I2cStepsWell == I2cSpec => []I2cInStep
<1>1. I2cInv => I2cInStep
  BY I2cInvImplies
<1> QED
  BY <1>1, I2cInvariant, PTL

-----------------------------------------------------------------------------
(* The parts together *)

ProtocolInv ==
    /\ fitted \in {"reti", "ps2", "i2c", "w5100"}
    /\ RetiInv /\ Ps2Inv /\ I2cInv /\ W5100Inv

\* A part that is not fitted keeps its invariant: nothing of it changes.
LEMMA OneStep == ProtocolInv /\ [ProtocolNext]_protocolVars => ProtocolInv'
<1> SUFFICES ASSUME ProtocolInv, [ProtocolNext]_protocolVars  PROVE ProtocolInv'
  OBVIOUS
<1>1. RetiInv /\ Ps2Inv /\ I2cInv /\ W5100Inv
  BY DEF ProtocolInv
<1>2. [RetiNext]_retiVars /\ [Ps2Next]_ps2Vars /\ [I2cNext]_i2cVars /\ [W5100Next]_w5100Vars
  <2>1. CASE ProtocolReti
    BY <2>1, Zenon DEF ProtocolReti
  <2>2. CASE ProtocolPs2
    BY <2>2, Zenon DEF ProtocolPs2
  <2>3. CASE ProtocolI2c
    BY <2>3, Zenon DEF ProtocolI2c
  <2>4. CASE ProtocolW5100
    BY <2>4, Zenon DEF ProtocolW5100
  <2>5. CASE UNCHANGED protocolVars
    BY <2>5, Zenon DEF protocolVars
  <2> QED
    BY <2>1, <2>2, <2>3, <2>4, <2>5, Zenon DEF ProtocolNext
<1>3. RetiInv'
  BY <1>1, <1>2, RetiStep
<1>4. Ps2Inv'
  BY <1>1, <1>2, Ps2Step
<1>5. I2cInv'
  BY <1>1, <1>2, I2cStep
<1>6. W5100Inv'
  BY <1>1, <1>2, W5100Step
<1>7. fitted' = fitted
  BY DEF ProtocolNext, ProtocolReti, ProtocolPs2, ProtocolI2c, ProtocolW5100, protocolVars
<1> QED
  BY <1>3, <1>4, <1>5, <1>6, <1>7, Zenon DEF ProtocolInv

\* Whichever part is fitted, its steps keep every field of it in its range and
\* leave the other parts as they were made: rc2014.c's decoder, the keyboard,
\* the I2C bus and the W5100 share no state.
THEOREM ProtocolTypes == ProtocolSpec => []ProtocolTypeOK
<1>1. ProtocolInit => ProtocolInv
  BY RetiStarts, Ps2Begins, I2cInvInit, W5100Starts, Zenon DEF ProtocolInit, ProtocolInv
<1>2. ProtocolInv => ProtocolTypeOK
  <2> SUFFICES ASSUME ProtocolInv  PROVE ProtocolTypeOK
    OBVIOUS
  <2>1. Ps2TypeOK
    BY Ps2InvImplies, Zenon DEF ProtocolInv
  <2>2. I2cTypeOK
    BY I2cInvImplies, Zenon DEF ProtocolInv
  <2>3. W5100TypeOK
    BY Zenon DEF ProtocolInv, W5100Inv
  <2>0. RetiTypeOK /\ fitted \in {"reti", "ps2", "i2c", "w5100"}
    BY Zenon DEF ProtocolInv, RetiInv
  <2>4. CASE fitted = "ps2"
    <3>1. fitted # "reti" /\ fitted # "i2c" /\ fitted # "w5100"
      BY <2>4
    <3> QED
      BY <2>1, <2>4, <3>1, Zenon DEF ProtocolTypeOK
  <2>5. CASE fitted = "i2c"
    <3>1. fitted # "reti" /\ fitted # "ps2" /\ fitted # "w5100"
      BY <2>5
    <3> QED
      BY <2>2, <2>5, <3>1, Zenon DEF ProtocolTypeOK
  <2>6. CASE fitted = "w5100"
    <3>1. fitted # "reti" /\ fitted # "ps2" /\ fitted # "i2c"
      BY <2>6
    <3> QED
      BY <2>3, <2>6, <3>1, Zenon DEF ProtocolTypeOK
  <2>7. CASE fitted = "reti"
    <3>1. fitted # "ps2" /\ fitted # "i2c" /\ fitted # "w5100"
      BY <2>7
    <3> QED
      BY <2>0, <2>7, <3>1, Zenon DEF ProtocolTypeOK
  <2> QED
    BY <2>0, <2>4, <2>5, <2>6, <2>7
<1> QED
  BY <1>1, <1>2, OneStep, PTL DEF ProtocolSpec
=============================================================================
