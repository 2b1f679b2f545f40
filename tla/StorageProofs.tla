--------------------------- MODULE StorageProofs ---------------------------
(***************************************************************************)
(* The invariants of the storage devices, for every geometry, block size   *)
(* and set of commands, and every order of register accesses, bytes,       *)
(* errors and resets.                                                      *)
(***************************************************************************)
EXTENDS MCStorage, TLAPS

-----------------------------------------------------------------------------
(* The IDE controller *)

Job == [first : Nat \cup {NoBlock}, total : Nat]

\* A drive that waits for a command.
AtRest(d) == d \in DriveState /\ d.state = "idle" /\ d.drq = FALSE /\ d.bsy = FALSE

\* The progress of a transfer: the image stands at the sector that is due.
Progress(d, q) ==
    d.pos = q.first + (q.total - d.length) + (IF d.state = "in" /\ d.dptr # SectorBytes THEN 1 ELSE 0)

\* A drive that was last told to do the transfer q: its status is true, its
\* place in the buffer is, and its place in the image is.  The offset of a
\* transfer is never missing, so that an error has a sector to name, and what
\* identify delivers is over before the image would be asked.
DriveOk(d, q) ==
    /\ d \in DriveState
    /\ d.state = "idle" => d.drq = FALSE
    /\ d.state # "idle" => /\ d.drq = TRUE /\ d.length > 0
                           /\ ~d.eightbit => d.dptr % 2 = 0
                           /\ d.state = "out" => d.dptr < SectorBytes
                           /\ IF q.first = NoBlock
                              THEN d.state = "in" /\ d.dptr < SectorBytes /\ d.length = 1
                              ELSE d.offset \in Nat /\ Progress(d, q)

LEMMA RestOk ==
    ASSUME NEW d, AtRest(d), NEW q
    PROVE  DriveOk(d, q)
  BY DEF AtRest, DriveOk

LEMMA ReadyRests ==
    ASSUME NEW d \in DriveState
    PROVE  AtRest(ready(d)) /\ AtRest(failing(d))
  BY DEF AtRest, ready, failing, DriveState

LEMMA IssuedType ==
    ASSUME NEW d \in DriveState
    PROVE  /\ Issued(d) \in DriveState
           /\ Issued(d).block = d.block /\ Issued(d).lba = d.lba /\ Issued(d).count = d.count
           /\ Issued(d).eightbit = d.eightbit
  BY DEF Issued, DriveState

LEMMA XlateType ==
    ASSUME NEW d \in DriveState, NEW n \in IdeDrive
    PROVE  xlate_block(d, n) \in Nat \cup {NoBlock}
<1>1. d.block \in Nat \cup {NoBlock}
  BY DEF DriveState
<1> QED
  BY <1>1 DEF xlate_block, NoBlock

LEMMA LengthType ==
    ASSUME NEW d \in DriveState
    PROVE  Length(d) \in 1 .. MaxCount
<1>1. d.count \in 0 .. MaxCount - 1
  BY DEF DriveState
<1> QED
  BY <1>1, IdeAssumption DEF Length

LEMMA PositionedType ==
    ASSUME NEW d \in DriveState, NEW o \in Nat \cup {NoBlock}
    PROVE  /\ Positioned(d, o) \in DriveState
           /\ Positioned(d, o).offset = o
           /\ o # NoBlock => Positioned(d, o).pos = o
           /\ Positioned(d, o).length = Length(d)
           /\ Positioned(d, o).eightbit = d.eightbit
<1> DEFINE p == IF o = NoBlock THEN d.pos ELSE o
           l == Length(d)
<1>1. d.pos \in Nat
  BY DEF DriveState
<1>2. p \in Nat /\ l \in 0 .. MaxCount
  BY <1>1, LengthType
<1> HIDE DEF p, l
<1>3. /\ [d EXCEPT !.offset = o, !.pos = p, !.length = l] \in DriveState
      /\ [d EXCEPT !.offset = o, !.pos = p, !.length = l].offset = o
      /\ [d EXCEPT !.offset = o, !.pos = p, !.length = l].pos = p
      /\ [d EXCEPT !.offset = o, !.pos = p, !.length = l].length = l
      /\ [d EXCEPT !.offset = o, !.pos = p, !.length = l].eightbit = d.eightbit
  BY <1>2 DEF DriveState
<1>4. Positioned(d, o) = [d EXCEPT !.offset = o, !.pos = p, !.length = l]
  BY DEF Positioned, p, l
<1>5. o # NoBlock => p = o
  BY DEF p
<1> QED
  BY <1>3, <1>4, <1>5 DEF l

\* A read or a write begins at the sector it was given for.
LEMMA TransferOk ==
    ASSUME NEW d \in DriveState, NEW n \in IdeDrive, NEW q,
           q = [first |-> xlate_block(d, n), total |-> Length(d)]
    PROVE  /\ DriveOk(cmd_readsectors(d, n), q) /\ ~cmd_readsectors(d, n).bsy
           /\ DriveOk(cmd_writesectors(d, n), q) /\ ~cmd_writesectors(d, n).bsy
<1> DEFINE o == xlate_block(d, n)
           p == Positioned(d, o)
           r == data_in_state(p)
           w == data_out_state(p)
<1>1. o \in Nat \cup {NoBlock} /\ Length(d) \in 1 .. MaxCount /\ SectorBytes \in Nat \ {0}
      /\ SectorBytes % 2 = 0 /\ SectorBytes \in 0 .. SectorBytes /\ 0 \in 0 .. SectorBytes
  BY XlateType, LengthType, IdeAssumption
<1>2. cmd_readsectors(d, n) = IF d.failed THEN failing(d) ELSE IF o = NoBlock THEN failing(p) ELSE r
  BY DEF cmd_readsectors
<1>3. cmd_writesectors(d, n) = IF d.failed THEN failing(d) ELSE IF o = NoBlock THEN failing(p) ELSE w
  BY DEF cmd_writesectors
<1>4. q.first = o /\ q.total = Length(d)
  OBVIOUS
<1> HIDE DEF o
<1>5. /\ p \in DriveState /\ p.offset = o /\ p.length = Length(d) /\ p.eightbit = d.eightbit
      /\ o # NoBlock => p.pos = o
  BY <1>1, PositionedType
<1> HIDE DEF p
<1>6. DriveOk(failing(d), q) /\ ~failing(d).bsy /\ DriveOk(failing(p), q) /\ ~failing(p).bsy
  BY <1>5, ReadyRests, RestOk DEF AtRest
<1>7. ASSUME o # NoBlock  PROVE DriveOk(r, q) /\ ~r.bsy
  <2>1. /\ r \in DriveState /\ r.state = "in" /\ r.drq = TRUE /\ r.bsy = FALSE
        /\ r.dptr = SectorBytes /\ r.length = p.length /\ r.offset = o /\ r.pos = o
    BY <1>1, <1>5, <1>7 DEF data_in_state, DriveState
  <2> HIDE DEF r
  <2> QED
    BY <1>1, <1>4, <1>5, <1>7, <2>1 DEF DriveOk, Progress, NoBlock
<1>8. ASSUME o # NoBlock  PROVE DriveOk(w, q) /\ ~w.bsy
  <2>1. /\ w \in DriveState /\ w.state = "out" /\ w.drq = TRUE /\ w.bsy = FALSE
        /\ w.dptr = 0 /\ w.length = p.length /\ w.offset = o /\ w.pos = o
    BY <1>1, <1>5, <1>8 DEF data_out_state, DriveState
  <2> HIDE DEF w
  <2> QED
    BY <1>1, <1>4, <1>5, <1>8, <2>1 DEF DriveOk, Progress, NoBlock
<1> HIDE DEF r, w
<1> QED
  BY <1>2, <1>3, <1>6, <1>7, <1>8

LEMMA IdentifyOk ==
    ASSUME NEW d \in DriveState, NEW q, q = [first |-> NoBlock, total |-> 1]
    PROVE  DriveOk(cmd_identify(d), q) /\ ~cmd_identify(d).bsy
<1> DEFINE r == cmd_identify(d)
<1>1. SectorBytes \in Nat \ {0} /\ 0 \in 0 .. SectorBytes /\ 1 \in 0 .. MaxCount /\ q.first = NoBlock
  BY IdeAssumption
<1>2. /\ r \in DriveState /\ r.state = "in" /\ r.drq = TRUE /\ r.bsy = FALSE
      /\ r.dptr = 0 /\ r.length = 1
  BY <1>1 DEF cmd_identify, data_in_state, DriveState
<1> HIDE DEF r
<1> QED
  BY <1>1, <1>2 DEF DriveOk, r

\* The other commands end at once.
LEMMA ControlRests ==
    ASSUME NEW d \in DriveState, NEW n \in IdeDrive
    PROVE  /\ AtRest(cmd_verifysectors(d, n)) /\ AtRest(cmd_recalibrate(d, n))
           /\ AtRest(cmd_seek(d, n)) /\ AtRest(edd_setup(d))
           /\ \A ok \in BOOLEAN : AtRest(cmd_initparam(d, ok))
           /\ \A f : AtRest(cmd_setfeatures(d, f))
<1> DEFINE o == xlate_block(d, n)
           p == Positioned(d, o)
<1>0. o \in Nat \cup {NoBlock} /\ Length(d) \in 1 .. MaxCount
  BY XlateType, LengthType
<1>1. AtRest(cmd_verifysectors(d, n))
  <2> DEFINE e == o + Length(d) - 1
             v == [p EXCEPT !.pos = e]
  <2>1. cmd_verifysectors(d, n) =
          IF d.failed THEN failing(d) ELSE IF o = NoBlock THEN failing(p) ELSE ready(v)
    BY DEF cmd_verifysectors
  <2>2. o # NoBlock => e \in Nat
    BY <1>0, IdeAssumption
  <2> HIDE DEF o, e
  <2>3. p \in DriveState
    BY <1>0, PositionedType
  <2> HIDE DEF p
  <2>4. o # NoBlock => v \in DriveState
    BY <2>2, <2>3 DEF DriveState
  <2> HIDE DEF v
  <2> QED
    BY <2>1, <2>3, <2>4, ReadyRests
<1>2. AtRest(cmd_recalibrate(d, n))
  BY ReadyRests DEF cmd_recalibrate
<1>3. AtRest(cmd_seek(d, n))
  <2> DEFINE e == IF o = NoBlock THEN d.pos ELSE o
             s == [d EXCEPT !.offset = o, !.pos = e]
  <2>1. cmd_seek(d, n) = IF d.failed \/ o = NoBlock THEN failing(s) ELSE ready(s)
    BY DEF cmd_seek
  <2>2. e \in Nat
    BY <1>0 DEF DriveState
  <2> HIDE DEF o, e
  <2>3. s \in DriveState
    BY <1>0, <2>2 DEF DriveState
  <2> HIDE DEF s
  <2> QED
    BY <2>1, <2>3, ReadyRests
<1>4. AtRest(edd_setup(d))
  <2> DEFINE c == 1 % MaxCount
             s == [d EXCEPT !.lba = FALSE, !.block = 0, !.count = c]
  <2>1. c \in 0 .. MaxCount - 1
    BY IdeAssumption
  <2>2. edd_setup(d) = ready(s)
    BY DEF edd_setup
  <2> HIDE DEF c
  <2>3. s \in DriveState
    BY <2>1 DEF DriveState
  <2> HIDE DEF s
  <2> QED
    BY <2>2, <2>3, ReadyRests
<1>5. [d EXCEPT !.failed = TRUE] \in DriveState /\ [d EXCEPT !.failed = FALSE] \in DriveState
      /\ [d EXCEPT !.eightbit = TRUE] \in DriveState /\ [d EXCEPT !.eightbit = FALSE] \in DriveState
  BY DEF DriveState
<1>6. \A ok \in BOOLEAN : AtRest(cmd_initparam(d, ok))
  BY <1>5, ReadyRests DEF cmd_initparam
<1>7. \A f : AtRest(cmd_setfeatures(d, f))
  BY <1>5, ReadyRests DEF cmd_setfeatures
<1> QED
  BY <1>1, <1>2, <1>3, <1>4, <1>6, <1>7

\* The task file after an error: an address, and how many sectors are left.
LEMMA SetErrorRests ==
    ASSUME NEW d \in DriveState, d.offset \in Nat
    PROVE  AtRest(ide_set_error(d))
<1> DEFINE b == IF d.lba THEN d.offset ELSE ChsOf(d.offset)
           c == d.length % MaxCount
           s == [d EXCEPT !.block = b, !.count = c]
<1>1. c \in 0 .. MaxCount - 1
  <2>1. d.length \in Nat
    BY IdeAssumption DEF DriveState
  <2> QED
    BY <2>1, IdeAssumption
<1>2. ChsOf(d.offset) \in Nat \cup {NoBlock}
  <2> DEFINE o   == d.offset
             gc  == Geometry.cylinders
             gh  == Geometry.heads
             gs  == Geometry.sectors
             k   == gc * gs
             e   == o \div gs
             hd  == e \div k
             cyl == e % k
             z   == (cyl * gh + hd) * gs + (o % gs)
  <2>1. gc \in Nat \ {0} /\ gh \in Nat \ {0} /\ gs \in Nat \ {0} /\ o \in Nat
    BY IdeAssumption
  <2>2. ChsOf(o) = IF hd >= gh \/ cyl >= gc THEN NoBlock ELSE z
    BY DEF ChsOf
  <2> HIDE DEF o, gc, gh, gs
  <2>3. k \in Nat \ {0} /\ e \in Nat /\ o % gs \in Nat
    BY <2>1
  <2> HIDE DEF k, e
  <2>4. hd \in Nat /\ cyl \in Nat
    BY <2>3
  <2> HIDE DEF hd, cyl
  <2>5. z \in Nat
    BY <2>1, <2>3, <2>4
  <2> HIDE DEF z
  <2> QED
    BY <2>2, <2>5 DEF o
<1>3. ide_set_error(d) = failing(s)
  BY DEF ide_set_error
<1>4. b \in Nat \cup {NoBlock}
  BY <1>2
<1> HIDE DEF b, c
<1>5. s \in DriveState
  BY <1>1, <1>4 DEF DriveState
<1> HIDE DEF s
<1> QED
  BY <1>3, <1>5, ReadyRests

LEMMA MovedType ==
    ASSUME NEW d \in DriveState, d.offset \in Nat
    PROVE  /\ Moved(d) \in DriveState
           /\ Moved(d).dptr = 0 /\ Moved(d).pos = d.pos + 1 /\ Moved(d).offset \in Nat
           /\ Moved(d).state = d.state /\ Moved(d).drq = d.drq /\ Moved(d).bsy = d.bsy
           /\ Moved(d).length = d.length /\ Moved(d).eightbit = d.eightbit
<1> DEFINE p == d.pos + 1
           o == d.offset + 512
<1>1. p \in Nat /\ o \in Nat /\ 0 \in 0 .. SectorBytes
  BY IdeAssumption DEF DriveState
<1>2. Moved(d) = [d EXCEPT !.dptr = 0, !.pos = p, !.offset = o]
  BY DEF Moved
<1> HIDE DEF o
<1>3. Moved(d).pos = p
  BY <1>2 DEF DriveState
<1>4. p = d.pos + 1
  OBVIOUS
<1> HIDE DEF p
<1>5. Moved(d) \in DriveState
  <2> DEFINE e == [d EXCEPT !.dptr = 0, !.pos = p]
  <2>1. e \in DriveState
    BY <1>1 DEF DriveState
  <2>2. Moved(d) = [e EXCEPT !.offset = o]
    BY <1>2
  <2> HIDE DEF e
  <2> QED
    BY <1>1, <2>1, <2>2 DEF DriveState
<1>6. /\ Moved(d).dptr = 0 /\ Moved(d).offset = o
      /\ Moved(d).state = d.state /\ Moved(d).drq = d.drq /\ Moved(d).bsy = d.bsy
      /\ Moved(d).length = d.length /\ Moved(d).eightbit = d.eightbit
  BY <1>2 DEF DriveState
<1> QED
  BY <1>1, <1>3, <1>4, <1>5, <1>6

\* One access further into the buffer.
LEMMA SteppedType ==
    ASSUME NEW d \in DriveState, NEW n \in 0 .. SectorBytes, NEW r, r = [d EXCEPT !.dptr = n]
    PROVE  /\ r \in DriveState /\ r.dptr = n /\ r.pos = d.pos /\ r.offset = d.offset
           /\ r.state = d.state /\ r.drq = d.drq /\ r.bsy = d.bsy
           /\ r.length = d.length /\ r.eightbit = d.eightbit
  BY DEF DriveState

\* The end of a sector, of the last one and of another.
LEMMA SectorDoneOk ==
    ASSUME NEW d \in DriveState, d.length > 0, NEW r, r = SectorDone(d)
    PROVE  /\ d.length = 1 => AtRest(r)
           /\ d.length # 1 => /\ r \in DriveState /\ r.length = d.length - 1 /\ r.length > 0
                              /\ r.dptr = d.dptr /\ r.pos = d.pos /\ r.offset = d.offset
                              /\ r.state = d.state /\ r.drq = d.drq /\ r.bsy = d.bsy
                              /\ r.eightbit = d.eightbit
<1> DEFINE l == d.length - 1
           z == [d EXCEPT !.length = 0]
<1>1. d.length \in 0 .. MaxCount /\ MaxCount \in Nat
  BY IdeAssumption DEF DriveState
<1>2. l \in 0 .. MaxCount /\ 0 \in 0 .. MaxCount /\ (d.length # 1 => l > 0)
  BY <1>1
<1>3. z \in DriveState
  BY <1>2 DEF DriveState
<1>4. CASE d.length = 1
  <2>1. r = ready(z)
    BY <1>4 DEF SectorDone
  <2> HIDE DEF z
  <2> QED
    BY <1>3, <1>4, <2>1, ReadyRests
<1>5. CASE d.length # 1
  <2>1. r = [d EXCEPT !.length = l]
    BY <1>5 DEF SectorDone
  <2>2. l = d.length - 1
    OBVIOUS
  <2> HIDE DEF l
  <2>3. /\ r \in DriveState /\ r.length = l
        /\ r.dptr = d.dptr /\ r.pos = d.pos /\ r.offset = d.offset
        /\ r.state = d.state /\ r.drq = d.drq /\ r.bsy = d.bsy
        /\ r.eightbit = d.eightbit
    BY <1>2, <2>1 DEF DriveState
  <2> QED
    BY <1>2, <1>5, <2>2, <2>3
<1> QED
  BY <1>4, <1>5

\* A step never passes the end of the buffer.
LEMMA StepFits ==
    ASSUME NEW d \in DriveState, NEW p \in 0 .. SectorBytes, p < SectorBytes,
           ~d.eightbit => p % 2 = 0
    PROVE  /\ p + Step(d) \in 0 .. SectorBytes /\ p + Step(d) # 0
           /\ ~d.eightbit => (p + Step(d)) % 2 = 0
  BY IdeAssumption DEF Step

LEMMA DataInOk ==
    ASSUME NEW d, NEW q \in Job, DriveOk(d, q), NEW ok \in BOOLEAN
    PROVE  DriveOk(ide_data_in(d, ok), q) /\ (ide_data_in(d, ok).bsy => d.bsy)
<1> DEFINE s == IF d.dptr = SectorBytes THEN Moved(d) ELSE d
           n == s.dptr + Step(d)
           r == [s EXCEPT !.dptr = n]
           z == [d EXCEPT !.dptr = 0]
           x == ide_data_in(d, ok)
<1>0. /\ d \in DriveState /\ SectorBytes \in Nat \ {0} /\ 0 \in 0 .. SectorBytes
      /\ d.dptr \in 0 .. SectorBytes /\ d.length \in Nat /\ d.pos \in Nat
      /\ q.first \in Nat \cup {NoBlock} /\ q.total \in Nat
  BY IdeAssumption DEF DriveOk, DriveState, Job
<1>1. CASE d.state # "in"
  BY <1>1 DEF ide_data_in
<1>2. CASE d.state = "in" /\ d.dptr = SectorBytes /\ ~ok
  <2>1. x = ide_set_error(z)
    BY <1>2 DEF ide_data_in
  <2>2. z \in DriveState /\ z.offset \in Nat
    <3>1. d.offset \in Nat
      BY <1>0, <1>2 DEF DriveOk
    <3> QED
      BY <1>0, <3>1, SteppedType
  <2> HIDE DEF z, x
  <2>3. AtRest(x)
    BY <2>1, <2>2, SetErrorRests
  <2>4. DriveOk(x, q) /\ x.bsy = FALSE
    BY <2>3, RestOk DEF AtRest
  <2> QED
    BY <2>4 DEF x
<1>3. CASE d.state = "in" /\ ~(d.dptr = SectorBytes /\ ~ok)
  <2>1. x = IF n = SectorBytes THEN SectorDone(r) ELSE r
    <3>1. x = IF r.dptr = SectorBytes THEN SectorDone(r) ELSE r
      BY <1>3 DEF ide_data_in
    <3>2. s \in DriveState
      BY <1>0, <1>3, MovedType DEF DriveOk
    <3> HIDE DEF s, n
    <3>3. r.dptr = n
      BY <3>2 DEF DriveState
    <3> QED
      BY <3>1, <3>3
  <2>2. /\ s \in DriveState /\ s.dptr \in 0 .. SectorBytes /\ s.dptr < SectorBytes
        /\ ~d.eightbit => s.dptr % 2 = 0
        /\ s.state = "in" /\ s.drq = TRUE /\ s.bsy = d.bsy /\ s.eightbit = d.eightbit
        /\ s.length = d.length
    <3>1. CASE d.dptr = SectorBytes
      BY <1>0, <1>3, <3>1, MovedType DEF DriveOk
    <3>2. CASE d.dptr # SectorBytes
      BY <1>0, <1>3, <3>2 DEF DriveOk
    <3> QED
      BY <3>1, <3>2
  <2>3. q.first # NoBlock => s.offset \in Nat /\ s.pos = q.first + (q.total - s.length) + 1
    <3>1. CASE d.dptr = SectorBytes
      BY <1>0, <1>3, <3>1, MovedType DEF DriveOk, Progress
    <3>2. CASE d.dptr # SectorBytes
      BY <1>0, <1>3, <3>2 DEF DriveOk, Progress
    <3> QED
      BY <3>1, <3>2
  <2>4. q.first = NoBlock => s.length = 1
    BY <1>0, <1>3 DEF DriveOk
  <2>5. s.length > 0
    BY <1>3, <2>2 DEF DriveOk
  <2> HIDE DEF s
  <2>6. n \in 0 .. SectorBytes /\ (~d.eightbit => n % 2 = 0)
    BY <1>0, <2>2, StepFits
  <2> HIDE DEF n
  <2>7. /\ r \in DriveState /\ r.dptr = n /\ r.pos = s.pos /\ r.offset = s.offset
        /\ r.state = "in" /\ r.drq = TRUE /\ r.bsy = d.bsy
        /\ r.length = s.length /\ r.eightbit = d.eightbit
    BY <2>2, <2>6, SteppedType
  <2> HIDE DEF r, x
  <2>8. CASE n # SectorBytes
    <3>1. x = r
      BY <2>1, <2>8
    <3>2. n < SectorBytes
      BY <1>0, <2>6, <2>8
    <3>3. q.first # NoBlock => Progress(r, q)
      BY <2>3, <2>7, <2>8 DEF Progress
    <3>4. DriveOk(r, q)
      BY <2>3, <2>4, <2>5, <2>6, <2>7, <3>2, <3>3 DEF DriveOk
    <3> QED
      BY <2>7, <3>1, <3>4 DEF x
  <2>9. CASE n = SectorBytes /\ r.length = 1
    <3>1. AtRest(x)
      BY <2>1, <2>5, <2>7, <2>9, SectorDoneOk
    <3>2. DriveOk(x, q) /\ x.bsy = FALSE
      BY <3>1, RestOk DEF AtRest
    <3> QED
      BY <3>2 DEF x
  <2>10. CASE n = SectorBytes /\ r.length # 1
    <3>1. /\ x \in DriveState /\ x.length = s.length - 1 /\ x.length > 0
          /\ x.dptr = n /\ x.pos = s.pos /\ x.offset = s.offset
          /\ x.state = "in" /\ x.drq = TRUE /\ x.bsy = d.bsy /\ x.eightbit = d.eightbit
      BY <2>1, <2>5, <2>7, <2>10, SectorDoneOk
    <3>2. q.first # NoBlock
      BY <2>4, <2>7, <2>10
    <3>3. Progress(x, q)
      BY <1>0, <2>2, <2>3, <2>10, <3>1, <3>2 DEF Progress
    <3>4. DriveOk(x, q)
      BY <2>3, <2>6, <2>10, <3>1, <3>2, <3>3 DEF DriveOk
    <3> QED
      BY <3>1, <3>4 DEF x
  <2> QED
    BY <2>8, <2>9, <2>10
<1> QED
  BY <1>1, <1>2, <1>3

LEMMA DataOutOk ==
    ASSUME NEW d, NEW q \in Job, DriveOk(d, q), NEW ok \in BOOLEAN
    PROVE  DriveOk(ide_data_out(d, ok), q) /\ (ide_data_out(d, ok).bsy => d.bsy)
<1> DEFINE n == d.dptr + Step(d)
           r == [d EXCEPT !.dptr = n]
           z == [r EXCEPT !.dptr = 0]
           v == Moved(r)
           x == ide_data_out(d, ok)
<1>0. /\ d \in DriveState /\ SectorBytes \in Nat \ {0} /\ 0 \in 0 .. SectorBytes
      /\ d.dptr \in 0 .. SectorBytes /\ d.length \in Nat /\ d.pos \in Nat
      /\ q.first \in Nat \cup {NoBlock} /\ q.total \in Nat
  BY IdeAssumption DEF DriveOk, DriveState, Job
<1>1. CASE d.state # "out"
  BY <1>1 DEF ide_data_out
<1>2. CASE d.state = "out"
  <2>1. /\ d.dptr < SectorBytes /\ d.drq = TRUE /\ d.length > 0 /\ q.first # NoBlock
        /\ d.offset \in Nat /\ d.pos = q.first + (q.total - d.length)
        /\ ~d.eightbit => d.dptr % 2 = 0
    BY <1>0, <1>2 DEF DriveOk, Progress
  <2>2. n \in 0 .. SectorBytes /\ (~d.eightbit => n % 2 = 0)
    BY <1>0, <2>1, StepFits
  <2> HIDE DEF n
  <2>3. /\ r \in DriveState /\ r.dptr = n /\ r.pos = d.pos /\ r.offset = d.offset
        /\ r.state = "out" /\ r.drq = TRUE /\ r.bsy = d.bsy
        /\ r.length = d.length /\ r.eightbit = d.eightbit
    BY <1>0, <1>2, <2>1, <2>2, SteppedType
  <2>4. x = IF r.dptr # SectorBytes THEN r ELSE IF ok THEN SectorDone(v) ELSE ide_set_error(z)
    BY <1>2 DEF ide_data_out, n
  <2> HIDE DEF r, x
  <2>5. /\ v \in DriveState /\ v.dptr = 0 /\ v.pos = d.pos + 1 /\ v.offset \in Nat
        /\ v.state = "out" /\ v.drq = TRUE /\ v.bsy = d.bsy
        /\ v.length = d.length /\ v.eightbit = d.eightbit
    BY <2>1, <2>3, MovedType
  <2>6. z \in DriveState /\ z.offset \in Nat
    BY <1>0, <2>1, <2>3, SteppedType
  <2> HIDE DEF v, z
  <2>7. CASE n # SectorBytes
    <3>1. x = r /\ n < SectorBytes
      BY <1>0, <2>2, <2>3, <2>4, <2>7
    <3>2. Progress(r, q)
      BY <1>0, <2>1, <2>3 DEF Progress
    <3>3. DriveOk(r, q)
      BY <2>1, <2>2, <2>3, <3>1, <3>2 DEF DriveOk
    <3> QED
      BY <2>3, <3>1, <3>3 DEF x
  <2>8. CASE n = SectorBytes /\ (~ok \/ d.length = 1)
    <3>1. AtRest(x)
      <4>1. CASE ok
        <5>1. x = SectorDone(v) /\ v.length = 1 /\ v.length > 0
          BY <2>3, <2>4, <2>5, <2>8, <4>1
        <5> QED
          BY <2>5, <5>1, SectorDoneOk
      <4>2. CASE ~ok
        <5>1. x = ide_set_error(z)
          BY <2>3, <2>4, <2>8, <4>2
        <5> QED
          BY <2>6, <5>1, SetErrorRests
      <4> QED
        BY <4>1, <4>2
    <3>2. DriveOk(x, q) /\ x.bsy = FALSE
      BY <3>1, RestOk DEF AtRest
    <3> QED
      BY <3>2 DEF x
  <2>9. CASE n = SectorBytes /\ ok /\ d.length # 1
    <3>1. x = SectorDone(v)
      BY <2>3, <2>4, <2>9
    <3>2. /\ x \in DriveState /\ x.length = d.length - 1 /\ x.length > 0
          /\ x.dptr = 0 /\ x.pos = d.pos + 1 /\ x.offset \in Nat
          /\ x.state = "out" /\ x.drq = TRUE /\ x.bsy = d.bsy /\ x.eightbit = d.eightbit
      BY <2>1, <2>5, <2>9, <3>1, SectorDoneOk
    <3>3. Progress(x, q)
      BY <1>0, <2>1, <3>2 DEF Progress
    <3>4. DriveOk(x, q)
      BY <1>0, <2>1, <3>2, <3>3 DEF DriveOk
    <3> QED
      BY <3>2, <3>4 DEF x
  <2> QED
    BY <2>7, <2>8, <2>9
<1> QED
  BY <1>1, <1>2

\* What is known of the controller: both drives, and who may be busy.
IdeInv ==
    /\ ide \in IdeState
    /\ job \in [IdeDrive -> Job]
    /\ \A n \in IdeDrive : DriveOk(ide.drive[n], job[n]) /\ (ide.drive[n].bsy => ide.srst)

LEMMA IdeCreatedOk == IdeInit => IdeInv
<1> SUFFICES ASSUME IdeInit  PROVE IdeInv
  OBVIOUS
<1> DEFINE c == 1 % MaxCount
<1>1. /\ c \in 0 .. MaxCount - 1 /\ 0 \in 0 .. MaxCount /\ 0 \in 0 .. SectorBytes
      /\ 0 \in IdeDrive
  BY IdeAssumption DEF IdeDrive
<1>2. AtRest(DriveCreated)
  <2>1. DriveCreated =
          [state |-> "idle", bsy |-> FALSE, drq |-> FALSE, err |-> FALSE, failed |-> FALSE,
           eightbit |-> FALSE, lba |-> FALSE, block |-> 0, count |-> c, length |-> 0,
           dptr |-> 0, pos |-> 2, offset |-> 0]
    BY DEF DriveCreated
  <2> HIDE DEF c
  <2> QED
    BY <1>1, <2>1 DEF AtRest, DriveState
<1> HIDE DEF c
<1>3. /\ \A n \in IdeDrive : ide.drive[n] = DriveCreated
      /\ ide.drive \in [IdeDrive -> DriveState]
      /\ ide \in IdeState
  BY <1>1, <1>2 DEF IdeInit, IdeCreated, IdeState, AtRest
<1>4. job \in [IdeDrive -> Job]
  <2>1. [first |-> 0, total |-> 0] \in Job
    BY DEF Job
  <2> QED
    BY <2>1 DEF IdeInit
<1>5. ASSUME NEW n \in IdeDrive
      PROVE  DriveOk(ide.drive[n], job[n]) /\ ~ide.drive[n].bsy
  BY <1>2, <1>3, RestOk DEF AtRest
<1> QED
  BY <1>3, <1>4, <1>5 DEF IdeInv

\* A step that only changes the selected drive.
LEMMA OneDrive ==
    ASSUME IdeInv, NEW x, NEW q \in Job, DriveOk(x, q), x.bsy => ide.srst,
           ide' = [ide EXCEPT !.drive[Sel] = x], job' = [job EXCEPT ![Sel] = q]
    PROVE  IdeInv'
<1>1. x \in DriveState /\ ide \in IdeState /\ Sel \in IdeDrive /\ job \in [IdeDrive -> Job]
  BY DEF DriveOk, IdeInv, IdeState, Sel
<1>2. ide' \in IdeState /\ ide'.srst = ide.srst /\ ide'.drive[Sel] = x
      /\ \A n \in IdeDrive \ {Sel} : ide'.drive[n] = ide.drive[n]
  BY <1>1 DEF IdeState
<1>3. job' \in [IdeDrive -> Job] /\ job'[Sel] = q /\ \A n \in IdeDrive \ {Sel} : job'[n] = job[n]
  BY <1>1
<1>4. ASSUME NEW n \in IdeDrive
      PROVE  DriveOk(ide'.drive[n], job'[n]) /\ (ide'.drive[n].bsy => ide'.srst)
  <2>1. CASE n = Sel
    BY <1>2, <1>3, <2>1
  <2>2. CASE n # Sel
    BY <1>2, <1>3, <2>2 DEF IdeInv
  <2> QED
    BY <2>1, <2>2
<1> QED
  BY <1>2, <1>3, <1>4 DEF IdeInv, DriveOk, Progress, DriveState, Job

\* Two forms of the same: a transfer is told, or none is.
LEMMA OneDriveSame ==
    ASSUME IdeInv, NEW x, DriveOk(x, job[Sel]), x.bsy => ide.srst,
           ide' = [ide EXCEPT !.drive[Sel] = x], UNCHANGED job
    PROVE  IdeInv'
<1>1. Sel \in IdeDrive /\ job \in [IdeDrive -> Job]
  BY DEF IdeInv, IdeState, Sel
<1>2. job[Sel] \in Job /\ job' = [job EXCEPT ![Sel] = job[Sel]]
  BY <1>1
<1> QED
  BY <1>2, OneDrive

\* What the controller is known to be, drive by drive, after a step that may
\* change both.
LEMMA BothDrives ==
    ASSUME IdeInv, NEW f \in [IdeDrive -> DriveState], ide' \in IdeState, ide'.drive = f,
           \A n \in IdeDrive : DriveOk(f[n], job[n]) /\ (f[n].bsy => ide'.srst), UNCHANGED job
    PROVE  IdeInv'
<1>1. job' \in [IdeDrive -> Job]
  BY DEF IdeInv
<1>2. \A n \in IdeDrive : DriveOk(ide'.drive[n], job'[n]) /\ (ide'.drive[n].bsy => ide'.srst)
  OBVIOUS
<1> QED
  BY <1>1, <1>2 DEF IdeInv, DriveOk, Progress, DriveState, Job

LEMMA SelectOk ==
    ASSUME IdeInv, IdeSelect
    PROVE  IdeInv'
<1>1. PICK m \in IdeDrive, lba \in BOOLEAN :
         ide' = [ide EXCEPT !.selected = m, !.drive[m].lba = lba]
  BY DEF IdeSelect
<1> DEFINE x == [ide.drive[m] EXCEPT !.lba = lba]
           f == [ide.drive EXCEPT ![m] = x]
<1>2. ide \in IdeState /\ ide.drive \in [IdeDrive -> DriveState] /\ ide.drive[m] \in DriveState
  BY DEF IdeInv, IdeState
<1>3. x \in DriveState /\ x.bsy = ide.drive[m].bsy
  BY <1>2 DEF DriveState
<1>4. \A q : DriveOk(ide.drive[m], q) => DriveOk(x, q)
  BY <1>2, <1>3 DEF DriveOk, Progress, DriveState
<1>5. ide' = [ide EXCEPT !.selected = m, !.drive = f]
  BY <1>1, <1>2 DEF IdeState
<1> HIDE DEF x
<1>6. f \in [IdeDrive -> DriveState] /\ f[m] = x /\ \A n \in IdeDrive \ {m} : f[n] = ide.drive[n]
  BY <1>2, <1>3
<1> HIDE DEF f
<1>7. ide' \in IdeState /\ ide'.drive = f /\ ide'.srst = ide.srst
  BY <1>2, <1>5, <1>6 DEF IdeState
<1>8. ASSUME NEW n \in IdeDrive  PROVE DriveOk(f[n], job[n]) /\ (f[n].bsy => ide'.srst)
  <2>1. CASE n = m
    BY <1>3, <1>4, <1>6, <1>7, <2>1 DEF IdeInv
  <2>2. CASE n # m
    BY <1>6, <1>7, <2>2 DEF IdeInv
  <2> QED
    BY <2>1, <2>2
<1>9. UNCHANGED job
  BY DEF IdeSelect
<1> QED
  BY <1>6, <1>7, <1>8, <1>9, BothDrives

LEMMA WriteTaskOk ==
    ASSUME IdeInv, IdeWriteTask
    PROVE  IdeInv'
<1> DEFINE d == ide.drive[Sel]
<1>1. /\ ide \in IdeState /\ Sel \in IdeDrive /\ d \in DriveState /\ DriveOk(d, job[Sel])
      /\ d.bsy => ide.srst
  BY DEF IdeInv, IdeState, Sel
<1>2. UNCHANGED job
  BY DEF IdeWriteTask
<1>3. CASE \E v \in Count : ide' = [ide EXCEPT !.drive[Sel].count = v]
  <2>1. PICK v \in Count : ide' = [ide EXCEPT !.drive[Sel].count = v]
    BY <1>3
  <2> DEFINE x == [d EXCEPT !.count = v]
  <2>2. v \in 0 .. MaxCount - 1
    BY IdeAssumption
  <2>3. DriveOk(x, job[Sel]) /\ x.bsy = d.bsy
    BY <1>1, <2>2 DEF DriveOk, Progress, DriveState
  <2>4. ide' = [ide EXCEPT !.drive[Sel] = x]
    BY <2>1
  <2> HIDE DEF x
  <2> QED
    BY <1>1, <1>2, <2>3, <2>4, OneDriveSame
<1>4. CASE \E b \in Block \cup {NoBlock} : ide' = [ide EXCEPT !.drive[Sel].block = b]
  <2>1. PICK b \in Block \cup {NoBlock} : ide' = [ide EXCEPT !.drive[Sel].block = b]
    BY <1>4
  <2> DEFINE x == [d EXCEPT !.block = b]
  <2>2. b \in Nat \cup {NoBlock}
    BY IdeAssumption
  <2>3. DriveOk(x, job[Sel]) /\ x.bsy = d.bsy
    BY <1>1, <2>2 DEF DriveOk, Progress, DriveState
  <2>4. ide' = [ide EXCEPT !.drive[Sel] = x]
    BY <2>1
  <2> HIDE DEF x
  <2> QED
    BY <1>1, <1>2, <2>3, <2>4, OneDriveSame
<1> QED
  BY <1>3, <1>4 DEF IdeWriteTask

LEMMA ResetOk ==
    ASSUME IdeInv
    PROVE  /\ ide_reset(ide) \in IdeState /\ ide_reset(ide).srst = ide.srst
           /\ \A n \in IdeDrive : /\ n \in Present => AtRest(ide_reset(ide).drive[n])
                                  /\ n \notin Present => ide_reset(ide).drive[n] = ide.drive[n]
<1> DEFINE f == [n \in IdeDrive |->
                    IF n \in Present
                    THEN [edd_setup(ide.drive[n]) EXCEPT !.err = FALSE, !.eightbit = FALSE]
                    ELSE ide.drive[n]]
           r == ide_reset(ide)
<1>1. ide \in IdeState /\ \A n \in IdeDrive : ide.drive[n] \in DriveState
  BY DEF IdeInv, IdeState
<1>2. r = [ide EXCEPT !.drive = f, !.selected = 0]
  BY DEF ide_reset
<1>3. ASSUME NEW n \in IdeDrive
      PROVE  /\ n \in Present => AtRest(f[n])
             /\ n \notin Present => f[n] = ide.drive[n]
  <2>1. AtRest(edd_setup(ide.drive[n]))
    BY <1>1, ControlRests
  <2>2. AtRest([edd_setup(ide.drive[n]) EXCEPT !.err = FALSE, !.eightbit = FALSE])
    BY <2>1 DEF AtRest, DriveState
  <2> QED
    BY <2>2
<1>4. f \in [IdeDrive -> DriveState]
  <2> HIDE DEF f
  <2>1. \A n \in IdeDrive : f[n] \in DriveState
    BY <1>1, <1>3 DEF AtRest
  <2> QED
    BY <2>1 DEF f
<1> HIDE DEF f
<1>5. r \in IdeState /\ r.srst = ide.srst /\ r.drive = f
  BY <1>1, <1>2, <1>4 DEF IdeState, IdeDrive
<1> QED
  BY <1>3, <1>5

LEMMA HardResetOk ==
    ASSUME IdeInv, IdeHardReset
    PROVE  IdeInv'
<1> DEFINE f == ide_reset(ide).drive
<1>1. ide' = ide_reset(ide) /\ UNCHANGED job
  BY DEF IdeHardReset
<1>2. ide' \in IdeState /\ ide'.srst = ide.srst /\ ide'.drive = f /\ f \in [IdeDrive -> DriveState]
  BY <1>1, ResetOk DEF IdeState
<1>3. ASSUME NEW n \in IdeDrive  PROVE DriveOk(f[n], job[n]) /\ (f[n].bsy => ide'.srst)
  <2>1. CASE n \in Present
    BY <2>1, ResetOk, RestOk DEF AtRest
  <2>2. CASE n \notin Present
    BY <1>2, <2>2, ResetOk DEF IdeInv
  <2> QED
    BY <2>1, <2>2
<1> HIDE DEF f
<1> QED
  BY <1>1, <1>2, <1>3, BothDrives

LEMMA DevctrlOk ==
    ASSUME IdeInv, IdeDevctrl
    PROVE  IdeInv'
<1>0. ide \in IdeState /\ ide.drive \in [IdeDrive -> DriveState]
  BY DEF IdeInv, IdeState
<1>1. PICK on \in BOOLEAN :
         ide' = [IF on = ide.srst THEN ide
                 ELSE IF on THEN ide_srst_begin(ide) ELSE ide_srst_end(ide)
                 EXCEPT !.srst = on]
  BY DEF IdeDevctrl
<1>2. UNCHANGED job
  BY DEF IdeDevctrl
<1>3. CASE on = ide.srst
  <2>1. ide' = ide
    BY <1>0, <1>1, <1>3 DEF IdeState
  <2>2. ide' \in IdeState /\ ide'.drive = ide.drive
    BY <1>0, <2>1
  <2>3. \A n \in IdeDrive : DriveOk(ide.drive[n], job[n]) /\ (ide.drive[n].bsy => ide'.srst)
    BY <2>1 DEF IdeInv
  <2> QED
    BY <1>0, <1>2, <2>2, <2>3, BothDrives
<1>4. CASE on # ide.srst /\ on = TRUE
  <2> DEFINE r == ide_reset(ide)
             f == [n \in IdeDrive |-> IF n \in Present THEN [r.drive[n] EXCEPT !.bsy = TRUE]
                                      ELSE r.drive[n]]
             b == [r EXCEPT !.drive = f]
  <2>1. ide' = [b EXCEPT !.srst = on]
    BY <1>1, <1>4 DEF ide_srst_begin
  <2>2. /\ r \in IdeState
        /\ \A n \in IdeDrive : /\ n \in Present => AtRest(r.drive[n])
                               /\ n \notin Present => r.drive[n] = ide.drive[n]
    BY ResetOk
  <2> HIDE DEF r
  <2>3. ASSUME NEW n \in IdeDrive  PROVE f[n] \in DriveState /\ DriveOk(f[n], job[n])
    <3>1. CASE n \in Present
      <4>1. f[n] = [r.drive[n] EXCEPT !.bsy = TRUE] /\ AtRest(r.drive[n])
        BY <2>2, <3>1
      <4> HIDE DEF f
      <4>2. f[n] \in DriveState /\ f[n].state = "idle" /\ f[n].drq = FALSE
        BY <4>1 DEF AtRest, DriveState
      <4> QED
        BY <4>2 DEF DriveOk
    <3>2. CASE n \notin Present
      <4>1. f[n] = ide.drive[n]
        BY <2>2, <3>2
      <4> HIDE DEF f
      <4> QED
        BY <1>0, <4>1 DEF IdeInv
    <3> QED
      BY <3>1, <3>2
  <2>4. f \in [IdeDrive -> DriveState]
    BY <2>3
  <2> HIDE DEF f
  <2>5. ide' \in IdeState /\ ide'.srst = TRUE /\ ide'.drive = f
    BY <1>4, <2>1, <2>2, <2>4 DEF IdeState
  <2> QED
    BY <1>2, <2>3, <2>4, <2>5, BothDrives
<1>5. CASE on # ide.srst /\ on = FALSE
  <2> DEFINE f == [n \in IdeDrive |-> ready(ide.drive[n])]
             b == [ide EXCEPT !.drive = f]
  <2>1. ide' = [b EXCEPT !.srst = on]
    BY <1>1, <1>5 DEF ide_srst_end
  <2>2. ASSUME NEW n \in IdeDrive  PROVE AtRest(f[n])
    BY <1>0, ReadyRests
  <2> HIDE DEF f
  <2>3. f \in [IdeDrive -> DriveState]
    BY <2>2 DEF f, AtRest
  <2>4. ide' \in IdeState /\ ide'.drive = f
    BY <1>0, <1>5, <2>1, <2>3 DEF IdeState
  <2>5. ASSUME NEW n \in IdeDrive  PROVE DriveOk(f[n], job[n]) /\ f[n].bsy = FALSE
    BY <2>2, RestOk DEF AtRest
  <2> QED
    BY <1>2, <2>3, <2>4, <2>5, BothDrives
<1> QED
  BY <1>3, <1>4, <1>5

LEMMA DiagnoseOk ==
    ASSUME IdeInv, IdeDiagnose
    PROVE  IdeInv'
<1> DEFINE e(n) == IF n = Sel THEN Issued(ide.drive[n]) ELSE ide.drive[n]
           f == [n \in IdeDrive |-> IF n \in Present THEN edd_setup(e(n)) ELSE e(n)]
<1>1. ide' = [ide EXCEPT !.drive = f, !.selected = 0] /\ UNCHANGED job /\ Sel \in Present
  BY DEF IdeDiagnose, Writable
<1>2. ide \in IdeState /\ \A n \in IdeDrive : ide.drive[n] \in DriveState
  BY DEF IdeInv, IdeState
<1>3. ASSUME NEW n \in IdeDrive
      PROVE  f[n] \in DriveState /\ DriveOk(f[n], job[n]) /\ (f[n].bsy => ide.srst)
  <2>1. CASE n \in Present
    <3>1. e(n) \in DriveState
      BY <1>2, IssuedType
    <3>2. f[n] = edd_setup(e(n))
      BY <2>1
    <3> HIDE DEF f, e
    <3>3. AtRest(f[n])
      BY <3>1, <3>2, ControlRests
    <3> QED
      BY <3>3, RestOk DEF AtRest
  <2>2. CASE n \notin Present
    <3>1. f[n] = ide.drive[n]
      BY <1>1, <2>2
    <3> HIDE DEF f
    <3> QED
      BY <1>2, <3>1 DEF IdeInv
  <2> QED
    BY <2>1, <2>2
<1> HIDE DEF e
<1>4. f \in [IdeDrive -> DriveState]
  BY <1>3
<1> HIDE DEF f
<1>5. ide' \in IdeState /\ ide'.srst = ide.srst /\ ide'.drive = f
  BY <1>1, <1>2, <1>4 DEF IdeState, IdeDrive
<1> QED
  BY <1>1, <1>3, <1>4, <1>5, BothDrives

\* A command for the selected drive that ends at once.
LEMMA ControlOk ==
    ASSUME IdeInv, IdeControl
    PROVE  IdeInv'
<1> DEFINE d == ide.drive[Sel]
           i == Issued(d)
<1>1. ide \in IdeState /\ Sel \in IdeDrive /\ d \in DriveState
  BY DEF IdeInv, IdeState, Sel
<1>2. i \in DriveState
  BY <1>1, IssuedType
<1>3. UNCHANGED job
  BY DEF IdeControl
<1>4. \E x : ide' = [ide EXCEPT !.drive[Sel] = x] /\ AtRest(x)
  <2>1. /\ AtRest(cmd_verifysectors(i, Sel)) /\ AtRest(cmd_recalibrate(i, Sel))
        /\ AtRest(cmd_seek(i, Sel)) /\ AtRest(failing(i))
        /\ \A ok \in BOOLEAN : AtRest(cmd_initparam(i, ok))
        /\ \A f : AtRest(cmd_setfeatures(i, f))
    BY <1>1, <1>2, ControlRests, ReadyRests
  <2> HIDE DEF i
  <2> QED
    BY <2>1 DEF IdeControl, i
<1>5. PICK x : ide' = [ide EXCEPT !.drive[Sel] = x] /\ AtRest(x)
  BY <1>4
<1>6. DriveOk(x, job[Sel]) /\ x.bsy = FALSE
  BY <1>5, RestOk DEF AtRest
<1> QED
  BY <1>3, <1>5, <1>6, OneDriveSame

\* Every register access, and every reset, keeps the controller in order.
LEMMA IdeStep ==
    ASSUME IdeInv, [IdeNext]_ideVars
    PROVE  IdeInv'
<1> DEFINE d == ide.drive[Sel]
           i == Issued(d)
<1>0. /\ ide \in IdeState /\ Sel \in IdeDrive /\ d \in DriveState /\ DriveOk(d, job[Sel])
      /\ d.bsy => ide.srst
      /\ job[Sel] \in Job
  BY DEF IdeInv, IdeState, Sel
<1>1. ASSUME IdeReadData  PROVE IdeInv'
  <2>1. PICK ok \in BOOLEAN : ide' = [ide EXCEPT !.drive[Sel] = ide_data_in(d, ok)]
    BY <1>1 DEF IdeReadData
  <2>2. UNCHANGED job
    BY <1>1 DEF IdeReadData
  <2>3. DriveOk(ide_data_in(d, ok), job[Sel]) /\ (ide_data_in(d, ok).bsy => d.bsy)
    BY <1>0, DataInOk
  <2> QED
    BY <1>0, <2>1, <2>2, <2>3, OneDriveSame
<1>2. ASSUME IdeWriteData  PROVE IdeInv'
  <2>1. PICK ok \in BOOLEAN : ide' = [ide EXCEPT !.drive[Sel] = ide_data_out(d, ok)]
    BY <1>2 DEF IdeWriteData
  <2>2. UNCHANGED job
    BY <1>2 DEF IdeWriteData
  <2>3. DriveOk(ide_data_out(d, ok), job[Sel]) /\ (ide_data_out(d, ok).bsy => d.bsy)
    BY <1>0, DataOutOk
  <2> QED
    BY <1>0, <2>1, <2>2, <2>3, OneDriveSame
<1>3. ASSUME IdeTransfer  PROVE IdeInv'
  <2> DEFINE q == [first |-> xlate_block(d, Sel), total |-> Length(d)]
  <2>1. i \in DriveState /\ xlate_block(i, Sel) = xlate_block(d, Sel) /\ Length(i) = Length(d)
    BY <1>0, IssuedType DEF xlate_block, Length
  <2>2. q \in Job
    BY <1>0, XlateType, LengthType, IdeAssumption DEF Job
  <2>3. q = [first |-> xlate_block(i, Sel), total |-> Length(i)]
    BY <2>1
  <2>4. job' = [job EXCEPT ![Sel] = q]
    BY <1>3 DEF IdeTransfer, SelDrive
  <2>5. \/ ide' = [ide EXCEPT !.drive[Sel] = cmd_readsectors(i, Sel)]
        \/ ide' = [ide EXCEPT !.drive[Sel] = cmd_writesectors(i, Sel)]
    BY <1>3 DEF IdeTransfer
  <2> HIDE DEF q, i
  <2>6. /\ DriveOk(cmd_readsectors(i, Sel), q) /\ ~cmd_readsectors(i, Sel).bsy
        /\ DriveOk(cmd_writesectors(i, Sel), q) /\ ~cmd_writesectors(i, Sel).bsy
    BY <1>0, <2>1, <2>3, TransferOk
  <2> QED
    BY <2>2, <2>4, <2>5, <2>6, OneDrive
<1>4. ASSUME IdeIdentify  PROVE IdeInv'
  <2> DEFINE q == [first |-> NoBlock, total |-> 1]
  <2>1. i \in DriveState /\ q \in Job
    BY <1>0, IssuedType DEF Job
  <2>2. job' = [job EXCEPT ![Sel] = q] /\ ide' = [ide EXCEPT !.drive[Sel] = cmd_identify(i)]
    BY <1>4 DEF IdeIdentify
  <2>3. DriveOk(cmd_identify(i), q) /\ ~cmd_identify(i).bsy
    BY <2>1, IdentifyOk
  <2> HIDE DEF q, i
  <2> QED
    BY <2>1, <2>2, <2>3, OneDrive
<1>5. ASSUME UNCHANGED ideVars  PROVE IdeInv'
  BY <1>5 DEF IdeInv, ideVars, DriveOk, Progress, DriveState, IdeState, Job
<1> QED
  BY <1>1, <1>2, <1>3, <1>4, <1>5, SelectOk, WriteTaskOk, ControlOk, DiagnoseOk, DevctrlOk,
     HardResetOk DEF IdeNext

LEMMA IdeInvImplies == IdeInv => IdeTypeOK /\ IdeStaysInBuffer /\ IdeInStep
<1> SUFFICES ASSUME IdeInv  PROVE IdeTypeOK /\ IdeStaysInBuffer /\ IdeInStep
  OBVIOUS
<1>1. IdeTypeOK /\ \A n \in IdeDrive : /\ ide.drive[n] \in DriveState
                                       /\ DriveOk(ide.drive[n], job[n])
                                       /\ ide.drive[n].bsy => ide.srst
  BY DEF IdeInv, IdeTypeOK, IdeState
<1>2. IdeStaysInBuffer
  BY <1>1 DEF IdeStaysInBuffer, DriveOk
<1>3. IdeStatusTruth
  BY <1>1 DEF IdeStatusTruth, DriveOk, DriveState
<1>4. IdeTransferInStep
  BY <1>1 DEF IdeTransferInStep, DriveOk, Progress
<1> QED
  BY <1>1, <1>2, <1>3, <1>4 DEF IdeInStep

\* Of every drive, whatever the host writes to the registers and in which
\* order, with every error of the image and every reset of either kind: the
\* request bit is up exactly while sectors are left, busy only shows during a
\* reset, and the image stands at the sector that is due.
THEOREM IdeCorrect == IdeSpec => []IdeInStep
<1>1. IdeInv /\ [IdeNext]_ideVars => IdeInv'
  BY IdeStep
<1>2. IdeInv => IdeInStep
  BY IdeInvImplies
<1> QED
  BY <1>1, <1>2, IdeCreatedOk, PTL DEF IdeSpec

-----------------------------------------------------------------------------
(* The SASI bus *)

Order == [cmd : Opcode, lba : Nat, len : 0 .. MaxBlocks, moved : Nat]

\* The numbers the constants stand for.
LEMMA SasiBounds ==
    /\ DptrValues \in Nat /\ DataBytes \in Nat /\ 1 < DataBytes /\ DataBytes < DptrValues
    /\ 0 \in 0 .. DptrValues - 1
    /\ SasiSector \in 1 .. DataBytes /\ SenseBytes \in 1 .. DataBytes
    /\ DriveBytes \in 1 .. DataBytes /\ AlternateBytes \in 1 .. DataBytes
    /\ SasiSector \in Nat /\ SasiSector > 0
    /\ Blocks \in Nat /\ CommandBytes \in Nat \ {0} /\ MaxBlocks \in Nat \ {0}
  BY SasiAssumption

\* The command is being sent.
CommandPhase(d, cd, io) ==
    cd = TRUE /\ io = FALSE /\ d.cmd_len < CommandBytes /\ d.dptr < DataBytes

\* It is complete, and is the one that was asked for.
Complete(d, o) == d.cmd_len = CommandBytes /\ o.cmd = d.cmd

StatusPhase(d, o, cd, io) ==
    /\ cd = TRUE /\ io = TRUE /\ Complete(d, o) /\ d.dptr < 2
    /\ d.cmd \in Moving => /\ d.lba = o.lba + o.moved /\ d.count = o.len - o.moved
                           /\ d.status = "good" => o.moved = o.len

\* A block that is read has been taken from the image before its bytes go out.
DataInPhase(d, o, cd, io) ==
    /\ cd = FALSE /\ io = TRUE /\ Complete(d, o) /\ d.dptr < d.dlen /\ d.cmd \in DataIn
    /\ d.cmd = "read" => d.lba = o.lba + o.moved + 1 /\ d.count = o.len - o.moved - 1

DataOutPhase(d, o, cd, io) ==
    /\ cd = FALSE /\ io = FALSE /\ Complete(d, o) /\ d.dptr < d.dlen /\ d.cmd \in DataOut
    /\ d.cmd = "write" => /\ d.lba = o.lba + o.moved /\ d.count = o.len - o.moved
                          /\ d.count > 0

InPhase(d, o, cd, io) ==
    \/ CommandPhase(d, cd, io) \/ StatusPhase(d, o, cd, io)
    \/ DataInPhase(d, o, cd, io) \/ DataOutPhase(d, o, cd, io)

\* No disk, and no line up.
Free(b) == b.bsy = FALSE /\ b.cd = FALSE /\ b.io = FALSE /\ b.selected = NoDisk

\* A line that is up belongs to a disk, in the state in which it does not go by
\* the command as well.
SasiInv ==
    /\ bus \in BusState /\ order \in Order
    /\ bus.state \in {"transfer", "endsel"} => bus.selected \in SasiDisk /\ bus.bsy = TRUE
    /\ bus.io = TRUE => bus.selected \in SasiDisk
    /\ bus.state = "idle" => Free(bus)
    /\ bus.state = "transfer" => InPhase(Chosen(bus), order, bus.cd, bus.io)

LEMMA SasiCreatedOk == SasiInit => SasiInv
<1> SUFFICES ASSUME SasiInit  PROVE SasiInv
  OBVIOUS
<1>1. DiskCreated \in SasiDiskState
  BY SasiAssumption DEF DiskCreated, SasiDiskState, Opcode
<1>2. bus \in BusState /\ bus.state = "idle" /\ Free(bus)
  BY <1>1 DEF SasiInit, BusCreated, BusState, Free
<1>3. order \in Order
  BY SasiAssumption DEF SasiInit, NoOrder, Order, Opcode
<1> QED
  BY <1>2, <1>3 DEF SasiInv, Free

\* The bus after a step of the selected disk in another phase: d is the disk.
Turned(b, r, d, cd, io) ==
    /\ r \in BusState /\ r.state = b.state /\ r.bsy = b.bsy /\ r.selected = b.selected
    /\ r.cd = cd /\ r.io = io /\ Chosen(r) = d

LEMMA WithTurns ==
    ASSUME NEW b \in BusState, b.selected \in SasiDisk, NEW d \in SasiDiskState
    PROVE  Turned(b, With(b, d), d, b.cd, b.io)
  BY DEF Turned, With, Chosen, BusState

LEMMA LinesTurn ==
    ASSUME NEW b \in BusState, b.selected \in SasiDisk, NEW d \in SasiDiskState,
           NEW c \in BOOLEAN, NEW i \in BOOLEAN, NEW r,
           r = [With(b, d) EXCEPT !.cd = c, !.io = i]
    PROVE  Turned(b, r, d, c, i)
<1> DEFINE w == With(b, d)
<1>1. w \in BusState /\ w.state = b.state /\ w.bsy = b.bsy /\ w.selected = b.selected /\ Chosen(w) = d
  BY WithTurns DEF Turned
<1> HIDE DEF w
<1>2. r = [w EXCEPT !.cd = c, !.io = i]
  BY DEF w
<1> QED
  BY <1>1, <1>2 DEF Turned, Chosen, BusState

LEMMA GoodTurns ==
    ASSUME NEW b \in BusState, b.selected \in SasiDisk, NEW d \in SasiDiskState
    PROVE  \E e \in SasiDiskState :
               /\ Turned(b, sasi_status_in(b, d, "good"), e, TRUE, TRUE)
               /\ e.status = "good" /\ e.dptr = 0 /\ e.lba = d.lba /\ e.count = d.count
               /\ e.cmd = d.cmd /\ e.cmd_len = d.cmd_len
<1> DEFINE e == [d EXCEPT !.status = "good", !.dptr = 0]
<1>1. /\ e \in SasiDiskState /\ e.status = "good" /\ e.dptr = 0 /\ e.lba = d.lba
      /\ e.count = d.count /\ e.cmd = d.cmd /\ e.cmd_len = d.cmd_len
  BY SasiBounds DEF SasiDiskState
<1>2. sasi_status_in(b, d, "good") = [With(b, e) EXCEPT !.cd = TRUE, !.io = TRUE]
  BY DEF sasi_status_in
<1> HIDE DEF e
<1>3. Turned(b, sasi_status_in(b, d, "good"), e, TRUE, TRUE)
  BY <1>1, <1>2, LinesTurn
<1> QED
  BY <1>1, <1>3

LEMMA CheckTurns ==
    ASSUME NEW b \in BusState, b.selected \in SasiDisk, NEW d \in SasiDiskState
    PROVE  \E e \in SasiDiskState :
               /\ Turned(b, sasi_status_in(b, d, "check"), e, TRUE, TRUE)
               /\ e.status = "check" /\ e.dptr = 0 /\ e.lba = d.lba /\ e.count = d.count
               /\ e.cmd = d.cmd /\ e.cmd_len = d.cmd_len
<1> DEFINE e == [d EXCEPT !.status = "check", !.dptr = 0]
<1>1. /\ e \in SasiDiskState /\ e.status = "check" /\ e.dptr = 0 /\ e.lba = d.lba
      /\ e.count = d.count /\ e.cmd = d.cmd /\ e.cmd_len = d.cmd_len
  BY SasiBounds DEF SasiDiskState
<1>2. sasi_status_in(b, d, "check") = [With(b, e) EXCEPT !.cd = TRUE, !.io = TRUE]
  BY DEF sasi_status_in
<1> HIDE DEF e
<1>3. Turned(b, sasi_status_in(b, d, "check"), e, TRUE, TRUE)
  BY <1>1, <1>2, LinesTurn
<1> QED
  BY <1>1, <1>3

LEMMA FailsTurns ==
    ASSUME NEW b \in BusState, b.selected \in SasiDisk, NEW d \in SasiDiskState
    PROVE  \E e \in SasiDiskState :
               /\ Turned(b, Fails(b, d), e, TRUE, TRUE)
               /\ e.status = "check" /\ e.dptr = 0 /\ e.lba = d.lba /\ e.count = d.count
               /\ e.cmd = d.cmd /\ e.cmd_len = d.cmd_len
  BY CheckTurns DEF Fails

LEMMA DataTurns ==
    ASSUME NEW b \in BusState, b.selected \in SasiDisk, NEW d \in SasiDiskState, NEW n \in 1 .. DataBytes
    PROVE  \E e \in SasiDiskState :
               /\ Turned(b, sasi_data_in(b, d, n), e, FALSE, TRUE)
               /\ Turned(b, sasi_data_out(b, d, n), e, FALSE, FALSE)
               /\ e.dptr = 0 /\ e.dlen = n /\ e.lba = d.lba /\ e.count = d.count
               /\ e.cmd = d.cmd /\ e.cmd_len = d.cmd_len
<1> DEFINE e == [d EXCEPT !.dptr = 0, !.dlen = n]
<1>0. n \in 0 .. DataBytes /\ 0 \in 0 .. DptrValues - 1
  BY SasiBounds
<1>1. /\ e \in SasiDiskState /\ e.dptr = 0 /\ e.dlen = n /\ e.lba = d.lba /\ e.count = d.count
      /\ e.cmd = d.cmd /\ e.cmd_len = d.cmd_len
  BY <1>0 DEF SasiDiskState
<1>2. /\ sasi_data_in(b, d, n) = [With(b, e) EXCEPT !.cd = FALSE, !.io = TRUE]
      /\ sasi_data_out(b, d, n) = [With(b, e) EXCEPT !.cd = FALSE, !.io = FALSE]
  BY DEF sasi_data_in, sasi_data_out
<1> HIDE DEF e
<1>3. Turned(b, sasi_data_in(b, d, n), e, FALSE, TRUE)
  BY <1>1, <1>2, LinesTurn
<1>4. Turned(b, sasi_data_out(b, d, n), e, FALSE, FALSE)
  BY <1>1, <1>2, LinesTurn
<1> QED
  BY <1>1, <1>3, <1>4

LEMMA AdvancedType ==
    ASSUME NEW d \in SasiDiskState, d.count > 0
    PROVE  /\ Advanced(d) \in SasiDiskState
           /\ Advanced(d).lba = d.lba + 1 /\ Advanced(d).count = d.count - 1
           /\ Advanced(d).cmd = d.cmd /\ Advanced(d).cmd_len = d.cmd_len
<1> DEFINE l == d.lba + 1
           c == d.count - 1
<1>1. l \in Nat /\ c \in 0 .. MaxBlocks
  BY SasiBounds DEF SasiDiskState
<1>2. Advanced(d) = [d EXCEPT !.lba = l, !.count = c]
  BY DEF Advanced
<1> HIDE DEF l, c
<1>3. /\ Advanced(d) \in SasiDiskState /\ Advanced(d).lba = l /\ Advanced(d).count = c
      /\ Advanced(d).cmd = d.cmd /\ Advanced(d).cmd_len = d.cmd_len
  BY <1>1, <1>2 DEF SasiDiskState
<1> QED
  BY <1>3 DEF l, c

\* The bus is where it was, in some phase of the command o.
Goes(b, r, o) ==
    /\ r \in BusState /\ r.state = b.state /\ r.bsy = b.bsy /\ r.selected = b.selected
    /\ InPhase(Chosen(r), o, r.cd, r.io)

\* Whatever the phase, the pointer is in the buffer.
LEMMA PhaseFits ==
    ASSUME NEW d \in SasiDiskState, NEW o, NEW cd, NEW io, InPhase(d, o, cd, io)
    PROVE  d.dptr < DataBytes
  BY SasiBounds
     DEF InPhase, CommandPhase, StatusPhase, DataInPhase, DataOutPhase, SasiDiskState

\* The next block of a read, when moved blocks have gone all the way.
LEMMA ReadBlockGoes ==
    ASSUME NEW b \in BusState, b.selected \in SasiDisk, NEW d \in SasiDiskState,
           NEW o \in Order, NEW ok \in BOOLEAN, Complete(d, o), d.cmd = "read",
           d.lba = o.lba + o.moved, d.count = o.len - o.moved
    PROVE  Goes(b, sasi_read_block(b, d, ok), o)
<1> DEFINE r == sasi_read_block(b, d, ok)
<1>0. /\ o.len \in Nat /\ o.moved \in Nat /\ d.count \in Nat /\ o.lba \in Nat
      /\ SasiSector \in 1 .. DataBytes /\ SasiSector > 0 /\ DataBytes \in Nat
  BY SasiBounds DEF Order, SasiDiskState
<1>1. CASE d.lba = Blocks \/ (d.count # 0 /\ ~ok)
  <2>1. r = Fails(b, d)
    BY <1>1 DEF sasi_read_block
  <2>2. PICK e \in SasiDiskState :
               /\ Turned(b, Fails(b, d), e, TRUE, TRUE)
               /\ e.status = "check" /\ e.dptr = 0 /\ e.lba = d.lba /\ e.count = d.count
               /\ e.cmd = d.cmd /\ e.cmd_len = d.cmd_len
    BY FailsTurns
  <2>3. StatusPhase(e, o, TRUE, TRUE)
    BY <2>2 DEF StatusPhase, Complete
  <2> QED
    BY <2>1, <2>2, <2>3 DEF Goes, Turned, InPhase
<1>2. CASE d.lba # Blocks /\ d.count = 0
  <2>1. r = sasi_status_in(b, d, "good")
    BY <1>2 DEF sasi_read_block
  <2>2. PICK e \in SasiDiskState :
               /\ Turned(b, sasi_status_in(b, d, "good"), e, TRUE, TRUE)
               /\ e.dptr = 0 /\ e.lba = d.lba /\ e.count = d.count
               /\ e.cmd = d.cmd /\ e.cmd_len = d.cmd_len
    BY GoodTurns
  <2>3. StatusPhase(e, o, TRUE, TRUE)
    BY <1>0, <1>2, <2>2 DEF StatusPhase, Complete
  <2> QED
    BY <2>1, <2>2, <2>3 DEF Goes, Turned, InPhase
<1>3. CASE d.lba # Blocks /\ d.count # 0 /\ ok
  <2>1. r = sasi_data_in(b, Advanced(d), SasiSector)
    BY <1>3 DEF sasi_read_block
  <2>2. /\ Advanced(d) \in SasiDiskState
        /\ Advanced(d).lba = d.lba + 1 /\ Advanced(d).count = d.count - 1
        /\ Advanced(d).cmd = d.cmd /\ Advanced(d).cmd_len = d.cmd_len
    BY <1>0, <1>3, AdvancedType
  <2>3. PICK e \in SasiDiskState :
               /\ Turned(b, sasi_data_in(b, Advanced(d), SasiSector), e, FALSE, TRUE)
               /\ e.dptr = 0 /\ e.dlen = SasiSector
               /\ e.lba = Advanced(d).lba /\ e.count = Advanced(d).count
               /\ e.cmd = Advanced(d).cmd /\ e.cmd_len = Advanced(d).cmd_len
    BY ZenonT(60), <1>0, <2>2, DataTurns
  <2>4. DataInPhase(e, o, FALSE, TRUE)
    BY <1>0, <2>2, <2>3 DEF DataInPhase, Complete, DataIn
  <2> QED
    BY <2>1, <2>3, <2>4 DEF Goes, Turned, InPhase
<1> QED
  BY <1>1, <1>2, <1>3

\* The end of a block that is written: it counts when the image took it.
LEMMA WriteBlockGoes ==
    ASSUME NEW b \in BusState, b.selected \in SasiDisk, NEW d \in SasiDiskState,
           NEW o \in Order, NEW ok \in BOOLEAN, Complete(d, o), d.cmd = "write",
           d.lba = o.lba + o.moved, d.count = o.len - o.moved, d.count > 0,
           NEW r, r = sasi_write_block(b, d, ok), NEW p \in Order,
           p = [o EXCEPT !.moved = IF r.disk[b.selected].lba # d.lba THEN @ + 1 ELSE @]
    PROVE  Goes(b, r, p)
<1>0. /\ o.len \in Nat /\ o.moved \in Nat /\ d.count \in Nat /\ o.lba \in Nat
      /\ SasiSector \in 1 .. DataBytes /\ SasiSector > 0 /\ "write" \in DataOut
  BY SasiBounds DEF Order, SasiDiskState, DataOut
<1>p. /\ p.cmd = o.cmd /\ p.lba = o.lba /\ p.len = o.len
      /\ r.disk[b.selected].lba # d.lba => p.moved = o.moved + 1
      /\ r.disk[b.selected].lba = d.lba => p.moved = o.moved
  BY DEF Order
<1>a. /\ Advanced(d) \in SasiDiskState
      /\ Advanced(d).lba = d.lba + 1 /\ Advanced(d).count = d.count - 1
      /\ Advanced(d).cmd = d.cmd /\ Advanced(d).cmd_len = d.cmd_len
  BY AdvancedType
<1>1. CASE d.lba = Blocks \/ ~ok
  <2>1. r = Fails(b, d)
    BY <1>1 DEF sasi_write_block
  <2>2. PICK e \in SasiDiskState :
               /\ Turned(b, Fails(b, d), e, TRUE, TRUE)
               /\ e.status = "check" /\ e.dptr = 0 /\ e.lba = d.lba /\ e.count = d.count
               /\ e.cmd = d.cmd /\ e.cmd_len = d.cmd_len
    BY FailsTurns
  <2>3. r.disk[b.selected] = e /\ p.moved = o.moved
    BY <1>p, <2>1, <2>2 DEF Turned, Chosen
  <2>4. StatusPhase(e, p, TRUE, TRUE)
    BY <1>p, <2>2, <2>3 DEF StatusPhase, Complete
  <2> QED
    BY <2>1, <2>2, <2>4 DEF Goes, Turned, InPhase
<1>2. CASE d.lba # Blocks /\ ok /\ d.count = 1
  <2> DEFINE c == Advanced(d)
  <2>1. r = sasi_status_in(b, c, "good")
    BY <1>2 DEF sasi_write_block
  <2>2. /\ c \in SasiDiskState /\ c.lba = d.lba + 1 /\ c.count = d.count - 1
        /\ c.cmd = d.cmd /\ c.cmd_len = d.cmd_len
    BY <1>a
  <2> HIDE DEF c
  <2>3. PICK e \in SasiDiskState :
               /\ Turned(b, sasi_status_in(b, c, "good"), e, TRUE, TRUE)
               /\ e.dptr = 0 /\ e.lba = c.lba /\ e.count = c.count
               /\ e.cmd = c.cmd /\ e.cmd_len = c.cmd_len
    BY <2>2, GoodTurns
  <2>4. r.disk[b.selected] = e /\ p.moved = o.moved + 1
    BY <1>0, <1>p, <2>1, <2>2, <2>3 DEF Turned, Chosen
  <2>5. StatusPhase(e, p, TRUE, TRUE)
    <3>1. d.count = 1
      BY <1>2
    <3> QED
      BY <1>0, <1>p, <2>2, <2>3, <2>4, <3>1 DEF StatusPhase, Complete
  <2> QED
    BY <2>1, <2>3, <2>5 DEF Goes, Turned, InPhase
<1>3. CASE d.lba # Blocks /\ ok /\ d.count # 1
  <2>1. r = sasi_data_out(b, Advanced(d), SasiSector)
    BY <1>3 DEF sasi_write_block
  <2>2. PICK e \in SasiDiskState :
               /\ Turned(b, sasi_data_out(b, Advanced(d), SasiSector), e, FALSE, FALSE)
               /\ e.dptr = 0 /\ e.dlen = SasiSector
               /\ e.lba = Advanced(d).lba /\ e.count = Advanced(d).count
               /\ e.cmd = Advanced(d).cmd /\ e.cmd_len = Advanced(d).cmd_len
    BY ZenonT(60), <1>0, <1>a, DataTurns
  <2>3. r.disk[b.selected] = e /\ p.moved = o.moved + 1
    BY <1>0, <1>p, <1>a, <2>1, <2>2 DEF Turned, Chosen
  <2>4. DataOutPhase(e, p, FALSE, FALSE)
    <3>1. d.count # 1
      BY <1>3
    <3> QED
      BY <1>0, <1>p, <1>a, <2>2, <2>3, <3>1 DEF DataOutPhase, Complete
  <2> QED
    BY <2>1, <2>2, <2>4 DEF Goes, Turned, InPhase
<1> QED
  BY <1>1, <1>2, <1>3

\* The commands that do not move blocks.
LEMMA PlainGoes ==
    ASSUME NEW b \in BusState, b.selected \in SasiDisk, NEW d \in SasiDiskState,
           NEW o \in Order, Complete(d, o), d.cmd \notin Moving
    PROVE  /\ Goes(b, sasi_status_in(b, d, "good"), o) /\ Goes(b, sasi_status_in(b, d, "check"), o)
           /\ Goes(b, Fails(b, d), o)
           /\ \A n \in 1 .. DataBytes :
                 /\ d.cmd \in DataIn => Goes(b, sasi_data_in(b, d, n), o)
                 /\ d.cmd \in DataOut => Goes(b, sasi_data_out(b, d, n), o)
<1>1. ASSUME NEW e \in SasiDiskState, e.dptr = 0, e.cmd = d.cmd, e.cmd_len = d.cmd_len
      PROVE  StatusPhase(e, o, TRUE, TRUE)
  BY <1>1 DEF StatusPhase, Complete
<1>2. Goes(b, sasi_status_in(b, d, "good"), o)
  <2>1. PICK e \in SasiDiskState :
               /\ Turned(b, sasi_status_in(b, d, "good"), e, TRUE, TRUE)
               /\ e.dptr = 0 /\ e.cmd = d.cmd /\ e.cmd_len = d.cmd_len
    BY GoodTurns
  <2> QED
    BY <1>1, <2>1 DEF Goes, Turned, InPhase
<1>3. Goes(b, sasi_status_in(b, d, "check"), o)
  <2>1. PICK e \in SasiDiskState :
               /\ Turned(b, sasi_status_in(b, d, "check"), e, TRUE, TRUE)
               /\ e.dptr = 0 /\ e.cmd = d.cmd /\ e.cmd_len = d.cmd_len
    BY CheckTurns
  <2> QED
    BY <1>1, <2>1 DEF Goes, Turned, InPhase
<1>4. Goes(b, Fails(b, d), o)
  <2>1. PICK e \in SasiDiskState :
               /\ Turned(b, Fails(b, d), e, TRUE, TRUE)
               /\ e.dptr = 0 /\ e.cmd = d.cmd /\ e.cmd_len = d.cmd_len
    BY FailsTurns
  <2> QED
    BY <1>1, <2>1 DEF Goes, Turned, InPhase
<1>5. ASSUME NEW n \in 1 .. DataBytes
      PROVE  /\ d.cmd \in DataIn => Goes(b, sasi_data_in(b, d, n), o)
             /\ d.cmd \in DataOut => Goes(b, sasi_data_out(b, d, n), o)
  <2>1. PICK e \in SasiDiskState :
               /\ Turned(b, sasi_data_in(b, d, n), e, FALSE, TRUE)
               /\ Turned(b, sasi_data_out(b, d, n), e, FALSE, FALSE)
               /\ e.dptr = 0 /\ e.dlen = n /\ e.cmd = d.cmd /\ e.cmd_len = d.cmd_len
    BY ZenonT(60), DataTurns
  <2>2. d.cmd \in DataIn => DataInPhase(e, o, FALSE, TRUE)
    BY <2>1 DEF DataInPhase, Complete, Moving
  <2>3. d.cmd \in DataOut => DataOutPhase(e, o, FALSE, FALSE)
    BY <2>1 DEF DataOutPhase, Complete, Moving
  <2> QED
    BY <2>1, <2>2, <2>3 DEF Goes, Turned, InPhase
<1> QED
  BY <1>2, <1>3, <1>4, <1>5

\* The last byte of a command runs it.
LEMMA ProcessGoes ==
    ASSUME NEW b \in BusState, b.selected \in SasiDisk, NEW d \in SasiDiskState,
           d.cmd_len = CommandBytes, NEW lba \in Nat, NEW len \in 1 .. MaxBlocks,
           NEW ok \in BOOLEAN, NEW o \in Order,
           o = [cmd |-> d.cmd, lba |-> lba, len |-> len, moved |-> 0]
    PROVE  Goes(b, sasi_command_process(b, d, lba, len, ok), o)
<1> DEFINE m == [d EXCEPT !.lba = lba, !.count = len]
           r == sasi_command_process(b, d, lba, len, ok)
<1>0. /\ SasiSector \in 1 .. DataBytes /\ SenseBytes \in 1 .. DataBytes
      /\ DriveBytes \in 1 .. DataBytes /\ AlternateBytes \in 1 .. DataBytes
      /\ SasiSector > 0 /\ DataBytes \in Nat
      /\ Complete(d, o) /\ o.cmd = d.cmd /\ o.lba = lba /\ o.len = len /\ o.moved = 0
      /\ len \in 0 .. MaxBlocks /\ Blocks \in Nat
  BY SasiBounds DEF Complete
<1>m. /\ m \in SasiDiskState /\ m.lba = lba /\ m.count = len /\ m.cmd = d.cmd
      /\ m.cmd_len = d.cmd_len
  BY <1>0 DEF SasiDiskState
<1>1. CASE d.cmd = "ready"
  <2>1. r = sasi_status_in(b, d, "good") /\ d.cmd \notin Moving
    BY <1>1 DEF sasi_command_process, Moving
  <2> QED
    BY <1>0, <2>1, PlainGoes
<1>2. CASE d.cmd = "sense"
  <2>1. r = sasi_data_in(b, d, SenseBytes) /\ d.cmd \notin Moving /\ d.cmd \in DataIn
    BY <1>2 DEF sasi_command_process, Moving, DataIn
  <2> QED
    BY <1>0, <2>1, PlainGoes
<1>3. CASE d.cmd = "format"
  <2> DEFINE f == [d EXCEPT !.lba = lba]
             g == [f EXCEPT !.lba = Blocks]
  <2>1. r = sasi_format_disk(b, f)
    BY <1>3 DEF sasi_command_process
  <2>2. /\ f \in SasiDiskState /\ f.cmd = d.cmd /\ f.cmd_len = d.cmd_len
        /\ f.cmd \notin Moving
    BY <1>3 DEF SasiDiskState, Moving
  <2>3. r = IF f.lba >= Blocks THEN sasi_status_in(b, f, "check") ELSE sasi_status_in(b, g, "good")
    BY <2>1 DEF sasi_format_disk
  <2> HIDE DEF f
  <2>5. g \in SasiDiskState /\ g.cmd = d.cmd /\ g.cmd_len = d.cmd_len /\ g.cmd \notin Moving
    BY <1>0, <2>2 DEF SasiDiskState
  <2> HIDE DEF g
  <2>6. Complete(f, o) /\ Complete(g, o)
    BY <1>0, <2>2, <2>5 DEF Complete
  <2>7. Goes(b, sasi_status_in(b, f, "check"), o)
    BY <2>2, <2>6, PlainGoes
  <2>8. Goes(b, sasi_status_in(b, g, "good"), o)
    BY <2>5, <2>6, PlainGoes
  <2> QED
    BY <2>3, <2>7, <2>8
<1>4. CASE d.cmd = "verify"
  <2>1. r = sasi_check_lba(b, d, lba, len) /\ d.cmd \notin Moving
    BY <1>4 DEF sasi_command_process, Moving
  <2>2. Goes(b, Fails(b, d), o) /\ Goes(b, sasi_status_in(b, d, "good"), o)
    BY <1>0, <2>1, PlainGoes
  <2> QED
    BY <2>1, <2>2 DEF sasi_check_lba
<1>5. CASE d.cmd = "read"
  <2>1. r = sasi_read_block(b, m, ok)
    BY <1>5 DEF sasi_command_process
  <2> HIDE DEF m
  <2>2. Complete(m, o) /\ m.cmd = "read" /\ m.lba = o.lba + o.moved /\ m.count = o.len - o.moved
    BY <1>0, <1>m, <1>5 DEF Complete
  <2> QED
    BY <1>m, <2>1, <2>2, ReadBlockGoes
<1>6. CASE d.cmd = "write"
  <2>1. r = sasi_data_out(b, m, SasiSector)
    BY <1>6 DEF sasi_command_process
  <2> HIDE DEF m
  <2>2. PICK e \in SasiDiskState :
               /\ Turned(b, sasi_data_out(b, m, SasiSector), e, FALSE, FALSE)
               /\ e.dptr = 0 /\ e.dlen = SasiSector /\ e.lba = m.lba /\ e.count = m.count
               /\ e.cmd = m.cmd /\ e.cmd_len = m.cmd_len
    <3>1. m \in SasiDiskState /\ SasiSector \in 1 .. DataBytes
      BY <1>0, <1>m
    <3> QED
      BY <3>1, DataTurns
  <2>3. "write" \in DataOut
    BY DEF DataOut
  <2>4. DataOutPhase(e, o, FALSE, FALSE)
    BY <1>0, <1>m, <1>6, <2>2, <2>3 DEF DataOutPhase, Complete
  <2> QED
    BY <2>1, <2>2, <2>4 DEF Goes, Turned, InPhase
<1>7. CASE d.cmd = "initdev"
  <2>1. r = sasi_data_out(b, d, DriveBytes) /\ d.cmd \notin Moving /\ d.cmd \in DataOut
    BY <1>7 DEF sasi_command_process, Moving, DataOut
  <2> QED
    BY <1>0, <2>1, PlainGoes
<1>8. CASE d.cmd = "alternate"
  <2>1. r = sasi_data_out(b, d, AlternateBytes) /\ d.cmd \notin Moving /\ d.cmd \in DataOut
    BY <1>8 DEF sasi_command_process, Moving, DataOut
  <2> QED
    BY <1>0, <2>1, PlainGoes
<1>9. CASE d.cmd = "writebuffer"
  <2>1. r = sasi_data_out(b, d, SasiSector) /\ d.cmd \notin Moving /\ d.cmd \in DataOut
    BY <1>9 DEF sasi_command_process, Moving, DataOut
  <2> QED
    BY <1>0, <2>1, PlainGoes
<1>10. CASE d.cmd = "readbuffer"
  <2>1. r = sasi_data_in(b, d, SasiSector) /\ d.cmd \notin Moving /\ d.cmd \in DataIn
    BY <1>10 DEF sasi_command_process, Moving, DataIn
  <2> QED
    BY <1>0, <2>1, PlainGoes
<1>11. CASE d.cmd \in {"badlun", "unknown"}
  <2>1. r = Fails(b, d) /\ d.cmd \notin Moving
    BY <1>11 DEF sasi_command_process, Moving
  <2> QED
    BY <1>0, <2>1, PlainGoes
<1>12. d.cmd \in Opcode
  BY DEF SasiDiskState
<1> QED
  BY <1>1, <1>2, <1>3, <1>4, <1>5, <1>6, <1>7, <1>8, <1>9, <1>10, <1>11, <1>12
     DEF Opcode, DataIn, DataOut

\* One byte further, and a byte that is not the last one of the buffer.
LEMMA FurtherType ==
    ASSUME NEW d \in SasiDiskState
    PROVE  /\ Further(d) \in SasiDiskState /\ Further(d).dlen = d.dlen
           /\ Further(d).lba = d.lba /\ Further(d).count = d.count /\ Further(d).cmd = d.cmd
           /\ Further(d).cmd_len = d.cmd_len /\ Further(d).status = d.status
           /\ d.dptr < DataBytes => Further(d).dptr = d.dptr + 1
<1> DEFINE n == (d.dptr + 1) % DptrValues
<1>1. /\ n \in 0 .. DptrValues - 1
      /\ d.dptr < DataBytes => n = d.dptr + 1
  BY SasiBounds DEF SasiDiskState
<1>2. Further(d) = [d EXCEPT !.dptr = n]
  BY DEF Further
<1> HIDE DEF n
<1> QED
  BY <1>1, <1>2 DEF SasiDiskState

\* A byte to the host; its last one asks for the next block.
LEMMA AckReadGoes ==
    ASSUME NEW b \in BusState, b.selected \in SasiDisk, NEW o \in Order, NEW ok \in BOOLEAN,
           NEW d, d = Chosen(b), DataInPhase(d, o, b.cd, b.io), NEW p \in Order,
           p = [o EXCEPT !.moved = IF d.dptr + 1 = d.dlen /\ d.cmd = "read" THEN @ + 1 ELSE @]
    PROVE  Goes(b, sasi_disk_ack_read(b, ok), p)
<1> DEFINE n == d.dptr + 1
           e == Further(d)
           r == IF e.dptr = e.dlen THEN sasi_command_execute_in(b, e, ok) ELSE With(b, e)
<1>0. /\ d \in SasiDiskState /\ d.dptr \in Nat /\ d.dlen \in Nat /\ d.dptr < d.dlen
      /\ b.cd = FALSE /\ b.io = TRUE /\ d.cmd \in DataIn /\ Complete(d, o)
      /\ o.moved \in Nat /\ o.lba \in Nat /\ o.len \in Nat /\ d.count \in Nat
      /\ d.cmd = "read" => d.lba = o.lba + o.moved + 1 /\ d.count = o.len - o.moved - 1
      /\ d.dptr < DataBytes
  BY SasiBounds DEF BusState, Chosen, SasiDiskState, DataInPhase, Order
<1>1. /\ e \in SasiDiskState /\ e.dptr = n /\ e.dlen = d.dlen /\ e.lba = d.lba
      /\ e.count = d.count /\ e.cmd = d.cmd /\ e.cmd_len = d.cmd_len
  BY <1>0, FurtherType
<1>2. r = IF e.dptr = e.dlen THEN sasi_command_execute_in(b, e, ok) ELSE With(b, e)
  OBVIOUS
<1> HIDE DEF e
<1> SUFFICES Goes(b, r, p)
  <2> SUFFICES ASSUME Goes(b, r, p)  PROVE sasi_disk_ack_read(b, ok) = r
    OBVIOUS
  <2>1. Chosen(r) \in SasiDiskState
    BY DEF Goes, BusState, Chosen
  <2>2. Chosen(r).dptr \in Nat /\ Chosen(r).dptr < DataBytes /\ DataBytes \in Nat
    BY <2>1, PhaseFits, SasiBounds DEF Goes, SasiDiskState
  <2>3. ~(Chosen(r).dptr >= DataBytes)
    BY <2>2
  <2> QED
    BY <2>3 DEF sasi_disk_ack_read, e
<1>3. CASE n # d.dlen
  <2>1. p = o
    BY <1>3 DEF Order
  <2>2. r = With(b, e)
    BY <1>1, <1>2, <1>3
  <2>3. DataInPhase(e, o, FALSE, TRUE)
    BY <1>0, <1>1, <1>3 DEF DataInPhase, Complete
  <2>4. Turned(b, r, e, FALSE, TRUE)
    BY <1>0, <1>1, <2>2, WithTurns
  <2> QED
    BY <2>1, <2>3, <2>4 DEF Turned, Goes, InPhase
<1>4. CASE n = d.dlen /\ d.cmd = "read"
  <2>1. r = sasi_read_block(b, e, ok)
    BY <1>1, <1>2, <1>4 DEF sasi_command_execute_in
  <2>2. p.moved = o.moved + 1 /\ p.lba = o.lba /\ p.len = o.len /\ p.cmd = o.cmd
    BY <1>4 DEF Order
  <2>3. Complete(e, p) /\ e.cmd = "read" /\ e.lba = p.lba + p.moved /\ e.count = p.len - p.moved
    BY <1>0, <1>1, <1>4, <2>2 DEF Complete
  <2> QED
    BY <1>1, <2>1, <2>3, ReadBlockGoes
<1>5. CASE n = d.dlen /\ d.cmd # "read"
  <2>1. r = sasi_status_in(b, e, "good")
    BY <1>0, <1>1, <1>2, <1>5 DEF sasi_command_execute_in
  <2>2. p = o
    BY <1>5 DEF Order
  <2>3. Complete(e, o) /\ e.cmd \notin Moving
    BY <1>0, <1>1, <1>5 DEF Complete, DataIn, Moving
  <2> QED
    BY <1>1, <2>1, <2>2, <2>3, PlainGoes
<1> QED
  BY <1>3, <1>4, <1>5

\* A byte from the host; its last one gives the block to the image.
LEMMA WriteByteGoes ==
    ASSUME NEW b \in BusState, b.selected \in SasiDisk, NEW o \in Order, NEW ok \in BOOLEAN,
           NEW d, d = Chosen(b), DataOutPhase(d, o, b.cd, b.io),
           NEW r, r = sasi_disk_write(b, ok), NEW p \in Order,
           p = [o EXCEPT !.moved = IF d.dptr + 1 = d.dlen /\ d.cmd = "write"
                                      /\ r.disk[b.selected].lba # d.lba
                                   THEN @ + 1 ELSE @]
    PROVE  Goes(b, r, p)
<1> DEFINE n == d.dptr + 1
           e == Further(d)
<1>0. /\ d \in SasiDiskState /\ d.dptr \in Nat /\ d.dlen \in Nat /\ d.dptr < d.dlen
      /\ d.dptr < DataBytes
      /\ b.cd = FALSE /\ b.io = FALSE /\ d.cmd \in DataOut /\ Complete(d, o)
      /\ d.cmd = "write" => /\ d.lba = o.lba + o.moved /\ d.count = o.len - o.moved
                            /\ d.count > 0
  BY SasiBounds DEF BusState, Chosen, SasiDiskState, DataOutPhase
<1>1. /\ e \in SasiDiskState /\ e.dptr = n /\ e.dlen = d.dlen /\ e.lba = d.lba
      /\ e.count = d.count /\ e.cmd = d.cmd /\ e.cmd_len = d.cmd_len
  BY <1>0, FurtherType
<1>2. r = IF e.dptr = e.dlen THEN sasi_command_execute_out(b, e, ok) ELSE With(b, e)
  BY DEF sasi_disk_write
<1> HIDE DEF e
<1>3. CASE n # d.dlen
  <2>1. p = o
    BY <1>3 DEF Order
  <2>2. r = With(b, e)
    BY <1>1, <1>2, <1>3
  <2>3. DataOutPhase(e, o, FALSE, FALSE)
    BY <1>0, <1>1, <1>3 DEF DataOutPhase, Complete
  <2>4. Turned(b, r, e, FALSE, FALSE)
    BY <1>0, <1>1, <2>2, WithTurns
  <2> QED
    BY <2>1, <2>3, <2>4 DEF Turned, Goes, InPhase
<1>4. CASE n = d.dlen /\ d.cmd = "write"
  <2>1. r = sasi_write_block(b, e, ok)
    BY <1>1, <1>2, <1>4 DEF sasi_command_execute_out
  <2>2. p = [o EXCEPT !.moved = IF r.disk[b.selected].lba # e.lba THEN @ + 1 ELSE @]
    BY <1>1, <1>4
  <2>3. /\ Complete(e, o) /\ e.cmd = "write" /\ e.lba = o.lba + o.moved
        /\ e.count = o.len - o.moved /\ e.count > 0
    BY <1>0, <1>1, <1>4 DEF Complete
  <2> QED
    BY <1>1, <2>1, <2>2, <2>3, WriteBlockGoes
<1>5. CASE n = d.dlen /\ d.cmd # "write"
  <2>1. r = sasi_status_in(b, e, "good")
    BY <1>0, <1>1, <1>2, <1>5 DEF sasi_command_execute_out
  <2>2. p = o
    BY <1>5 DEF Order
  <2>3. Complete(e, o) /\ e.cmd \notin Moving
    BY <1>0, <1>1, <1>5 DEF Complete, DataOut, Moving
  <2> QED
    BY <1>1, <2>1, <2>2, <2>3, PlainGoes
<1> QED
  BY <1>3, <1>4, <1>5

\* A step that leaves the bus in some phase of the order.
LEMMA GoesKeeps ==
    ASSUME SasiInv, bus.state = "transfer", order' \in Order, Goes(bus, bus', order')
    PROVE  SasiInv'
<1>1. /\ bus' \in BusState /\ bus'.state = "transfer" /\ bus'.selected \in SasiDisk
      /\ bus'.bsy = TRUE /\ InPhase(Chosen(bus'), order', bus'.cd, bus'.io)
  BY DEF Goes, SasiInv
<1>2. InPhase(Chosen(bus), order, bus.cd, bus.io)'
  BY <1>1 DEF InPhase, CommandPhase, StatusPhase, DataInPhase, DataOutPhase, Complete, Chosen
<1> QED
  BY <1>1, <1>2 DEF SasiInv, Order, BusState, SasiDiskState

\* A step that leaves the bus between commands.
LEMMA QuietKeeps ==
    ASSUME bus' \in BusState, order' \in Order, bus'.state # "transfer",
           bus'.state = "endsel" => bus'.selected \in SasiDisk /\ bus'.bsy = TRUE,
           bus'.io = TRUE => bus'.selected \in SasiDisk,
           bus'.state = "idle" => Free(bus')
    PROVE  SasiInv'
  BY DEF SasiInv, Free, Order, BusState, SasiDiskState

LEMMA SasiCommandOk ==
    ASSUME SasiInv, SasiCommand
    PROVE  SasiInv'
<1> DEFINE d == Chosen(bus)
<1>1. /\ bus \in BusState /\ order \in Order /\ bus.state = "transfer" /\ bus.cd = TRUE
      /\ bus.io = FALSE /\ bus.selected \in SasiDisk /\ InPhase(d, order, bus.cd, bus.io)
  BY DEF SasiInv, SasiCommand, BusState
<1>2. d \in SasiDiskState /\ d.cmd_len < CommandBytes /\ d.cmd_len \in Nat /\ d.dptr < DataBytes
  <2>1. d \in SasiDiskState
    BY <1>1 DEF Chosen, BusState
  <2>2. CommandPhase(d, bus.cd, bus.io)
    BY <1>1 DEF InPhase, StatusPhase, DataInPhase, DataOutPhase
  <2> QED
    BY <2>1, <2>2, SasiBounds DEF CommandPhase, SasiDiskState
<1>3. PICK op \in SasiOp[bus.selected], lba \in SasiLba, c \in SasiCount, ok \in BOOLEAN :
         LET e   == [d EXCEPT !.cmd = IF d.cmd_len = 0 THEN op ELSE @, !.cmd_len = @ + 1]
             len == IF c = 0 THEN MaxBlocks ELSE c
         IN  IF e.cmd_len < CommandBytes
             THEN bus' = With(bus, e) /\ UNCHANGED order
             ELSE /\ bus' = sasi_command_process(bus, e, lba, len, ok)
                  /\ order' = [cmd |-> e.cmd, lba |-> lba, len |-> len, moved |-> 0]
  BY DEF SasiCommand
<1> DEFINE k   == IF d.cmd_len = 0 THEN op ELSE d.cmd
           l   == d.cmd_len + 1
           e   == [d EXCEPT !.cmd = k, !.cmd_len = l]
           len == IF c = 0 THEN MaxBlocks ELSE c
<1>4. k \in Opcode /\ l \in 0 .. CommandBytes /\ len \in 1 .. MaxBlocks /\ lba \in Nat
  BY <1>1, <1>2, SasiAssumption DEF SasiDiskState
<1>5. IF e.cmd_len < CommandBytes
      THEN bus' = With(bus, e) /\ UNCHANGED order
      ELSE /\ bus' = sasi_command_process(bus, e, lba, len, ok)
           /\ order' = [cmd |-> e.cmd, lba |-> lba, len |-> len, moved |-> 0]
  BY <1>3
<1> HIDE DEF k, l, len
<1>6. e \in SasiDiskState /\ e.cmd_len = l /\ e.dptr = d.dptr
  BY <1>2, <1>4 DEF SasiDiskState
<1> HIDE DEF e, d
<1>7. CASE l < CommandBytes
  <2>1. bus' = With(bus, e) /\ order' = order
    BY <1>5, <1>6, <1>7
  <2>2. Turned(bus, bus', e, TRUE, FALSE)
    BY <1>1, <1>6, <2>1, WithTurns
  <2>3. CommandPhase(e, TRUE, FALSE)
    BY <1>2, <1>6, <1>7 DEF CommandPhase
  <2>4. Goes(bus, bus', order')
    BY <2>2, <2>3 DEF Turned, Goes, InPhase
  <2> QED
    BY <1>1, <2>1, <2>4, GoesKeeps
<1>8. CASE ~(l < CommandBytes)
  <2>1. /\ bus' = sasi_command_process(bus, e, lba, len, ok)
        /\ order' = [cmd |-> e.cmd, lba |-> lba, len |-> len, moved |-> 0]
    BY <1>5, <1>6, <1>8
  <2>2. e.cmd_len = CommandBytes
    BY <1>4, <1>6, <1>8, SasiBounds
  <2>3. order' \in Order
    BY <1>4, <1>6, <2>1 DEF Order, SasiDiskState
  <2>4. Goes(bus, bus', order')
    BY <1>1, <1>4, <1>6, <2>1, <2>2, <2>3, ProcessGoes
  <2> QED
    BY <1>1, <2>3, <2>4, GoesKeeps
<1> QED
  BY <1>7, <1>8

LEMMA MovedOrder ==
    ASSUME order \in Order, NEW c, order' = [order EXCEPT !.moved = IF c THEN @ + 1 ELSE @]
    PROVE  order' \in Order
<1>1. order.moved \in Nat /\ order.moved + 1 \in Nat
  BY DEF Order
<1> QED
  BY <1>1 DEF Order

LEMMA SasiWriteOk ==
    ASSUME SasiInv, SasiWriteByte
    PROVE  SasiInv'
<1> DEFINE d == Chosen(bus)
<1>1. /\ bus \in BusState /\ order \in Order /\ bus.state = "transfer" /\ bus.cd = FALSE
      /\ bus.io = FALSE /\ bus.selected \in SasiDisk /\ InPhase(d, order, bus.cd, bus.io)
  BY DEF SasiInv, SasiWriteByte, BusState
<1>2. DataOutPhase(d, order, bus.cd, bus.io)
  BY <1>1 DEF InPhase, StatusPhase, DataInPhase, CommandPhase
<1>3. PICK ok \in BOOLEAN : bus' = sasi_disk_write(bus, ok)
  BY DEF SasiWriteByte
<1>4. order' = [order EXCEPT !.moved =
                    IF d.dptr + 1 = d.dlen /\ d.cmd \in Moving
                       /\ (d.cmd = "write" => bus'.disk[bus.selected].lba # d.lba)
                    THEN @ + 1 ELSE @]
  BY DEF SasiWriteByte, Counted
<1>5. order' \in Order
  BY <1>1, <1>4, MovedOrder
<1>6. d.cmd \in Moving <=> d.cmd = "write"
  BY <1>2 DEF DataOutPhase, DataOut, Moving
<1>7. order' = [order EXCEPT !.moved =
                    IF d.dptr + 1 = d.dlen /\ d.cmd = "write" /\ bus'.disk[bus.selected].lba # d.lba
                    THEN @ + 1 ELSE @]
  BY <1>4, <1>6
<1>8. Goes(bus, bus', order')
  BY <1>1, <1>2, <1>3, <1>5, <1>7, WriteByteGoes
<1> QED
  BY <1>1, <1>5, <1>8, GoesKeeps

\* A byte that belongs to no command leaves the bus what it was, whatever the
\* disk was doing.
Stays(b, r) ==
    /\ r \in BusState /\ r.state = b.state /\ r.bsy = b.bsy /\ r.selected = b.selected

LEMMA TurnStays ==
    ASSUME NEW b \in BusState, b.selected \in SasiDisk, NEW d \in SasiDiskState, NEW ok \in BOOLEAN
    PROVE  Stays(b, With(b, d)) /\ Stays(b, sasi_command_execute_in(b, d, ok))
<1>1. Stays(b, With(b, d))
  BY WithTurns DEF Turned, Stays
<1>2. Stays(b, sasi_status_in(b, d, "good")) /\ Stays(b, Fails(b, d))
  BY GoodTurns, FailsTurns DEF Turned, Stays
<1>3. ASSUME d.count # 0  PROVE Stays(b, sasi_data_in(b, Advanced(d), SasiSector))
  <2>1. Advanced(d) \in SasiDiskState
    <3>1. d.count > 0
      BY <1>3, SasiBounds DEF SasiDiskState
    <3> QED
      BY <3>1, AdvancedType
  <2>2. PICK e : Turned(b, sasi_data_in(b, Advanced(d), SasiSector), e, FALSE, TRUE)
    BY ZenonT(60), <2>1, SasiBounds, DataTurns
  <2> QED
    BY <2>2 DEF Turned, Stays
<1> QED
  BY <1>1, <1>2, <1>3 DEF sasi_command_execute_in, sasi_read_block

LEMMA AckStays ==
    ASSUME NEW b \in BusState, b.selected \in SasiDisk, NEW ok \in BOOLEAN
    PROVE  Stays(b, sasi_disk_ack_read(b, ok))
<1> DEFINE d == Further(Chosen(b))
           r == IF d.dptr = d.dlen THEN sasi_command_execute_in(b, d, ok) ELSE With(b, d)
           e == [Chosen(r) EXCEPT !.dptr = 0]
<1>1. d \in SasiDiskState
  BY FurtherType DEF BusState, Chosen
<1> HIDE DEF d
<1>2. Stays(b, r)
  BY <1>1, TurnStays
<1>3. sasi_disk_ack_read(b, ok) = IF Chosen(r).dptr >= DataBytes THEN With(r, e) ELSE r
  BY DEF sasi_disk_ack_read, d
<1> HIDE DEF r
<1>4. e \in SasiDiskState
  BY <1>2, SasiBounds DEF Stays, BusState, Chosen, SasiDiskState
<1> HIDE DEF e
<1>5. Stays(r, With(r, e))
  BY <1>2, <1>4, TurnStays DEF Stays
<1> QED
  BY <1>2, <1>3, <1>5 DEF Stays

\* The status and message bytes.
LEMMA SasiStatusOk ==
    ASSUME SasiInv, SasiReadByte, bus.cd = TRUE
    PROVE  SasiInv'
<1> DEFINE d == Chosen(bus)
           e == Further(d)
           w == With(bus, e)
<1>1. /\ bus \in BusState /\ order \in Order /\ bus.io = TRUE /\ bus.cd = TRUE
      /\ bus.selected \in SasiDisk /\ bus.state # "idle" /\ d \in SasiDiskState
      /\ bus' = IF e.dptr = 2 THEN sasi_bus_idle(w) ELSE w
      /\ order' = IF bus'.state = "idle" THEN NoOrder ELSE order
  BY DEF SasiInv, Free, SasiReadByte, sasi_disk_ack_status, BusState, Chosen
<1>2. /\ e \in SasiDiskState /\ e.lba = d.lba /\ e.status = d.status
      /\ e.count = d.count /\ e.cmd = d.cmd /\ e.cmd_len = d.cmd_len
      /\ d.dptr < DataBytes => e.dptr = d.dptr + 1
  BY <1>1, FurtherType
<1> HIDE DEF e
<1>3. Turned(bus, w, e, TRUE, TRUE)
  BY <1>1, <1>2, WithTurns
<1> HIDE DEF w
<1>4. CASE e.dptr = 2
  <2>1. bus' = sasi_bus_idle(w) /\ w \in BusState
    BY <1>1, <1>3, <1>4 DEF Turned
  <2>2. bus' \in BusState /\ bus'.state = "idle" /\ Free(bus')
    BY <2>1 DEF sasi_bus_idle, BusState, Free
  <2>3. order' \in Order
    BY <1>1, <2>2, SasiBounds DEF NoOrder, Order, Opcode
  <2> QED
    BY <2>2, <2>3, QuietKeeps DEF Free
<1>5. CASE e.dptr # 2 /\ bus.state = "transfer"
  <2>1. bus' = w /\ order' = order
    BY <1>1, <1>3, <1>5 DEF Turned
  <2>2. StatusPhase(d, order, bus.cd, bus.io)
    BY <1>1, <1>5 DEF SasiInv, InPhase, DataInPhase, DataOutPhase, CommandPhase
  <2>3. StatusPhase(e, order, TRUE, TRUE)
    <3>1. d.dptr \in Nat /\ d.dptr < 2 /\ d.dptr < DataBytes
      BY <1>1, <2>2, SasiBounds DEF StatusPhase, SasiDiskState
    <3>2. e.dptr < 2
      BY <1>2, <1>5, <3>1
    <3> QED
      BY <1>2, <2>2, <3>2 DEF StatusPhase, Complete
  <2>4. Goes(bus, bus', order')
    BY <1>3, <2>1, <2>3 DEF Turned, Goes, InPhase
  <2> QED
    BY <1>1, <1>5, <2>1, <2>4, GoesKeeps
<1>6. CASE e.dptr # 2 /\ bus.state # "transfer"
  <2>1. bus' = w /\ order' = order
    BY <1>1, <1>3, <1>6 DEF Turned
  <2> QED
    BY <1>1, <1>3, <1>6, <2>1, QuietKeeps DEF Turned, SasiInv
<1> QED
  BY <1>4, <1>5, <1>6

\* The bytes of a data phase.
LEMMA SasiReadOk ==
    ASSUME SasiInv, SasiReadByte
    PROVE  SasiInv'
<1> DEFINE d == Chosen(bus)
<1>1. /\ bus \in BusState /\ order \in Order /\ bus.io = TRUE /\ bus.selected \in SasiDisk
      /\ bus.state # "idle"
  BY DEF SasiInv, Free, SasiReadByte, BusState
<1>2. CASE bus.cd = TRUE
  BY <1>2, SasiStatusOk
<1>3. CASE bus.cd = FALSE
  <2>1. PICK ok \in BOOLEAN : bus' = sasi_disk_ack_read(bus, ok)
    BY <1>3 DEF SasiReadByte
  <2>2. CASE bus.state = "transfer"
    <3>1. DataInPhase(d, order, bus.cd, bus.io)
      BY <1>1, <1>3, <2>2 DEF SasiInv, InPhase, StatusPhase, DataOutPhase, CommandPhase
    <3>2. order' = [order EXCEPT !.moved =
                        IF d.dptr + 1 = d.dlen /\ d.cmd \in Moving
                           /\ (d.cmd = "write" => bus'.disk[bus.selected].lba # d.lba)
                        THEN @ + 1 ELSE @]
      BY <1>3, <2>2 DEF SasiReadByte, Counted
    <3>3. order' \in Order
      BY <1>1, <3>2, MovedOrder
    <3>4. (d.cmd \in Moving <=> d.cmd = "read") /\ d.cmd # "write"
      BY <3>1 DEF DataInPhase, DataIn, Moving
    <3>5. order' = [order EXCEPT !.moved =
                        IF d.dptr + 1 = d.dlen /\ d.cmd = "read" THEN @ + 1 ELSE @]
      BY <3>2, <3>4
    <3>6. Goes(bus, bus', order')
      BY <1>1, <2>1, <3>1, <3>3, <3>5, AckReadGoes
    <3> QED
      BY <1>1, <2>2, <3>3, <3>6, GoesKeeps
  <2>3. CASE bus.state # "transfer"
    <3>1. order' = order
      BY <1>3, <2>3 DEF SasiReadByte
    <3>2. Stays(bus, bus')
      BY <1>1, <2>1, AckStays
    <3> QED
      BY <1>1, <2>3, <3>1, <3>2, QuietKeeps DEF Stays, SasiInv
  <2> QED
    BY <2>2, <2>3
<1> QED
  BY <1>1, <1>2, <1>3 DEF BusState

\* Every selection, every byte and every reset keeps the bus in order.
LEMMA SasiStep ==
    ASSUME SasiInv, [SasiNext]_sasiVars
    PROVE  SasiInv'
<1>0. bus \in BusState /\ order \in Order /\ NoOrder \in Order
  BY SasiBounds DEF SasiInv, NoOrder, Order, Opcode
<1>1. ASSUME SasiSelect  PROVE SasiInv'
  <2>1. PICK n \in SasiDisk : bus' = sasi_device_select(bus, n) /\ order' = NoOrder
    BY <1>1 DEF SasiSelect
  <2>2. bus' \in BusState /\ bus'.state = "endsel" /\ bus'.selected \in SasiDisk /\ bus'.bsy = TRUE
    BY <1>0, <2>1 DEF sasi_device_select, BusState
  <2> QED
    BY <1>0, <2>1, <2>2, QuietKeeps
<1>2. ASSUME SasiEndSelect  PROVE SasiInv'
  <2> DEFINE d == Chosen(bus)
             e == [d EXCEPT !.dptr = 0, !.cmd_len = 0]
             w == With(bus, e)
             v == [w EXCEPT !.io = FALSE, !.cd = TRUE, !.bsy = TRUE]
  <2>1. bus.selected \in SasiDisk /\ d \in SasiDiskState
    BY <1>0, <1>2 DEF SasiInv, SasiEndSelect, Chosen, BusState
  <2>2. bus' = [v EXCEPT !.state = "transfer"] /\ order' = order
    BY <1>2 DEF SasiEndSelect, sasi_device_begin
  <2>3. e \in SasiDiskState /\ e.cmd_len = 0 /\ e.dptr = 0
    <3>1. 0 \in 0 .. CommandBytes /\ 0 \in 0 .. DptrValues - 1
      BY SasiBounds
    <3> HIDE DEF d
    <3> QED
      BY <2>1, <3>1 DEF SasiDiskState
  <2> HIDE DEF e
  <2>4. w \in BusState /\ w.selected = bus.selected /\ Chosen(w) = e
    BY <1>0, <2>1, <2>3, WithTurns DEF Turned
  <2> HIDE DEF w
  <2>5. /\ bus' \in BusState /\ bus'.state = "transfer" /\ bus'.selected = bus.selected
        /\ Chosen(bus') = e /\ bus'.cd = TRUE /\ bus'.io = FALSE /\ bus'.bsy = TRUE
    BY <2>2, <2>4 DEF BusState, Chosen
  <2>6. CommandPhase(e, TRUE, FALSE)
    BY <2>3, SasiBounds DEF CommandPhase
  <2>7. InPhase(Chosen(bus'), order', bus'.cd, bus'.io)
    BY <2>5, <2>6 DEF InPhase
  <2>8. InPhase(Chosen(bus), order, bus.cd, bus.io)'
    BY <2>7 DEF InPhase, CommandPhase, StatusPhase, DataInPhase, DataOutPhase, Complete, Chosen
  <2> QED
    BY <1>0, <2>1, <2>2, <2>5, <2>8 DEF SasiInv, Order, BusState, SasiDiskState
<1>3. ASSUME SasiReset  PROVE SasiInv'
  <2>1. CASE bus.state = "reset"
    <3>1. bus' \in BusState /\ bus'.state = "idle" /\ Free(bus') /\ order' = NoOrder
      BY <1>0, <1>3, <2>1 DEF SasiReset, sasi_bus_idle, BusState, Free
    <3> QED
      BY <1>0, <3>1, QuietKeeps DEF Free
  <2>2. CASE bus.state # "reset"
    <3>1. /\ bus' \in BusState /\ bus'.state = "reset" /\ order' = NoOrder
          /\ bus'.io = bus.io /\ bus'.selected = bus.selected
      BY <1>0, <1>3, <2>2 DEF SasiReset, BusState
    <3> QED
      BY <1>0, <3>1, QuietKeeps DEF SasiInv
  <2> QED
    BY <2>1, <2>2
<1>4. ASSUME UNCHANGED sasiVars  PROVE SasiInv'
  BY <1>4 DEF SasiInv, Free, sasiVars, InPhase, CommandPhase, StatusPhase, DataInPhase, DataOutPhase,
              Complete, Chosen, Order, BusState, SasiDiskState
<1> QED
  BY <1>1, <1>2, <1>3, <1>4, SasiCommandOk, SasiWriteOk, SasiReadOk DEF SasiNext

LEMMA SasiInvImplies == SasiInv => SasiTypeOK /\ SasiPhaseTruth /\ SasiBlocksInStep
<1> SUFFICES ASSUME SasiInv  PROVE SasiTypeOK /\ SasiPhaseTruth /\ SasiBlocksInStep
  OBVIOUS
<1>1. SasiTypeOK
  BY DEF SasiInv, SasiTypeOK
<1>2. SasiPhaseTruth
  <2>1. /\ bus.state \in {"transfer", "endsel"} => bus.bsy /\ bus.selected # NoDisk
        /\ bus.state = "idle" => ~bus.bsy /\ ~bus.cd /\ ~bus.io /\ bus.selected = NoDisk
    BY SasiAssumption DEF SasiInv, Free, NoDisk
  <2> QED
    BY <2>1 DEF SasiPhaseTruth, SasiInv, InPhase, CommandPhase, StatusPhase, DataInPhase,
                DataOutPhase, Complete, BusState
<1>3. SasiBlocksInStep
  <2> SUFFICES ASSUME bus.state = "transfer", order.cmd \in Moving,
                      Chosen(bus).cmd_len = CommandBytes
               PROVE  LET d    == Chosen(bus)
                          busy == IF order.cmd = "read" /\ ~bus.cd THEN 1 ELSE 0
                      IN  /\ d.lba = order.lba + order.moved + busy
                          /\ d.count = order.len - order.moved - busy
                          /\ bus.cd /\ d.status = "good" => order.moved = order.len
    BY DEF SasiBlocksInStep
  <2> DEFINE d == Chosen(bus)
  <2>1. /\ order.lba \in Nat /\ order.moved \in Nat /\ order.len \in Nat /\ CommandBytes \in Nat
    BY SasiBounds DEF SasiInv, Order
  <2>2. \/ StatusPhase(d, order, bus.cd, bus.io) \/ DataInPhase(d, order, bus.cd, bus.io)
        \/ DataOutPhase(d, order, bus.cd, bus.io)
    BY <2>1 DEF SasiInv, InPhase, CommandPhase
  <2>3. CASE StatusPhase(d, order, bus.cd, bus.io)
    BY <2>1, <2>3 DEF StatusPhase, Complete
  <2>4. CASE DataInPhase(d, order, bus.cd, bus.io)
    <3>1. order.cmd = "read" /\ d.cmd = "read"
      BY <2>4 DEF DataInPhase, Complete, DataIn, Moving
    <3> QED
      BY <2>1, <2>4, <3>1 DEF DataInPhase
  <2>5. CASE DataOutPhase(d, order, bus.cd, bus.io)
    <3>1. order.cmd = "write" /\ d.cmd = "write"
      BY <2>5 DEF DataOutPhase, Complete, DataOut, Moving
    <3> QED
      BY <2>1, <2>5, <3>1 DEF DataOutPhase
  <2> QED
    BY <2>2, <2>3, <2>4, <2>5
<1> QED
  BY <1>1, <1>2, <1>3

\* Whatever the host does to the SASI bus, a selection or a reset in the middle
\* of a command and reads while SEL or RST is up included: once SEL is down a data
\* phase belongs to the command that was given since, has data in that direction
\* and bytes of it left, and a command phase has room for a byte.
THEOREM SasiPhases == SasiSpec => []SasiPhaseTruth
<1>1. SasiInv /\ [SasiNext]_sasiVars => SasiInv'
  BY SasiStep
<1>2. SasiInv => SasiPhaseTruth
  BY SasiInvImplies
<1> QED
  BY <1>1, <1>2, SasiCreatedOk, PTL DEF SasiSpec

\* The block number and the count of a disk agree with the blocks that were
\* moved, for every length and every error of the image, and a transfer that
\* ends with a good status has moved them all.
THEOREM SasiBlocks == SasiSpec => []SasiBlocksInStep
<1>1. SasiInv /\ [SasiNext]_sasiVars => SasiInv'
  BY SasiStep
<1>2. SasiInv => SasiBlocksInStep
  BY SasiInvImplies
<1> QED
  BY <1>1, <1>2, SasiCreatedOk, PTL DEF SasiSpec

-----------------------------------------------------------------------------
(* The floppy disk controller *)

WdPlace == [drive : WdDrive \cup {NO_DRIVE}, track : 0 .. 255, side : {0, 1}, sector : 0 .. 255]

\* A transfer with bytes left, for which the controller asks.
Running(f) ==
    /\ "DRQ" \in f.status /\ "BUSY" \in f.status
    /\ \/ f.rd /\ f.pos < f.rdsize
       \/ f.wr /\ f.drive # NO_DRIVE /\ f.pos < Disk(f).secsize

\* A write that was not disturbed is for a sector of the disk in the drive.
Settled(f, a, x) ==
    \/ x = "empty" /\ ~Loaded(f)
    \/ /\ a = Place(f) /\ Loaded(f)
       /\ f.track < Disk(f).tracks /\ f.sector \in 1 .. Disk(f).spt

\* The controller f with the history of the run: it will tell, a write has
\* stopped the count of status reads, and it knows its sector.
WdGood(f, a, u, x) ==
    /\ f \in WdState /\ a \in WdPlace /\ u \in BOOLEAN
    /\ x \in {"none", "moved", "empty", "refused", "density"}
    /\ u /\ x = "none" => f.busy > 0 \/ Running(f)
    /\ f.wr => f.busy = 0 /\ f.rd = FALSE
    /\ f.wr /\ x # "moved" => Settled(f, a, x)

WdInv == WdGood(fdc, asked, untold, excuse)

LEMMA WdCreatedOk == WdInit => WdInv
<1> SUFFICES ASSUME WdInit  PROVE WdInv
  OBVIOUS
<1>1. 0 \in 0 .. BusyReads /\ 0 \in 0 .. 255 /\ 0 \in WdDrive
  BY WdAssumption
<1>2. fdc \in WdState /\ fdc.wr = FALSE
  BY <1>1 DEF WdInit, WdCreated, WdState
<1>3. asked \in WdPlace
  BY <1>1 DEF WdInit, WdCreated, Place, WdPlace
<1>4. untold = FALSE /\ excuse = "none"
  BY DEF WdInit
<1> QED
  BY <1>2, <1>3, <1>4 DEF WdInv, WdGood

LEMMA DiskType ==
    ASSUME NEW f \in WdState, f.drive # NO_DRIVE
    PROVE  /\ f.drive \in WdDrive /\ Disk(f).tracks \in Nat /\ Disk(f).sides \in {1, 2}
           /\ Disk(f).spt \in Nat \ {0} /\ Disk(f).secsize \in Nat \ {0}
<1>1. f.drive \in WdDrive
  BY DEF WdState
<1>2. WdDisk[f.drive] \in [tracks : Nat, sides : {1, 2}, spt : Nat \ {0},
                           secsize : Nat \ {0}, den : Nat]
  BY <1>1, WdAssumption
<1> QED
  BY <1>1, <1>2 DEF Disk

\* What only shows in the status, the step direction and the side.
Apart(f, g) ==
    /\ g \in WdState /\ g.drive = f.drive /\ g.density = f.density /\ g.busy = f.busy
    /\ g.wr = f.wr /\ g.rd = f.rd /\ g.pos = f.pos /\ g.rdsize = f.rdsize
    /\ g.track = f.track /\ g.sector = f.sector

LEMMA ApartTransitive ==
    ASSUME NEW f, NEW g, NEW h, Apart(f, g), Apart(g, h)
    PROVE  Apart(f, h)
  BY DEF Apart

LEMMA StatusApart ==
    ASSUME NEW f \in WdState, NEW s \in SUBSET StatusBit, NEW g, g = [f EXCEPT !.status = s]
    PROVE  Apart(f, g) /\ g.status = s /\ g.intrq = f.intrq /\ g.side = f.side
  BY DEF Apart, WdState

LEMMA FlagApart ==
    ASSUME NEW f \in WdState, NEW s \in SUBSET StatusBit
    PROVE  /\ Apart(f, Flag(f, s)) /\ Flag(f, s).status = f.status \cup s
           /\ Flag(f, s).intrq = f.intrq /\ Flag(f, s).side = f.side
<1> DEFINE t == f.status \cup s
<1>1. t \in SUBSET StatusBit
  BY DEF WdState
<1>2. Flag(f, s) = [f EXCEPT !.status = t]
  BY DEF Flag
<1> HIDE DEF t
<1>3. /\ Apart(f, Flag(f, s)) /\ Flag(f, s).status = t
      /\ Flag(f, s).intrq = f.intrq /\ Flag(f, s).side = f.side
  BY <1>1, <1>2, StatusApart
<1> QED
  BY <1>3 DEF t

LEMMA DensityApart ==
    ASSUME NEW f \in WdState
    PROVE  /\ Apart(f, wd17xx_check_density(f))
           /\ ~Mismatch(f) => wd17xx_check_density(f) = f
<1>1. {"ERR"} \in SUBSET StatusBit
  BY DEF StatusBit
<1>2. Apart(f, f)
  BY DEF Apart
<1> QED
  BY <1>1, <1>2, StatusApart DEF wd17xx_check_density

LEMMA SideApart ==
    ASSUME NEW f \in WdState, NEW s \in {0, 1}
    PROVE  /\ Apart(f, wd17xx_side_control(f, s))
           /\ wd17xx_side_control(f, s).status = f.status
           /\ wd17xx_side_control(f, s).intrq = f.intrq
  BY DEF Apart, WdState, wd17xx_side_control

LEMMA VerifyApart ==
    ASSUME NEW f \in WdState, NEW v
    PROVE  Apart(f, Verify(f, v)) /\ Apart(f, VerifyNow(f, v))
<1>1. {"ERR"} \in SUBSET StatusBit
  BY DEF StatusBit
<1>2. Apart(f, f)
  BY DEF Apart
<1>3. Apart(f, Verify(f, v))
  BY <1>1, <1>2, FlagApart, DensityApart DEF Verify
<1>4. Apart(f, [f EXCEPT !.status = {"ERR"}, !.intrq = TRUE])
  BY ZenonT(60), <1>1 DEF Apart, WdState
<1> QED
  BY <1>3, <1>4 DEF VerifyNow

\* What a command leaves: an end that is announced, the count, or a transfer,
\* which a wrong density may keep from ever being asked for.
Outcome(f, g) ==
    /\ g \in WdState /\ g.drive = f.drive
    /\ g.intrq \/ g.busy > 0 \/ Running(g) \/ (Mismatch(f) /\ (g.rd \/ g.wr))
    /\ g.wr => g.busy = 0 /\ g.rd = FALSE /\ g.track < Disk(g).tracks /\ g.sector \in 1 .. Disk(g).spt

\* A command has just begun.
Fresh(f) ==
    /\ f \in WdState /\ Loaded(f) /\ f.status = {"BUSY"} /\ f.busy > 0 /\ f.rd = FALSE
    /\ f.wr = FALSE /\ f.pos = 0 /\ f.track < 128

LEMMA CountOutcome ==
    ASSUME NEW f, NEW g, Fresh(f), g \in WdState, g.drive = f.drive, g.busy = f.busy, g.wr = f.wr
    PROVE  Outcome(f, g)
  BY DEF Outcome, Fresh

\* The commands that move the head.
LEMMA HeadOutcome ==
    ASSUME NEW f, Fresh(f), NEW v \in BOOLEAN, NEW s \in {0, 1}
    PROVE  /\ Outcome(f, Restore(f, v, s)) /\ Outcome(f, Seek(f, v, s)) /\ Outcome(f, StepOn(f, v, s))
           /\ Outcome(f, StepIn(f, v, s)) /\ Outcome(f, StepOut(f, v, s))
<1> DEFINE Kept(g) == g \in WdState /\ g.drive = f.drive /\ g.busy = f.busy /\ g.wr = f.wr
<1>0. /\ f \in WdState /\ {INDEX} \in SUBSET StatusBit /\ {"ERR"} \in SUBSET StatusBit
      /\ f.track \in 0 .. 255 /\ f.track < 128 /\ f.stepdir \in {-1, 0, 1} /\ f.buf0 \in 0 .. 255
  BY DEF Fresh, INDEX, StatusBit, WdState
<1>1. ASSUME NEW t \in 0 .. 255, NEW e \in {-1, 0, 1}
      PROVE  Kept([f EXCEPT !.track = t, !.stepdir = e]) /\ Kept([f EXCEPT !.stepdir = e, !.track = t])
             /\ Kept([f EXCEPT !.track = t]) /\ Kept([f EXCEPT !.track = t, !.status = {INDEX}])
  <2>1. Kept([f EXCEPT !.track = t, !.stepdir = e])
    BY ZenonT(60), <1>0 DEF WdState
  <2>2. Kept([f EXCEPT !.stepdir = e, !.track = t])
    BY ZenonT(60), <1>0 DEF WdState
  <2>3. Kept([f EXCEPT !.track = t])
    BY <1>0 DEF WdState
  <2>4. Kept([f EXCEPT !.track = t, !.status = {INDEX}])
    BY ZenonT(60), <1>0 DEF WdState
  <2> QED
    BY <2>1, <2>2, <2>3, <2>4
<1>2. ASSUME NEW g, Kept(g), NEW h, Apart(g, h)  PROVE Kept(h)
  BY <1>2 DEF Apart
<1>3. ASSUME NEW g, Kept(g), NEW e \in {-1, 0, 1}  PROVE Kept(Directed(g, v, e))
  <2> DEFINE x == IF v /\ NoSide(g) THEN g.stepdir ELSE e
  <2>1. x \in {-1, 0, 1}
    BY <1>3 DEF WdState
  <2>2. Directed(g, v, e) = [g EXCEPT !.stepdir = x]
    BY DEF Directed
  <2> HIDE DEF x
  <2> QED
    BY <1>3, <2>1, <2>2 DEF WdState
<1>4. ASSUME NEW g, Kept(g)
      PROVE  Kept(Flag(g, {INDEX})) /\ Kept(Flag(g, {"ERR"})) /\ Kept(Verify(g, v)) /\ Kept(VerifyNow(g, v))
  <2>1. g \in WdState
    BY <1>4
  <2>2. Apart(g, Flag(g, {INDEX})) /\ Apart(g, Flag(g, {"ERR"}))
    BY <1>0, <2>1, FlagApart
  <2>3. Apart(g, Verify(g, v)) /\ Apart(g, VerifyNow(g, v))
    BY <2>1, VerifyApart
  <2> QED
    BY <1>2, <1>4, <2>2, <2>3
<1>5. ASSUME NEW g, Kept(g)  PROVE Outcome(f, g)
  BY <1>5, CountOutcome
<1> HIDE DEF Kept
<1>6. Kept(Restore(f, v, s))
  <2>1. 0 \in 0 .. 255 /\ 1 \in {-1, 0, 1}
    OBVIOUS
  <2>2. Kept([f EXCEPT !.track = 0, !.stepdir = 1])
    BY <1>1, <2>1
  <2> QED
    BY <1>4, <2>2 DEF Restore
<1>7. Kept(Seek(f, v, s))
  <2> DEFINE dir == IF f.track < f.buf0 THEN 1 ELSE IF f.track > f.buf0 THEN -1 ELSE f.stepdir
             h   == [f EXCEPT !.stepdir = dir, !.track = f.buf0]
             g   == Flag(h, {INDEX})
  <2>1. dir \in {-1, 0, 1}
    BY <1>0
  <2>2. Seek(f, v, s) = IF g.track >= Disk(f).tracks THEN Flag(g, {"ERR"}) ELSE Verify(g, v)
    BY DEF Seek
  <2> HIDE DEF dir
  <2>3. Kept(h)
    BY <1>0, <1>1, <2>1
  <2> HIDE DEF h
  <2>4. Kept(g)
    BY <1>4, <2>3
  <2> HIDE DEF g
  <2> QED
    BY <1>4, <2>2, <2>4
<1>8. Kept(StepOn(f, v, s))
  <2> DEFINE t == IF f.track > 0 /\ f.stepdir = -1 THEN f.track - 1
                  ELSE IF f.track < 128 /\ f.stepdir = 1 THEN f.track + 1 ELSE f.track
  <2>1. t \in 0 .. 255
    BY <1>0
  <2>2. StepOn(f, v, s) = VerifyNow(Flag([f EXCEPT !.track = t], {INDEX}), v)
    BY DEF StepOn
  <2> HIDE DEF t
  <2>3. Kept([f EXCEPT !.track = t])
    BY <1>1, <2>1
  <2> QED
    BY <1>4, <2>2, <2>3
<1>9. Kept(StepIn(f, v, s))
  <2> DEFINE t == IF f.track < 128 THEN f.track + 1 ELSE f.track
             g == [f EXCEPT !.track = t]
  <2>1. t \in 0 .. 255 /\ 1 \in {-1, 0, 1}
    BY <1>0
  <2>2. StepIn(f, v, s) = Verify(Directed(Flag(g, {INDEX}), v, 1), v)
    BY DEF StepIn
  <2> HIDE DEF t
  <2>3. Kept(g)
    BY <1>1, <2>1
  <2> HIDE DEF g
  <2>4. Kept(Directed(Flag(g, {INDEX}), v, 1))
    BY <1>3, <1>4, <2>1, <2>3
  <2> QED
    BY <1>4, <2>2, <2>4
<1>10. Kept(StepOut(f, v, s))
  <2> DEFINE t == IF f.track > 0 THEN f.track - 1 ELSE f.track
             g == [f EXCEPT !.track = t, !.status = {INDEX}]
  <2>1. t \in 0 .. 255 /\ -1 \in {-1, 0, 1}
    BY <1>0
  <2>2. StepOut(f, v, s) = VerifyNow(Directed(g, v, -1), v)
    BY DEF StepOut
  <2> HIDE DEF t
  <2>3. Kept(g)
    BY <1>1, <2>1
  <2> HIDE DEF g
  <2>4. Kept(Directed(g, v, -1))
    BY <1>3, <2>1, <2>3
  <2> QED
    BY <1>4, <2>2, <2>4
<1> QED
  BY <1>5, <1>6, <1>7, <1>8, <1>9, <1>10

\* A transfer that is asked for, unless the density is wrong.
LEMMA TransferOutcome ==
    ASSUME NEW f, Fresh(f), NEW g \in WdState, g.drive = f.drive, g.density = f.density,
           "DRQ" \in g.status, "BUSY" \in g.status, g.busy = 0,
           \/ g.rd = TRUE /\ g.wr = FALSE /\ g.pos < g.rdsize
           \/ /\ g.wr = TRUE /\ g.rd = FALSE /\ g.pos = 0 /\ g.track < Disk(f).tracks
              /\ g.sector \in 1 .. Disk(f).spt
    PROVE  Outcome(f, wd17xx_check_density(g))
<1> DEFINE h == wd17xx_check_density(g)
<1>1. Apart(g, h) /\ (~Mismatch(g) => h = g)
  BY DensityApart
<1>2. Mismatch(g) = Mismatch(f) /\ Disk(g) = Disk(f)
  BY DEF Mismatch, Disk
<1>3. g.drive # NO_DRIVE /\ Disk(g).secsize \in Nat \ {0}
  <2>1. g.drive # NO_DRIVE
    BY DEF Fresh, Loaded
  <2> QED
    BY <2>1, DiskType
<1>4. Running(g)
  BY <1>3 DEF Running
<1> HIDE DEF h
<1>5. Disk(h) = Disk(f) /\ h \in WdState /\ h.drive = f.drive /\ h.rd = g.rd /\ h.wr = g.wr
      /\ h.busy = 0 /\ h.track = g.track /\ h.sector = g.sector
  BY <1>1 DEF Apart, Disk
<1>6. h.wr => h.busy = 0 /\ h.rd = FALSE /\ h.track < Disk(h).tracks /\ h.sector \in 1 .. Disk(h).spt
  BY <1>5
<1>7. Running(h) \/ (Mismatch(f) /\ (h.rd \/ h.wr))
  BY <1>1, <1>2, <1>4, <1>5
<1> QED
  BY <1>5, <1>6, <1>7 DEF Outcome, h

\* A sector that is there.
LEMMA PresentSector ==
    ASSUME NEW f, Fresh(f), ~Absent(f)
    PROVE  f.track < Disk(f).tracks /\ f.sector \in 1 .. Disk(f).spt
<1>1. f \in WdState /\ f.drive # NO_DRIVE /\ f.track \in Nat /\ f.sector \in Nat
  BY DEF Fresh, Loaded, WdState
<1>2. Disk(f).tracks \in Nat /\ Disk(f).spt \in Nat
  BY <1>1, DiskType
<1> QED
  BY <1>1, <1>2 DEF Absent

\* The commands that read and write.
LEMMA ReadOutcome ==
    ASSUME NEW f, Fresh(f), NEW v \in BOOLEAN, NEW s \in {0, 1}
    PROVE  Outcome(f, ReadSector(f, v, s)) /\ Outcome(f, ReadFails(f, v, s))
<1> DEFINE g == wd17xx_side_control(f, s)
           n == Disk(f).secsize
           h == [g EXCEPT !.rd = TRUE, !.rdsize = n, !.busy = 0]
           k == Flag(h, {"DRQ"})
           a == Flag(f, {INDEX, "ERR"})
           e == [g EXCEPT !.rd = TRUE, !.intrq = TRUE]
           w == Flag(e, {"ERR"})
<1>0. /\ f \in WdState /\ {"DRQ"} \in SUBSET StatusBit /\ {"ERR"} \in SUBSET StatusBit
      /\ {INDEX, "ERR"} \in SUBSET StatusBit /\ f.drive # NO_DRIVE /\ 0 \in 0 .. BusyReads
      /\ f.status = {"BUSY"} /\ f.pos = 0 /\ f.wr = FALSE /\ f.busy > 0
  BY WdAssumption DEF Fresh, Loaded, INDEX, StatusBit
<1>1. n \in Nat \ {0}
  BY <1>0, DiskType
<1>2. /\ ReadSector(f, v, s) = IF Absent(f) THEN a ELSE wd17xx_check_density(k)
      /\ ReadFails(f, v, s) = IF Absent(f) THEN a ELSE w
  BY DEF ReadSector, ReadFails
<1>3. Apart(f, g) /\ g.status = f.status
  BY <1>0, SideApart
<1> HIDE DEF g, n
<1>4. /\ h \in WdState /\ h.drive = f.drive /\ h.density = f.density /\ h.status = f.status
      /\ h.busy = 0 /\ h.rd = TRUE /\ h.wr = FALSE /\ h.pos = 0 /\ h.rdsize = n
  <2>1. g \in WdState /\ 0 \in 0 .. BusyReads
    BY <1>0, <1>3 DEF Apart
  <2>2. /\ h \in WdState /\ h.drive = g.drive /\ h.density = g.density /\ h.status = g.status
        /\ h.busy = 0 /\ h.rd = TRUE /\ h.wr = g.wr /\ h.pos = g.pos /\ h.rdsize = n
    BY ZenonT(60), <1>1, <2>1 DEF WdState
  <2> QED
    BY <1>0, <1>3, <2>2 DEF Apart
<1>5. e \in WdState /\ e.drive = f.drive /\ e.busy = f.busy /\ e.wr = FALSE /\ e.intrq = TRUE
  <2>1. g \in WdState
    BY <1>3 DEF Apart
  <2>2. e \in WdState /\ e.drive = g.drive /\ e.busy = g.busy /\ e.wr = g.wr /\ e.intrq = TRUE
    BY ZenonT(60), <2>1 DEF WdState
  <2> QED
    BY <1>0, <1>3, <2>2 DEF Apart
<1> HIDE DEF h, e
<1>6. Outcome(f, wd17xx_check_density(k))
  <2>1. Apart(h, k) /\ k.status = h.status \cup {"DRQ"}
    BY <1>0, <1>4, FlagApart
  <2> HIDE DEF k
  <2>2. /\ k \in WdState /\ k.drive = f.drive /\ k.density = f.density /\ k.busy = 0
        /\ k.rd = TRUE /\ k.wr = FALSE /\ k.pos < k.rdsize
    BY <1>1, <1>4, <2>1 DEF Apart
  <2>3. "DRQ" \in k.status /\ "BUSY" \in k.status
    BY <1>0, <1>4, <2>1
  <2> QED
    BY <2>2, <2>3, TransferOutcome
<1>7. Outcome(f, a)
  <2>1. Apart(f, a)
    BY <1>0, FlagApart
  <2> QED
    BY <2>1, CountOutcome DEF Apart
<1>8. Outcome(f, w)
  <2>1. Apart(e, w)
    BY <1>0, <1>5, FlagApart
  <2> QED
    BY <1>5, <2>1, CountOutcome DEF Apart, Fresh
<1> HIDE DEF k, a, w
<1> QED
  BY <1>2, <1>6, <1>7, <1>8

LEMMA WriteOutcome ==
    ASSUME NEW f, Fresh(f), NEW v \in BOOLEAN, NEW s \in {0, 1}
    PROVE  Outcome(f, WriteSector(f, v, s))
<1> DEFINE h == [f EXCEPT !.busy = 0, !.wr = TRUE]
           k == Flag(h, {"DRQ"})
           g == wd17xx_side_control(k, s)
           a == Flag(f, {"ERR"})
<1>0. /\ f \in WdState /\ {"DRQ"} \in SUBSET StatusBit /\ {"ERR"} \in SUBSET StatusBit
      /\ f.drive # NO_DRIVE /\ 0 \in 0 .. BusyReads /\ f.status = {"BUSY"} /\ f.pos = 0
      /\ f.rd = FALSE
  BY WdAssumption DEF Fresh, Loaded, StatusBit
<1>1. WriteSector(f, v, s) = IF Absent(f) THEN a ELSE wd17xx_check_density(g)
  BY DEF WriteSector
<1>2. /\ h \in WdState /\ h.drive = f.drive /\ h.density = f.density /\ h.status = f.status
      /\ h.busy = 0 /\ h.wr = TRUE /\ h.rd = FALSE /\ h.pos = 0 /\ h.track = f.track
      /\ h.sector = f.sector
  <2>1. f \in WdState /\ 0 \in 0 .. BusyReads
    BY <1>0
  <2>2. /\ h \in WdState /\ h.drive = f.drive /\ h.density = f.density /\ h.status = f.status
        /\ h.busy = 0 /\ h.wr = TRUE /\ h.rd = f.rd /\ h.pos = f.pos /\ h.track = f.track
        /\ h.sector = f.sector
    BY ZenonT(60), <2>1 DEF WdState
  <2> QED
    BY <1>0, <2>2
<1> HIDE DEF h
<1>3. Apart(h, k) /\ k.status = h.status \cup {"DRQ"}
  BY <1>0, <1>2, FlagApart
<1> HIDE DEF k
<1>4. Apart(k, g) /\ g.status = k.status
  BY <1>3, SideApart DEF Apart
<1> HIDE DEF g
<1>5. /\ g \in WdState /\ g.drive = f.drive /\ g.density = f.density /\ g.busy = 0
      /\ g.wr = TRUE /\ g.rd = FALSE /\ g.pos = 0 /\ g.track = f.track
      /\ g.sector = f.sector
  BY <1>2, <1>3, <1>4 DEF Apart
<1>6. "DRQ" \in g.status /\ "BUSY" \in g.status
  BY <1>0, <1>2, <1>3, <1>4
<1>7. CASE Absent(f)
  <2>1. Apart(f, a)
    BY <1>0, FlagApart
  <2> HIDE DEF a
  <2>2. Outcome(f, a)
    BY <2>1, CountOutcome DEF Apart
  <2> QED
    BY <1>1, <1>7, <2>2
<1>8. CASE ~Absent(f)
  <2>1. f.track < Disk(f).tracks /\ f.sector \in 1 .. Disk(f).spt
    BY <1>8, PresentSector
  <2>2. g.track < Disk(f).tracks /\ g.sector \in 1 .. Disk(f).spt
    BY <1>5, <2>1
  <2>3. Outcome(f, wd17xx_check_density(g))
    BY <1>5, <1>6, <2>2, TransferOutcome
  <2> QED
    BY <1>1, <1>8, <2>3
<1> QED
  BY <1>7, <1>8

LEMMA AddressOutcome ==
    ASSUME NEW f, Fresh(f), NEW v \in BOOLEAN, NEW s \in {0, 1}
    PROVE  Outcome(f, ReadAddress(f, v, s)) /\ Outcome(f, Unemulated(f, v, s))
<1> DEFINE g == wd17xx_side_control(f, s)
           p == IF WdType = 1772 THEN 1 ELSE 0
           h == [g EXCEPT !.rd = TRUE, !.rdsize = AddressBytes, !.sector = f.track, !.buf0 = 0,
                          !.pos = p, !.intrq = TRUE]
           k == Flag(h, {"DRQ"})
           a == Flag(g, {"ERR"})
           t == f.status \ {"DRQ"}
<1>0. /\ f \in WdState /\ {"DRQ"} \in SUBSET StatusBit /\ {"ERR"} \in SUBSET StatusBit
      /\ t \in SUBSET StatusBit /\ f.track \in 0 .. 255 /\ p \in Nat /\ 0 \in 0 .. 255
      /\ f.wr = FALSE /\ f.busy > 0 /\ AddressBytes \in Nat
  BY WdAssumption DEF Fresh, StatusBit, WdState
<1>1. ReadAddress(f, v, s) = IF NoSide(g) THEN a ELSE wd17xx_check_density(k)
  BY DEF ReadAddress
<1>2. Apart(f, g)
  BY <1>0, SideApart
<1> HIDE DEF g, p
<1>3. h \in WdState /\ h.drive = f.drive /\ h.busy = f.busy /\ h.wr = FALSE
  BY ZenonT(60), <1>0, <1>2 DEF Apart, WdState
<1> HIDE DEF h
<1>4. Apart(h, k)
  BY <1>0, <1>3, FlagApart
<1> HIDE DEF k
<1>5. Apart(k, wd17xx_check_density(k))
  BY <1>4, DensityApart DEF Apart
<1>6. Outcome(f, wd17xx_check_density(k))
  BY <1>0, <1>3, <1>4, <1>5, CountOutcome DEF Apart
<1>7. Outcome(f, a)
  <2>1. Apart(g, a)
    BY <1>0, <1>2, FlagApart DEF Apart
  <2> QED
    BY <1>2, <2>1, CountOutcome DEF Apart
<1>8. Outcome(f, Unemulated(f, v, s))
  <2>1. Unemulated(f, v, s) = [f EXCEPT !.status = t]
    BY DEF Unemulated
  <2> HIDE DEF t
  <2>2. Apart(f, Unemulated(f, v, s))
    BY <1>0, <2>1, StatusApart
  <2> QED
    BY <2>2, CountOutcome DEF Apart
<1> HIDE DEF a
<1> QED
  BY <1>1, <1>6, <1>7, <1>8

LEMMA CommandOutcome ==
    ASSUME NEW f, Fresh(f), NEW v \in BOOLEAN, NEW s \in {0, 1}, NEW g \in Command(f, v, s)
    PROVE  Outcome(f, g)
<1>1. \/ g = Restore(f, v, s) \/ g = Seek(f, v, s) \/ g = StepOn(f, v, s) \/ g = StepIn(f, v, s)
      \/ g = StepOut(f, v, s) \/ g = ReadSector(f, v, s) \/ g = ReadFails(f, v, s)
      \/ g = WriteSector(f, v, s) \/ g = ReadAddress(f, v, s) \/ g = Unemulated(f, v, s)
  BY DEF Command
<1> QED
  BY <1>1, HeadOutcome, ReadOutcome, WriteOutcome, AddressOutcome

\* A change of a register, of the select lines or of the density.
LEMMA SettingGood ==
    ASSUME NEW f, NEW a, NEW u, NEW x, WdGood(f, a, u, x),
           NEW g \in WdState, g.wr = f.wr, g.rd = f.rd, g.pos = f.pos, g.rdsize = f.rdsize,
           g.busy = f.busy, g.status = f.status,
           NEW y, y = IF f.wr /\ Place(g) # Place(f) THEN "moved" ELSE x
    PROVE  WdGood(g, a, u, y)
<1>1. CASE f.wr /\ Place(g) # Place(f)
  <2>1. y = "moved"
    BY <1>1
  <2> QED
    BY <2>1 DEF WdGood
<1>2. CASE f.wr /\ Place(g) = Place(f)
  <2>1. g.drive = f.drive /\ g.track = f.track /\ g.sector = f.sector /\ y = x
    BY <1>2 DEF Place
  <2>2. Settled(f, a, x) => Settled(g, a, x)
    BY <1>2, <2>1 DEF Settled, Loaded, Disk
  <2>3. Running(f) => Running(g)
    BY <2>1 DEF Running, Disk
  <2> QED
    BY <1>2, <2>1, <2>2, <2>3 DEF WdGood
<1>3. CASE ~f.wr
  <2>1. y = x
    BY <1>3
  <2>2. Running(f) => Running(g)
    BY <1>3 DEF Running
  <2> QED
    BY <1>3, <2>1, <2>2 DEF WdGood
<1> QED
  BY <1>1, <1>2, <1>3

\* A step that leaves the place alone, and the write if there is one.
LEMMA PlaceGood ==
    ASSUME NEW f, NEW a, NEW u, NEW x, WdGood(f, a, u, x),
           NEW g \in WdState, Place(g) = Place(f), g.wr => f.wr, g.wr => g.busy = 0 /\ g.rd = FALSE,
           NEW w \in BOOLEAN, w /\ x = "none" => g.busy > 0 \/ Running(g)
    PROVE  WdGood(g, a, w, x)
<1>1. g.drive = f.drive /\ g.track = f.track /\ g.sector = f.sector
  BY DEF Place
<1>2. Settled(f, a, x) => Settled(g, a, x)
  BY <1>1 DEF Settled, Loaded, Disk
<1> QED
  BY <1>2 DEF WdGood

LEMMA IntrqType ==
    ASSUME NEW f \in WdState, NEW b \in BOOLEAN, NEW g, g = [f EXCEPT !.intrq = b]
    PROVE  g \in WdState
  BY DEF WdState

LEMMA FinishedType ==
    ASSUME NEW f \in WdState
    PROVE  /\ Finished(f) \in WdState /\ Place(Finished(f)) = Place(f)
           /\ Finished(f).intrq = TRUE /\ Finished(f).busy = f.busy /\ Finished(f).wr = f.wr
           /\ Finished(f).pos = f.pos /\ Finished(f).rd = f.rd
<1> DEFINE s == f.status \ {"DRQ", "BUSY"}
<1>1. s \in SUBSET StatusBit
  BY DEF WdState
<1>2. Finished(f) = [f EXCEPT !.status = s, !.intrq = TRUE]
  BY DEF Finished
<1> HIDE DEF s
<1>3. Finished(f) \in WdState
  <2> DEFINE m == [f EXCEPT !.status = s]
  <2>1. Finished(f) = [m EXCEPT !.intrq = TRUE]
    BY <1>2
  <2>2. m \in WdState
    BY <1>1, StatusApart DEF Apart
  <2> HIDE DEF m
  <2> QED
    BY <2>1, <2>2, IntrqType
<1>4. /\ Finished(f).drive = f.drive /\ Finished(f).track = f.track
      /\ Finished(f).side = f.side /\ Finished(f).sector = f.sector
      /\ Finished(f).intrq = TRUE /\ Finished(f).busy = f.busy /\ Finished(f).wr = f.wr
      /\ Finished(f).pos = f.pos /\ Finished(f).rd = f.rd
  BY <1>2 DEF WdState
<1> QED
  BY <1>3, <1>4 DEF Place

LEMMA ReadDataGood ==
    ASSUME NEW f, NEW a, NEW u, NEW x, WdGood(f, a, u, x), "DRQ" \in f.status,
           NEW g, g = wd17xx_read_data(f), NEW w, w = (u /\ ~g.intrq)
    PROVE  WdGood(g, a, w, x) /\ g.wr = f.wr
<1>0. /\ f \in WdState /\ f.pos \in Nat /\ f.rdsize \in Nat /\ u \in BOOLEAN /\ w \in BOOLEAN
      /\ f.wr => f.busy = 0 /\ f.rd = FALSE
      /\ u /\ x = "none" => f.busy > 0 \/ Running(f)
  BY DEF WdGood, WdState
<1>1. CASE f.rd /\ f.pos = f.rdsize - 1
  <2> DEFINE e == Finished(f)
  <2>1. g = [e EXCEPT !.rd = FALSE]
    BY <1>1 DEF wd17xx_read_data
  <2>2. /\ e \in WdState /\ Place(e) = Place(f) /\ e.intrq = TRUE /\ e.busy = f.busy /\ e.wr = f.wr
        /\ e.rd = f.rd
    BY <1>0, FinishedType
  <2> HIDE DEF e
  <2>3. /\ g \in WdState /\ Place(g) = Place(f) /\ g.intrq = TRUE /\ g.busy = f.busy /\ g.wr = f.wr
        /\ g.rd = FALSE
    BY ZenonT(60), <2>1, <2>2 DEF WdState, Place
  <2>4. w = FALSE
    BY <2>3
  <2> QED
    BY <1>0, <2>3, <2>4, PlaceGood
<1>2. CASE f.rd /\ (f.rdsize = 0 \/ f.pos < f.rdsize - 1)
  <2> DEFINE n == f.pos + 1
  <2>1. g = [f EXCEPT !.pos = n] /\ n \in Nat /\ (f.rdsize = 0 \/ n < f.rdsize)
    BY <1>0, <1>2 DEF wd17xx_read_data
  <2> HIDE DEF n
  <2>2. /\ g \in WdState /\ Place(g) = Place(f) /\ g.busy = f.busy /\ g.wr = f.wr
        /\ g.rd = f.rd /\ g.pos = n /\ g.rdsize = f.rdsize /\ g.status = f.status
    BY <1>0, <2>1 DEF WdState, Place
  <2>3. Running(f) => Running(g)
    <3>1. f.wr = FALSE
      BY <1>0, <1>2 DEF WdState
    <3> QED
      BY <1>0, <1>2, <2>1, <2>2, <3>1 DEF Running
  <2>4. w /\ x = "none" => g.busy > 0 \/ Running(g)
    BY <1>0, <2>2, <2>3
  <2> QED
    BY <1>0, <2>2, <2>4, PlaceGood
<1>3. CASE ~f.rd \/ (f.rdsize # 0 /\ f.pos > f.rdsize - 1)
  <2>1. g = f
    BY <1>0, <1>3 DEF wd17xx_read_data
  <2>2. w /\ x = "none" => g.busy > 0 \/ Running(g)
    BY <1>0, <2>1
  <2> QED
    BY <1>0, <2>1, <2>2, PlaceGood
<1> QED
  BY <1>0, <1>1, <1>2, <1>3

LEMMA WriteDataGood ==
    ASSUME NEW f, NEW a, NEW u, NEW x, WdGood(f, a, u, x), Loaded(f), NEW v, v \in 0 .. 255,
           NEW g, g = wd17xx_write_data(f, v), NEW w, w = (u /\ ~g.intrq)
    PROVE  WdGood(g, a, w, x)
<1> DEFINE c == Disk(f).secsize
<1>0. /\ f \in WdState /\ f.pos \in Nat /\ u \in BOOLEAN /\ w \in BOOLEAN /\ f.drive # NO_DRIVE
      /\ f.buf0 \in 0 .. 255
      /\ f.wr => f.busy = 0 /\ f.rd = FALSE
      /\ u /\ x = "none" => f.busy > 0 \/ Running(f)
  BY DEF WdGood, WdState, Loaded
<1>1. c \in Nat
  BY <1>0, DiskType
<1>2. CASE ~f.wr
  <2>1. g = [f EXCEPT !.buf0 = v]
    BY <1>2 DEF wd17xx_write_data
  <2>2. /\ g \in WdState /\ Place(g) = Place(f) /\ g.busy = f.busy /\ g.wr = f.wr
        /\ g.rd = f.rd /\ g.pos = f.pos /\ g.rdsize = f.rdsize /\ g.status = f.status
    BY <1>0, <2>1 DEF WdState, Place
  <2>3. Running(f) => Running(g)
    BY <1>2, <2>2 DEF Running
  <2>4. w /\ x = "none" => g.busy > 0 \/ Running(g)
    BY <1>0, <2>2, <2>3
  <2> QED
    BY <1>0, <2>2, <2>4, PlaceGood
<1>3. CASE f.wr /\ f.pos >= c
  <2>1. g = f
    BY <1>3 DEF wd17xx_write_data
  <2>2. w /\ x = "none" => g.busy > 0 \/ Running(g)
    BY <1>0, <2>1
  <2> QED
    BY <1>0, <2>1, <2>2, PlaceGood
<1>4. CASE f.wr /\ ~(f.pos >= c)
  <2> DEFINE n == f.pos + 1
             b == IF f.pos = 0 THEN v ELSE f.buf0
             h == [f EXCEPT !.pos = n, !.buf0 = b]
             e == Finished(h)
  <2>1. g = IF h.pos = c THEN [e EXCEPT !.wr = FALSE] ELSE h
    BY <1>4 DEF wd17xx_write_data
  <2>2. n \in Nat /\ n <= c /\ b \in 0 .. 255
    BY <1>0, <1>1, <1>4
  <2> HIDE DEF n, b
  <2>3. /\ h \in WdState /\ Place(h) = Place(f) /\ h.busy = f.busy /\ h.wr = f.wr
        /\ h.rd = f.rd /\ h.pos = n /\ h.status = f.status /\ h.drive = f.drive
    BY ZenonT(60), <1>0, <2>2 DEF WdState, Place
  <2> HIDE DEF h
  <2>4. e \in WdState /\ Place(e) = Place(f) /\ e.intrq = TRUE
    BY <2>3, FinishedType
  <2> HIDE DEF e
  <2>5. CASE n = c
    <3>1. g = [e EXCEPT !.wr = FALSE]
      BY <2>1, <2>3, <2>5
    <3>2. g \in WdState /\ Place(g) = Place(f) /\ g.intrq = TRUE /\ g.wr = FALSE
      <4>1. e \in WdState
        BY <2>4
      <4>2. /\ g \in WdState /\ g.intrq = e.intrq /\ g.wr = FALSE /\ g.drive = e.drive
            /\ g.track = e.track /\ g.side = e.side /\ g.sector = e.sector
        BY ZenonT(60), <3>1, <4>1 DEF WdState
      <4>3. Place(g) = Place(e)
        BY <4>2 DEF Place
      <4> QED
        BY <2>4, <4>2, <4>3
    <3>3. w = FALSE
      BY <3>2
    <3> QED
      BY <3>2, <3>3, PlaceGood
  <2>6. CASE n # c
    <3>1. g = h /\ n < c
      BY <1>1, <2>1, <2>2, <2>3, <2>6
    <3>2. Running(f) => Running(g)
      BY <1>0, <1>4, <2>3, <3>1 DEF Running, Disk
    <3>3. w /\ x = "none" => g.busy > 0 \/ Running(g)
      BY <1>0, <2>3, <3>1, <3>2
    <3> QED
      BY <1>0, <2>3, <3>1, <3>3, PlaceGood
  <2> QED
    BY <2>5, <2>6
<1> QED
  BY <1>2, <1>3, <1>4

LEMMA StatusGood ==
    ASSUME NEW f, NEW a, NEW u, NEW x, WdGood(f, a, u, x),
           NEW g, g = wd17xx_status(f) \/ g = wd17xx_status_noclear(f), NEW w, w = (u /\ ~g.intrq)
    PROVE  WdGood(g, a, w, x) /\ g.wr = f.wr
<1> DEFINE n == IF f.busy > 0 THEN f.busy - 1 ELSE 0
           s == f.status \ {"BUSY"}
<1>0. /\ f \in WdState /\ f.busy \in 0 .. BusyReads /\ u \in BOOLEAN /\ w \in BOOLEAN
      /\ f.wr => f.busy = 0 /\ f.rd = FALSE
      /\ u /\ x = "none" => f.busy > 0 \/ Running(f)
      /\ 0 \in 0 .. BusyReads /\ s \in SUBSET StatusBit
  BY WdAssumption DEF WdGood, WdState
<1>1. CASE f.busy # 1
  <2>1. n \in 0 .. BusyReads /\ (f.busy > 0 <=> n > 0) /\ (f.busy = 0 => n = 0)
    BY <1>0, <1>1, WdAssumption
  <2>2. g = [f EXCEPT !.intrq = FALSE, !.busy = n] \/ g = [f EXCEPT !.busy = n]
    BY <1>1 DEF wd17xx_status, wd17xx_status_noclear
  <2> HIDE DEF n
  <2>3. /\ g \in WdState /\ Place(g) = Place(f) /\ g.busy = n /\ g.wr = f.wr /\ g.drive = f.drive
        /\ g.rd = f.rd /\ g.pos = f.pos /\ g.rdsize = f.rdsize /\ g.status = f.status
    <3>1. f \in WdState /\ n \in 0 .. BusyReads
      BY <1>0, <2>1
    <3>2. /\ g \in WdState /\ g.busy = n /\ g.wr = f.wr /\ g.drive = f.drive
          /\ g.rd = f.rd /\ g.pos = f.pos /\ g.rdsize = f.rdsize /\ g.status = f.status
          /\ g.track = f.track /\ g.side = f.side /\ g.sector = f.sector
      <4>1. CASE g = [f EXCEPT !.busy = n]
        BY <3>1, <4>1 DEF WdState
      <4>2. CASE g = [f EXCEPT !.intrq = FALSE, !.busy = n]
        <5> DEFINE m == [f EXCEPT !.busy = n]
        <5>1. /\ m \in WdState /\ m.busy = n /\ m.wr = f.wr /\ m.drive = f.drive
              /\ m.rd = f.rd /\ m.pos = f.pos /\ m.rdsize = f.rdsize /\ m.status = f.status
              /\ m.track = f.track /\ m.side = f.side /\ m.sector = f.sector
          BY <3>1 DEF WdState
        <5>2. g = [m EXCEPT !.intrq = FALSE]
          BY <3>1, <4>2 DEF WdState
        <5> HIDE DEF m
        <5>3. g \in WdState
          BY <5>1, <5>2, IntrqType
        <5> QED
          BY ZenonT(60), <5>1, <5>2, <5>3 DEF WdState
      <4> QED
        BY <2>2, <4>1, <4>2
    <3> QED
      BY <3>2 DEF Place
  <2>4. Running(f) => Running(g)
    BY <2>3 DEF Running, Disk
  <2>5. w /\ x = "none" => g.busy > 0 \/ Running(g)
    BY <1>0, <2>1, <2>3, <2>4
  <2>6. g.wr => g.busy = 0 /\ g.rd = FALSE
    BY <1>0, <2>1, <2>3
  <2> QED
    BY <1>0, <2>3, <2>5, <2>6, PlaceGood
<1>2. CASE f.busy = 1
  <2>1. g = [f EXCEPT !.busy = 0, !.status = s, !.intrq = TRUE]
    BY <1>2 DEF wd17xx_status, wd17xx_status_noclear
  <2> HIDE DEF s
  <2>2. /\ g \in WdState /\ Place(g) = Place(f) /\ g.busy = 0 /\ g.wr = f.wr /\ g.intrq = TRUE
        /\ g.rd = f.rd
    <3>1. f \in WdState /\ 0 \in 0 .. BusyReads /\ s \in SUBSET StatusBit
      BY <1>0
    <3>2. g \in WdState
      <4> DEFINE m == [f EXCEPT !.busy = 0, !.status = s]
      <4>1. m \in WdState
        BY ZenonT(60), <3>1 DEF WdState
      <4>2. g = [m EXCEPT !.intrq = TRUE]
        BY <2>1
      <4> HIDE DEF m
      <4> QED
        BY <4>1, <4>2, IntrqType
    <3>3. /\ g.busy = 0 /\ g.wr = f.wr /\ g.rd = f.rd /\ g.intrq = TRUE /\ g.drive = f.drive
          /\ g.track = f.track /\ g.side = f.side /\ g.sector = f.sector
      BY <2>1, <3>1 DEF WdState
    <3> QED
      BY <3>2, <3>3 DEF Place
  <2>3. w = FALSE
    BY <2>2
  <2> QED
    BY <1>0, <2>2, <2>3, PlaceGood
<1> QED
  BY <1>1, <1>2

LEMMA BegunFresh ==
    ASSUME NEW f \in WdState, Loaded(f), f.track < MaxTrack
    PROVE  Fresh(Begun(f)) /\ Mismatch(Begun(f)) = Mismatch(f)
<1> DEFINE b == {"BUSY"}
           m == [f EXCEPT !.status = b, !.busy = BusyReads, !.rd = FALSE, !.wr = FALSE, !.pos = 0]
           g == Begun(f)
<1>1. b \in SUBSET StatusBit /\ BusyReads \in 0 .. BusyReads /\ BusyReads > 0 /\ MaxTrack \in 0 .. 127
      /\ f.track \in 0 .. 255
  BY WdAssumption DEF StatusBit, WdState
<1>2. g = [m EXCEPT !.intrq = FALSE]
  BY DEF Begun
<1> HIDE DEF b
<1>3. /\ m \in WdState /\ m.status = b /\ m.busy = BusyReads /\ m.rd = FALSE /\ m.wr = FALSE
      /\ m.pos = 0 /\ m.track = f.track /\ m.drive = f.drive /\ m.density = f.density
  BY ZenonT(60), <1>1 DEF WdState
<1> HIDE DEF m, g
<1>4. g \in WdState
  BY <1>2, <1>3, IntrqType
<1>5. /\ g.status = b /\ g.busy = BusyReads /\ g.rd = FALSE /\ g.wr = FALSE
      /\ g.pos = 0 /\ g.track = f.track /\ g.drive = f.drive /\ g.density = f.density
  BY <1>2, <1>3 DEF WdState
<1>6. Loaded(g) /\ Mismatch(g) = Mismatch(f)
  BY <1>5 DEF Loaded, Mismatch, Disk
<1>7. g.track < 128
  BY <1>1, <1>5
<1> QED
  BY <1>1, <1>4, <1>5, <1>6, <1>7 DEF Fresh, g, b

LEMMA PlaceType ==
    ASSUME NEW f \in WdState
    PROVE  Place(f) \in WdPlace
  BY DEF Place, WdPlace, WdState

\* Every access of the host keeps the controller in order.
LEMMA WdStepGood ==
    ASSUME WdInv, WdNext
    PROVE  WdGood(fdc', asked', untold', excuse')
<1>0. WdGood(fdc, asked, untold, excuse) /\ fdc \in WdState
  BY DEF WdInv, WdGood
<1>1. ASSUME WdSetting  PROVE WdGood(fdc', asked', untold', excuse')
  <2>1. /\ fdc' \in WdState /\ fdc'.wr = fdc.wr /\ fdc'.rd = fdc.rd /\ fdc'.pos = fdc.pos
        /\ fdc'.rdsize = fdc.rdsize /\ fdc'.busy = fdc.busy /\ fdc'.status = fdc.status
    <3>1. CASE \E v \in WdTrack : fdc' = [fdc EXCEPT !.track = v]
      BY <1>0, <3>1, WdAssumption DEF WdState
    <3>2. CASE \E v \in WdSector : fdc' = [fdc EXCEPT !.sector = v]
      BY <1>0, <3>2, WdAssumption DEF WdState
    <3>3. CASE \E d \in WdDrive \cup {NO_DRIVE} : fdc' = [fdc EXCEPT !.drive = d]
      BY <1>0, <3>3 DEF WdState
    <3>4. CASE \E s \in {0, 1} : fdc' = [fdc EXCEPT !.side = s]
      BY <1>0, <3>4 DEF WdState
    <3>5. CASE \E d \in WdDensity : fdc' = [fdc EXCEPT !.density = d]
      BY <1>0, <3>5, WdAssumption DEF WdState
    <3> QED
      BY <1>1, <3>1, <3>2, <3>3, <3>4, <3>5 DEF WdSetting
  <2>2. /\ asked' = asked /\ untold' = untold
        /\ excuse' = IF fdc.wr /\ Place(fdc') # Place(fdc) THEN "moved" ELSE excuse
    BY <1>1 DEF WdSetting
  <2> QED
    BY <1>0, <2>1, <2>2, SettingGood
<1>2. ASSUME WdReadData  PROVE WdGood(fdc', asked', untold', excuse')
  <2>1. /\ "DRQ" \in fdc.status /\ fdc' = wd17xx_read_data(fdc) /\ untold' = (untold /\ ~fdc'.intrq)
        /\ asked' = asked /\ excuse' = excuse
    BY <1>2 DEF WdReadData, Told
  <2> QED
    BY <1>0, <2>1, ReadDataGood
<1>3. ASSUME WdWriteData  PROVE WdGood(fdc', asked', untold', excuse')
  <2>1. PICK v \in WdTrack : fdc' = wd17xx_write_data(fdc, v)
    BY <1>3 DEF WdWriteData
  <2>2. /\ Loaded(fdc) /\ untold' = (untold /\ ~fdc'.intrq) /\ asked' = asked /\ excuse' = excuse
        /\ v \in 0 .. 255
    BY <1>3, WdAssumption DEF WdWriteData, Told
  <2> QED
    BY <1>0, <2>1, <2>2, WriteDataGood
<1>4. ASSUME WdStatus  PROVE WdGood(fdc', asked', untold', excuse')
  <2>1. /\ fdc' = wd17xx_status(fdc) \/ fdc' = wd17xx_status_noclear(fdc)
        /\ untold' = (untold /\ ~fdc'.intrq) /\ asked' = asked /\ excuse' = excuse
    BY <1>4 DEF WdStatus, Told
  <2> QED
    BY <1>0, <2>1, StatusGood
<1>5. ASSUME WdEmpty  PROVE WdGood(fdc', asked', untold', excuse')
  <2>1. /\ ~Loaded(fdc) /\ fdc' = [fdc EXCEPT !.status = {"NOTREADY"}]
        /\ excuse' = "empty" /\ asked' = asked /\ untold' = untold
    BY <1>5 DEF WdEmpty
  <2>2. {"NOTREADY"} \in SUBSET StatusBit
    BY DEF StatusBit
  <2>3. Apart(fdc, fdc')
    BY <1>0, <2>1, <2>2, StatusApart
  <2>4. Settled(fdc', asked', excuse')
    BY <2>1, <2>3 DEF Settled, Loaded, Apart
  <2> QED
    BY <1>0, <2>1, <2>3, <2>4 DEF WdGood, Apart
<1>6. ASSUME WdForce  PROVE WdGood(fdc', asked', untold', excuse')
  <2>1. PICK told \in BOOLEAN : fdc' = ForceInterrupt(fdc, told)
    BY <1>6 DEF WdForce
  <2>2. untold' = FALSE /\ excuse' = "none" /\ asked' = asked
    BY <1>6 DEF WdForce
  <2> DEFINE s == IF "BUSY" \in fdc.status THEN fdc.status \ {"BUSY"} ELSE {}
             i == fdc.intrq \/ told
             m == [fdc EXCEPT !.rd = FALSE, !.wr = FALSE, !.pos = 0, !.busy = 0, !.status = s]
  <2>3. s \in SUBSET StatusBit /\ i \in BOOLEAN /\ 0 \in 0 .. BusyReads
    BY <1>0, WdAssumption DEF WdState
  <2>4. fdc' = [m EXCEPT !.intrq = i]
    BY <1>0, <2>1 DEF ForceInterrupt, WdState
  <2> HIDE DEF s, i
  <2>5. m \in WdState /\ m.wr = FALSE
    BY ZenonT(60), <1>0, <2>3 DEF WdState
  <2> HIDE DEF m
  <2>6. fdc' \in WdState /\ fdc'.wr = FALSE
    <3>1. fdc' \in WdState
      BY <2>3, <2>4, <2>5, IntrqType
    <3> QED
      BY <2>4, <2>5, <3>1 DEF WdState
  <2> QED
    BY <1>0, <2>2, <2>6 DEF WdGood
<1>7. ASSUME WdRefused  PROVE WdGood(fdc', asked', untold', excuse')
  <2>1. /\ fdc' = [fdc EXCEPT !.busy = 0] /\ asked' = asked /\ untold' = untold
        /\ excuse' = IF fdc.busy > 0 THEN "refused" ELSE excuse
    BY <1>7 DEF WdRefused
  <2>2. 0 \in 0 .. BusyReads /\ fdc.busy \in 0 .. BusyReads
    BY <1>0, WdAssumption DEF WdState
  <2>3. /\ fdc' \in WdState /\ fdc'.busy = 0 /\ fdc'.wr = fdc.wr /\ fdc'.drive = fdc.drive
        /\ fdc'.rd = fdc.rd /\ fdc'.pos = fdc.pos /\ fdc'.rdsize = fdc.rdsize
        /\ fdc'.status = fdc.status /\ fdc'.track = fdc.track /\ fdc'.side = fdc.side
        /\ fdc'.sector = fdc.sector
    BY <1>0, <2>1, <2>2 DEF WdState
  <2>4. CASE fdc.busy > 0
    <3>1. excuse' = "refused" /\ fdc.wr = FALSE
      BY <1>0, <2>1, <2>2, <2>4 DEF WdGood, WdState
    <3> QED
      BY <1>0, <2>1, <2>3, <3>1 DEF WdGood
  <2>5. CASE ~(fdc.busy > 0)
    <3>1. excuse' = excuse /\ Place(fdc') = Place(fdc)
      BY <2>1, <2>3, <2>5 DEF Place
    <3>2. Running(fdc) => Running(fdc')
      BY <2>3 DEF Running, Disk
    <3>3. untold' \in BOOLEAN /\ (untold' /\ excuse = "none" => fdc'.busy > 0 \/ Running(fdc'))
      BY <1>0, <2>1, <2>5, <3>2 DEF WdGood
    <3>4. fdc'.wr => fdc'.busy = 0 /\ fdc'.rd = FALSE
      BY <1>0, <2>3 DEF WdGood
    <3> QED
      BY ZenonT(60), <1>0, <2>1, <2>3, <3>1, <3>3, <3>4, PlaceGood
  <2> QED
    BY <2>4, <2>5
<1>8. ASSUME WdCommand  PROVE WdGood(fdc', asked', untold', excuse')
  <2> DEFINE b == Begun(fdc)
             g == fdc'
  <2>1. PICK v \in BOOLEAN, s \in {0, 1} : g \in Command(b, v, s)
    BY <1>8 DEF WdCommand
  <2>2. /\ asked' = Place(IF g.wr THEN g ELSE WdCreated) /\ untold' = ~g.intrq
        /\ excuse' = IF Mismatch(fdc) /\ (g.rd \/ g.wr) THEN "density" ELSE "none"
        /\ Loaded(fdc) /\ fdc.track < MaxTrack
    BY <1>8 DEF WdCommand
  <2>3. Fresh(b) /\ Mismatch(b) = Mismatch(fdc)
    BY <1>0, <2>2, BegunFresh
  <2> HIDE DEF b
  <2>4. Outcome(b, g)
    BY <2>1, <2>3, CommandOutcome
  <2>5. g \in WdState /\ g.drive = b.drive
    BY <2>4 DEF Outcome
  <2>6. Loaded(g)
    BY <2>3, <2>5 DEF Fresh, Loaded
  <2>7. asked' \in WdPlace
    <3>1. WdCreated \in WdState
      <4>1. 0 \in 0 .. BusyReads /\ 0 \in 0 .. 255 /\ 0 \in WdDrive
        BY WdAssumption
      <4> QED
        BY <4>1 DEF WdCreated, WdState
    <3> QED
      BY <2>2, <2>5, <3>1, PlaceType
  <2>8. g.wr => Settled(g, asked', excuse')
    BY <2>2, <2>4, <2>6 DEF Outcome, Settled
  <2>9. untold' /\ excuse' = "none" => g.busy > 0 \/ Running(g)
    BY <2>2, <2>3, <2>4 DEF Outcome
  <2>10. untold' \in BOOLEAN /\ excuse' \in {"none", "density"}
    BY <2>2
  <2>11. g.wr => g.busy = 0 /\ g.rd = FALSE
    BY <2>4 DEF Outcome
  <2> QED
    BY <2>5, <2>7, <2>8, <2>9, <2>10, <2>11 DEF WdGood
<1> QED
  BY <1>1, <1>2, <1>3, <1>4, <1>5, <1>6, <1>7, <1>8 DEF WdNext

LEMMA WdStep ==
    ASSUME WdInv, [WdNext]_wdVars
    PROVE  WdInv'
<1>1. CASE WdNext
  BY <1>1, WdStepGood DEF WdInv, WdGood, Running, Settled, Loaded, Disk, Place, WdState, WdPlace
<1>2. CASE UNCHANGED wdVars
  BY <1>2 DEF wdVars, WdInv, WdGood, Running, Settled, Loaded, Disk, Place, WdState, WdPlace
<1> QED
  BY <1>1, <1>2

LEMMA WdInvImplies == WdInv => WdTypeOK /\ WdEndIsTold
  BY DEF WdInv, WdGood, Running, WdTypeOK, WdEndIsTold

\* Every command of the floppy controller, the ones it does not emulate too,
\* ends in an interrupt or still has the count or a transfer running to get
\* there, for every disk and every order of commands, data and status reads;
\* the four ways to lose it are the ones the history names.
THEOREM FloppyTells == WdSpec => []WdEndIsTold
<1>1. WdInv /\ [WdNext]_wdVars => WdInv'
  BY WdStep
<1>2. WdInv => WdEndIsTold
  BY WdInvImplies
<1> QED
  BY <1>1, <1>2, WdCreatedOk, PTL DEF WdSpec

\* Without a disk nothing ends a write.
LEMMA EmptyKeepsWrite ==
    ASSUME WdInv, [WdNext]_wdVars, ~Loaded(fdc)
    PROVE  fdc'.wr = fdc.wr
<1>0. WdGood(fdc, asked, untold, excuse) /\ fdc \in WdState
  BY DEF WdInv, WdGood
<1>1. CASE WdSetting
  BY <1>0, <1>1 DEF WdSetting, WdState
<1>2. CASE WdReadData
  <2>1. /\ "DRQ" \in fdc.status /\ fdc' = wd17xx_read_data(fdc) /\ untold' = (untold /\ ~fdc'.intrq)
    BY <1>2 DEF WdReadData, Told
  <2> QED
    BY <1>0, <2>1, ReadDataGood
<1>3. CASE WdStatus
  <2>1. /\ fdc' = wd17xx_status(fdc) \/ fdc' = wd17xx_status_noclear(fdc)
        /\ untold' = (untold /\ ~fdc'.intrq)
    BY <1>3 DEF WdStatus, Told
  <2> QED
    BY <1>0, <2>1, StatusGood
<1>4. CASE WdEmpty
  BY <1>0, <1>4 DEF WdEmpty, WdState
<1>5. CASE UNCHANGED wdVars
  BY <1>5 DEF wdVars
<1> QED
  BY <1>1, <1>2, <1>3, <1>4, <1>5 DEF WdNext, WdWriteData, WdForce, WdRefused, WdCommand

\* Where a sector is: the sides of a track follow one another.
LEMMA DiskPlace ==
    ASSUME NEW t \in Nat, NEW n \in Nat, t < n, NEW c \in Nat \ {0}, NEW k \in 1 .. c,
           NEW d \in {1, 2}, NEW s \in {0, 1}, s < d,
           NEW p, p = t * c * d + k - 1 + (IF d = 2 /\ s = 1 THEN c ELSE 0)
    PROVE  p = (t * d + s) * c + k - 1 /\ p \in 0 .. n * d * c - 1
<1> DEFINE z == t * c
           y == n * c
<1>1. z \in Nat /\ y \in Nat /\ z + c <= y
  <2>1. t + 1 <= n
    OBVIOUS
  <2>2. (t + 1) * c <= n * c
    BY <2>1
  <2> QED
    BY <2>2
<1>2. CASE d = 1
  <2>1. s = 0 /\ p = z + k - 1 /\ (t * d + s) * c = z /\ n * d * c = y
    BY <1>2
  <2> HIDE DEF z, y
  <2> QED
    BY <1>1, <2>1
<1>3. CASE d = 2
  <2>1. p = 2 * z + k - 1 + (IF s = 1 THEN c ELSE 0) /\ (t * d + s) * c = 2 * z + s * c
        /\ n * d * c = 2 * y
    BY <1>3
  <2> HIDE DEF z, y
  <2> QED
    BY <1>1, <2>1
<1> QED
  BY <1>2, <1>3

\* A sector of the floppy image is written only at the place that belongs to
\* the track, side and sector of the command that was given, inside the image,
\* for every geometry.
THEOREM FloppyWrites == WdSpec => WdWritesAsked
<1> DEFINE Right ==
             LET d == Disk(fdc)
             IN  fdc.wr /\ ~fdc'.wr /\ fdc'.pos # 0 /\ excuse # "moved" /\ asked.side < d.sides =>
                   /\ fdc.drive = asked.drive
                   /\ wd17xx_diskseek(fdc) = (asked.track * d.sides + asked.side) * d.spt
                                                 + asked.sector - 1
                   /\ wd17xx_diskseek(fdc) \in 0 .. d.tracks * d.sides * d.spt - 1
<1>1. ASSUME WdInv, [WdNext]_wdVars  PROVE Right
  <2> SUFFICES ASSUME fdc.wr, ~fdc'.wr, excuse # "moved", asked.side < Disk(fdc).sides
               PROVE  /\ fdc.drive = asked.drive
                      /\ wd17xx_diskseek(fdc) =
                           (asked.track * Disk(fdc).sides + asked.side) * Disk(fdc).spt
                               + asked.sector - 1
                      /\ wd17xx_diskseek(fdc) \in
                           0 .. Disk(fdc).tracks * Disk(fdc).sides * Disk(fdc).spt - 1
    OBVIOUS
  <2>1. Loaded(fdc)
    BY <1>1, EmptyKeepsWrite
  <2>2. /\ asked = Place(fdc) /\ fdc.track < Disk(fdc).tracks
        /\ fdc.sector \in 1 .. Disk(fdc).spt /\ fdc \in WdState
    BY <1>1, <2>1 DEF WdInv, WdGood, Settled
  <2>3. /\ fdc.drive # NO_DRIVE /\ fdc.track \in Nat /\ fdc.side \in {0, 1}
        /\ asked.drive = fdc.drive /\ asked.track = fdc.track /\ asked.side = fdc.side
        /\ asked.sector = fdc.sector
    BY <2>1, <2>2 DEF Loaded, Place, WdState
  <2>4. Disk(fdc).tracks \in Nat /\ Disk(fdc).sides \in {1, 2} /\ Disk(fdc).spt \in Nat \ {0}
    BY <2>2, <2>3, DiskType
  <2>5. wd17xx_diskseek(fdc) =
          fdc.track * Disk(fdc).spt * Disk(fdc).sides + fdc.sector - 1
              + (IF Disk(fdc).sides = 2 /\ fdc.side = 1 THEN Disk(fdc).spt ELSE 0)
    BY DEF wd17xx_diskseek
  <2>6. fdc.side < Disk(fdc).sides
    BY <2>3
  <2>7. /\ wd17xx_diskseek(fdc) =
             (fdc.track * Disk(fdc).sides + fdc.side) * Disk(fdc).spt + fdc.sector - 1
        /\ wd17xx_diskseek(fdc) \in
             0 .. Disk(fdc).tracks * Disk(fdc).sides * Disk(fdc).spt - 1
    BY <2>2, <2>3, <2>4, <2>5, <2>6, DiskPlace
  <2> QED
    BY <2>3, <2>7
<1>2. WdInv /\ [WdNext]_wdVars => WdInv' /\ [Right]_wdVars
  BY <1>1, WdStep
<1> QED
  BY <1>2, WdCreatedOk, PTL DEF WdSpec, WdWritesAsked

-----------------------------------------------------------------------------
(* The SD card *)

SdReader ==
    [at : {"off", "ready", "command", "poll", "token", "read", "write"}, n : Nat,
     op : Byte, arg : Byte, data : Byte]

\* What the card will do once it has answered is what the host will take the
\* answer for.
SdReadyFor(c, op) ==
    /\ c.mode = IF ~Accepted(op, c.poststuff) THEN "idle"
                ELSE IF op = CMD(24) THEN "sync"
                ELSE IF OutputLength(op) > 0 THEN "out" ELSE "idle"
    /\ c.mode = "out" => c.outleft = OutputLength(op)
    /\ c.mode = "sync" => c.in = <<>>

SdPhase(c, h) ==
    /\ h.at = "off" => c.cs = TRUE /\ c.mode = "idle" /\ c.stuff = 0
    /\ h.at # "off" => c.cs = FALSE
    /\ h.at = "ready" => c.mode = "idle" /\ c.stuff = 0
    /\ h.at = "command" => /\ c.mode = "command" /\ c.stuff = 0
                           /\ c.cmdp = h.n /\ h.n \in 1 .. 5 /\ c.cmd = h.op
                           /\ h.n = 5 => c.lba = h.arg
    /\ h.at = "poll" => c.stuff > 0 /\ c.cmd = h.op /\ c.lba = h.arg /\ SdReadyFor(c, h.op)
    /\ h.at = "token" => c.mode = "sync" /\ c.stuff = 0 /\ c.lba = h.arg /\ c.in = <<>>
    /\ h.at = "read" => c.mode = "out" /\ c.stuff = 0 /\ c.outleft = h.n /\ h.n > 0
    /\ h.at = "write" => /\ c.mode = "in" /\ c.stuff = 0 /\ c.lba = h.arg
                         /\ Len(c.in) + h.n = SdInLength /\ h.n > 0
                         /\ \A i \in 1 .. Len(c.in) : c.in[i] = h.data
    /\ h.at \in {"command", "poll"} => h.op \in SdOp /\ h.arg \in SdArg
    /\ h.at \in {"command", "poll"} /\ h.op = CMD(24) => h.data \in SdData
    /\ h.at \in {"token", "write"} => h.op = CMD(24) /\ h.arg \in SdArg /\ h.data \in SdData

\* The card c, the host h and the blocks m of the image.
SdGood(c, h, m) ==
    /\ c \in SdState /\ Len(c.in) <= SdInLength /\ h \in SdReader
    /\ m \in [SdArg -> {<<>>} \cup [1 .. SdBlock -> SdData]]
    /\ SdPhase(c, h)

SdInv == SdGood(sd, reader, image)

LEMMA OutputType == \A op : OutputLength(op) \in Nat
  BY SdAssumption DEF OutputLength

LEMMA SdSizes ==
    /\ SdInLength \in Nat /\ SdInLength = SdBlock + 3 /\ SdBlock \in Nat \ {0}
    /\ SdOp \subseteq 64 .. 127 /\ SdArg \subseteq Byte /\ SdData \subseteq Byte
    /\ SdOp \subseteq Byte /\ SdStuff \subseteq Nat \ {0}
  BY SdAssumption DEF SdInLength, Byte

LEMMA BetweenType ==
    /\ Between("off") \in SdReader /\ Between("ready") \in SdReader
    /\ Between("off").at = "off" /\ Between("ready").at = "ready"
  BY DEF Between, SdReader, Byte

LEMMA SdCreatedOk == SdInit => SdInv
<1> SUFFICES ASSUME SdInit  PROVE SdInv
  OBVIOUS
<1>1. /\ sd \in SdState /\ sd.cs = TRUE /\ sd.mode = "idle" /\ sd.stuff = 0 /\ sd.in = <<>>
  BY DEF SdInit, SdCreated, SdState, Byte
<1>2. Len(sd.in) <= SdInLength
  BY <1>1, SdSizes
<1>3. image \in [SdArg -> {<<>>} \cup [1 .. SdBlock -> SdData]]
  BY DEF SdInit
<1>4. reader \in SdReader /\ reader.at = "off"
  BY BetweenType DEF SdInit
<1>5. SdPhase(sd, reader)
  BY <1>1, <1>4 DEF SdPhase
<1> QED
  BY <1>1, <1>2, <1>3, <1>4, <1>5 DEF SdInv, SdGood

\* The select line and the reset.
LEMMA SelectType ==
    ASSUME NEW c \in SdState, Len(c.in) <= SdInLength
    PROVE  /\ sd_spi_lower_cs(c) \in SdState /\ sd_spi_lower_cs(c).in = c.in
           /\ sd_spi_lower_cs(c).cs = FALSE /\ sd_spi_lower_cs(c).mode = c.mode
           /\ sd_spi_lower_cs(c).stuff = c.stuff
           /\ sd_spi_raise_cs(c) \in SdState /\ sd_spi_raise_cs(c).in = c.in
           /\ sd_spi_raise_cs(c).cs = TRUE /\ sd_spi_raise_cs(c).mode = "idle"
           /\ sd_spi_raise_cs(c).stuff = c.stuff
           /\ sd_reset(c) \in SdState /\ sd_reset(c).in = c.in
           /\ sd_reset(c).cs = TRUE /\ sd_reset(c).mode = "idle"
           /\ sd_reset(c).stuff = c.stuff
<1>1. /\ sd_spi_lower_cs(c) \in SdState /\ sd_spi_lower_cs(c).in = c.in
      /\ sd_spi_lower_cs(c).cs = FALSE /\ sd_spi_lower_cs(c).mode = c.mode
      /\ sd_spi_lower_cs(c).stuff = c.stuff
  BY DEF sd_spi_lower_cs, SdState
<1>2. /\ sd_spi_raise_cs(c) \in SdState /\ sd_spi_raise_cs(c).in = c.in
      /\ sd_spi_raise_cs(c).cs = TRUE /\ sd_spi_raise_cs(c).mode = "idle"
      /\ sd_spi_raise_cs(c).stuff = c.stuff
  BY DEF sd_spi_raise_cs, SdState
<1>3. /\ sd_reset(c) \in SdState /\ sd_reset(c).in = c.in
      /\ sd_reset(c).cs = TRUE /\ sd_reset(c).mode = "idle"
      /\ sd_reset(c).stuff = c.stuff
  BY DEF sd_reset, SdState
<1> QED
  BY <1>1, <1>2, <1>3

\* The card while it swallows a byte.
LEMMA StuffedType ==
    ASSUME NEW c \in SdState, c.stuff > 0
    PROVE  /\ Stuffed(c) \in SdState /\ Stuffed(c).stuff = c.stuff - 1 /\ Stuffed(c).in = c.in
           /\ Stuffed(c).cs = c.cs /\ Stuffed(c).mode = c.mode /\ Stuffed(c).cmd = c.cmd
           /\ Stuffed(c).lba = c.lba /\ Stuffed(c).poststuff = c.poststuff
           /\ Stuffed(c).outleft = c.outleft
<1> DEFINE k == c.stuff - 1
<1>1. k \in Nat
  BY DEF SdState
<1>2. Stuffed(c) = [c EXCEPT !.stuff = k]
  BY DEF Stuffed
<1> HIDE DEF k
<1>3. /\ Stuffed(c) \in SdState /\ Stuffed(c).stuff = k /\ Stuffed(c).in = c.in
      /\ Stuffed(c).cs = c.cs /\ Stuffed(c).mode = c.mode /\ Stuffed(c).cmd = c.cmd
      /\ Stuffed(c).lba = c.lba /\ Stuffed(c).poststuff = c.poststuff
      /\ Stuffed(c).outleft = c.outleft
  BY Z3T(60), <1>1, <1>2 DEF SdState
<1> QED
  BY <1>3 DEF k

\* What follows the answer is what the host will take it for, whether the card
\* is in the middle of a prefix or not and whether the image delivers or not.
LEMMA ProcessReady ==
    ASSUME NEW c \in SdState, Len(c.in) <= SdInLength, NEW ok \in BOOLEAN, NEW n \in SdStuff,
           NEW r, r = sd_process_command(c, ok, n)
    PROVE  /\ r \in SdState /\ Len(r.in) <= SdInLength /\ r.stuff = n /\ r.stuff > 0
           /\ r.cmd = c.cmd /\ r.lba = c.lba /\ r.cs = c.cs
           /\ SdReadyFor(r, c.cmd)
<1> DEFINE reads == ~c.ext /\ OutputLength(c.cmd) > 0 /\ (c.cmd = CMD(17) => ok)
           sends == ~c.ext /\ c.cmd = CMD(24)
           p == Response(c, ok)
           x == ~c.ext /\ c.cmd = CMD(55)
           m == IF reads THEN "out" ELSE IF sends THEN "sync" ELSE "idle"
           o == IF reads THEN OutputLength(c.cmd) ELSE c.outleft
           i == IF sends THEN <<>> ELSE c.in
<1>1. r = [c EXCEPT !.stuff = n, !.poststuff = p, !.ext = x, !.mode = m, !.outleft = o, !.in = i]
  BY DEF sd_process_command
<1>2. /\ n \in Nat \ {0} /\ c.ext \in BOOLEAN /\ c.cmd \in Byte /\ c.outleft \in Nat
      /\ c.in \in Seq(Byte)
  BY SdSizes DEF SdState
<1>3. p \in {0, 1, 127}
  BY DEF Response
<1>4. x \in BOOLEAN
  BY <1>2
<1>5. m \in {"idle", "command", "out", "in", "sync"}
  OBVIOUS
<1>6. o \in Nat
  BY <1>2, OutputType
<1>7. i \in Seq(Byte) /\ Len(i) <= SdInLength
  BY <1>2, SdSizes
<1>8. /\ m = IF ~Accepted(c.cmd, p) THEN "idle"
             ELSE IF c.cmd = CMD(24) THEN "sync"
             ELSE IF OutputLength(c.cmd) > 0 THEN "out" ELSE "idle"
      /\ m = "out" => o = OutputLength(c.cmd)
      /\ m = "sync" => i = <<>>
  <2>1. m = "out" => o = OutputLength(c.cmd)
    OBVIOUS
  <2>2. m = "sync" => i = <<>>
    OBVIOUS
  <2>3. OutputLength(c.cmd) > 0 <=>
          c.cmd \in {CMD(8), CMD(58), CMD(9), CMD(10), CMD(13), CMD(17)}
    BY <1>2, SdSizes DEF OutputLength, CMD
  <2> DEFINE big == OutputLength(c.cmd) > 0
  <2>4. reads = (~c.ext /\ big /\ (c.cmd = CMD(17) => ok))
    OBVIOUS
  <2> HIDE DEF big
  <2>5. big <=> c.cmd \in {CMD(8), CMD(58), CMD(9), CMD(10), CMD(13), CMD(17)}
    BY <2>3 DEF big
  <2>6. m = IF ~Accepted(c.cmd, p) THEN "idle"
            ELSE IF c.cmd = CMD(24) THEN "sync"
            ELSE IF big THEN "out" ELSE "idle"
    <3>1. CASE c.ext
      <4>1. p = IF c.cmd = CMD(41) THEN 0 ELSE 127
        BY <3>1 DEF Response
      <4>2. m = "idle"
        BY <3>1
      <4>3. c.cmd = CMD(41) => c.cmd # CMD(24) /\ ~big
        BY <2>5 DEF CMD
      <4>4. c.cmd # CMD(41) => ~Accepted(c.cmd, p)
        BY <4>1 DEF Accepted
      <4> HIDE DEF m, p
      <4> QED
        BY <4>2, <4>3, <4>4
    <3>2. CASE ~c.ext /\ c.cmd = CMD(24)
      <4>1. ~big
        BY <2>5, <3>2 DEF CMD
      <4>2. m = "sync"
        BY <2>4, <3>2, <4>1
      <4>3. p = 0
        BY <3>2 DEF Response, CMD
      <4>4. Accepted(c.cmd, p)
        BY <3>2, <4>3 DEF Accepted, CMD
      <4> HIDE DEF m, p
      <4> QED
        BY <3>2, <4>2, <4>4
    <3>3. CASE ~c.ext /\ big /\ c.cmd # CMD(17)
      <4>1. m = "out" /\ c.cmd # CMD(24)
        BY <2>4, <2>5, <3>3 DEF CMD
      <4>2. p = IF c.cmd = CMD(8) THEN 1 ELSE 0
        BY <2>5, <3>3 DEF Response, CMD
      <4>3. Accepted(c.cmd, p)
        BY <4>2 DEF Accepted
      <4> HIDE DEF m, p
      <4> QED
        BY <3>3, <4>1, <4>3
    <3>4. CASE ~c.ext /\ c.cmd = CMD(17)
      <4>1. big /\ c.cmd # CMD(24) /\ c.cmd # CMD(8)
        BY <2>5, <3>4 DEF CMD
      <4>2. p = IF ok THEN 0 ELSE 1
        BY <3>4 DEF Response, CMD
      <4>3. ok => m = "out"
        BY <2>4, <3>4, <4>1
      <4>4. ~ok => m = "idle"
        BY <2>4, <3>4, <4>1
      <4>5. ok <=> Accepted(c.cmd, p)
        BY <4>1, <4>2 DEF Accepted
      <4> HIDE DEF m, p
      <4> QED
        BY <4>1, <4>3, <4>4, <4>5
    <3>5. CASE ~c.ext /\ ~big /\ c.cmd # CMD(24)
      <4>1. m = "idle"
        BY <2>4, <3>5
      <4> HIDE DEF m, p
      <4> QED
        BY <3>5, <4>1
    <3> QED
      BY <1>2, <3>1, <3>2, <3>3, <3>4, <3>5
  <2> QED
    BY <2>1, <2>2, <2>6 DEF big
<1> HIDE DEF p, x, m, o, i
<1>9. r \in SdState
  <2> DEFINE q == [c EXCEPT !.stuff = n, !.poststuff = p]
             t == [q EXCEPT !.ext = x, !.mode = m]
  <2>1. r = [t EXCEPT !.outleft = o, !.in = i]
    BY <1>1
  <2>2. q \in SdState
    BY <1>2, <1>3 DEF SdState
  <2> HIDE DEF q
  <2>3. t \in SdState
    BY <1>4, <1>5, <2>2 DEF SdState
  <2> HIDE DEF t
  <2> DEFINE v == [t EXCEPT !.outleft = o]
  <2>4. v \in SdState
    BY <1>6, <2>3 DEF SdState
  <2>5. r = [v EXCEPT !.in = i]
    BY <2>1
  <2> HIDE DEF v
  <2>6. i \in Seq(Byte)
    BY <1>7
  <2> HIDE DEF i
  <2> QED
    BY ZenonT(60), <2>4, <2>5, <2>6 DEF SdState
<1>10. /\ r.stuff = n /\ r.poststuff = p /\ r.mode = m /\ r.outleft = o /\ r.in = i
       /\ r.cmd = c.cmd /\ r.lba = c.lba /\ r.cs = c.cs
  BY <1>1 DEF SdState
<1>11. SdReadyFor(r, c.cmd)
  BY <1>8, <1>10 DEF SdReadyFor
<1> QED
  BY <1>2, <1>7, <1>9, <1>10, <1>11

LEMMA ModeType ==
    ASSUME NEW c \in SdState, NEW t \in {"idle", "command", "out", "in", "sync"},
           NEW r, r = [c EXCEPT !.mode = t]
    PROVE  r \in SdState
  BY DEF SdState

\* The first byte of a command, where the card waits for one.
LEMMA BeginGood ==
    ASSUME NEW c, NEW h, NEW m, SdGood(c, h, m), h.at = "ready",
           NEW op \in SdOp, NEW arg \in SdArg, NEW data \in Byte, op = CMD(24) => data \in SdData,
           NEW g, g = [at |-> "command", n |-> 1, op |-> op, arg |-> arg, data |-> data],
           NEW ok, NEW k, NEW r, r = sd_card_byte(c, op, ok, k)
    PROVE  SdGood(r, g, m)
<1>1. /\ c \in SdState /\ Len(c.in) <= SdInLength /\ c.cs = FALSE /\ c.mode = "idle" /\ c.stuff = 0
      /\ m \in [SdArg -> {<<>>} \cup [1 .. SdBlock -> SdData]]
  BY DEF SdGood, SdPhase
<1>2. op \notin {0, 255} /\ op \in Byte /\ arg \in Byte
  BY SdSizes
<1>3. r = [c EXCEPT !.mode = "command", !.cmdp = 1, !.cmd = op]
  BY <1>1, <1>2 DEF sd_card_byte, Opened
<1>4. /\ r \in SdState /\ r.mode = "command" /\ r.cmdp = 1 /\ r.cmd = op /\ r.cs = c.cs
      /\ r.stuff = c.stuff /\ r.in = c.in
  <2>1. c \in SdState /\ op \in Byte /\ 1 \in 0 .. 5
    BY <1>1, <1>2
  <2>2. r \in SdState
    <3> DEFINE q == [c EXCEPT !.mode = "command"]
    <3>1. r = [q EXCEPT !.cmdp = 1, !.cmd = op]
      BY <1>3
    <3>2. q \in SdState
      BY <2>1 DEF SdState
    <3> HIDE DEF q
    <3> QED
      BY ZenonT(60), <2>1, <3>1, <3>2 DEF SdState
  <2>3. /\ r.mode = "command" /\ r.cmdp = 1 /\ r.cmd = op /\ r.cs = c.cs
        /\ r.stuff = c.stuff /\ r.in = c.in
    BY <1>3, <2>1 DEF SdState
  <2> QED
    BY <2>2, <2>3
<1>5. /\ g \in SdReader /\ g.at = "command" /\ g.n = 1 /\ g.op = op /\ g.arg = arg /\ g.data = data
  BY <1>2 DEF SdReader
<1>6. SdPhase(r, g)
  BY <1>1, <1>4, <1>5 DEF SdPhase
<1> QED
  BY <1>1, <1>4, <1>5, <1>6 DEF SdGood

\* The bytes that follow; the last one runs the command.
LEMMA ArgumentGood ==
    ASSUME NEW c, NEW h, NEW m, SdGood(c, h, m), h.at = "command",
           NEW b, b = (IF h.n = 4 THEN h.arg ELSE 0),
           NEW ok \in BOOLEAN, NEW k \in SdStuff, NEW r, r = sd_card_byte(c, b, ok, k),
           NEW g, h.n < 5 => g = [h EXCEPT !.at = "command", !.n = h.n + 1],
           ~(h.n < 5) => g = [h EXCEPT !.at = "poll", !.n = 0]
    PROVE  SdGood(r, g, m)
<1> DEFINE l == IF c.cmdp = 4 THEN b ELSE c.lba
           d == [c EXCEPT !.lba = l]
           n1 == c.cmdp + 1
           x == [d EXCEPT !.cmdp = n1]
           y == [d EXCEPT !.cmdp = 0, !.mode = "idle"]
<1>1. /\ c \in SdState /\ Len(c.in) <= SdInLength /\ c.cs = FALSE /\ c.mode = "command"
      /\ c.stuff = 0 /\ c.cmdp = h.n /\ h.n \in 1 .. 5 /\ c.cmd = h.op
      /\ h.n = 5 => c.lba = h.arg
      /\ h \in SdReader /\ h.op \in SdOp /\ h.arg \in SdArg
      /\ h.op = CMD(24) => h.data \in SdData
      /\ m \in [SdArg -> {<<>>} \cup [1 .. SdBlock -> SdData]]
  BY DEF SdGood, SdPhase
<1>2. b \in Byte /\ l \in Byte /\ h.arg \in Byte
  BY Z3T(60), <1>1, SdSizes DEF SdState, Byte
<1>3. r = IF c.cmdp < 5 THEN x ELSE sd_process_command(y, ok, k)
  <2>1. r = Collected(c, b, ok, k)
    BY <1>1 DEF sd_card_byte
  <2>2. d.cmdp = c.cmdp
    BY <1>1 DEF SdState
  <2>3. Collected(c, b, ok, k) =
          IF c.cmdp < 5 THEN [d EXCEPT !.cmdp = @ + 1] ELSE sd_process_command(y, ok, k)
    BY DEF Collected
  <2>4. [d EXCEPT !.cmdp = @ + 1] = x
    BY <2>2
  <2> HIDE DEF d, x, y
  <2> QED
    BY <2>1, <2>3, <2>4 DEF x, y
<1>4. h.n = 4 => l = h.arg
  BY <1>1
<1>5. h.n = 5 => l = c.lba
  BY <1>1
<1> HIDE DEF l
<1>6. /\ d \in SdState /\ d.lba = l /\ d.in = c.in /\ d.cs = FALSE /\ d.mode = "command"
      /\ d.stuff = 0 /\ d.cmd = h.op
  BY <1>1, <1>2 DEF SdState
<1> HIDE DEF d
<1>7. CASE h.n < 5
  <2>1. r = x /\ n1 \in 0 .. 5 /\ n1 = h.n + 1 /\ n1 \in 1 .. 5 /\ n1 \in Nat
    BY <1>1, <1>3, <1>7
  <2>2. g = [h EXCEPT !.at = "command", !.n = n1]
    BY <1>7, <2>1
  <2> HIDE DEF n1
  <2>3. /\ r \in SdState /\ r.cmdp = n1 /\ r.lba = l /\ r.in = c.in /\ r.cs = FALSE
        /\ r.mode = "command" /\ r.stuff = 0 /\ r.cmd = h.op
    BY <1>6, <2>1 DEF SdState
  <2>4. /\ g \in SdReader /\ g.at = "command" /\ g.n = n1 /\ g.op = h.op /\ g.arg = h.arg
        /\ g.data = h.data
    <3>1. h \in SdReader /\ n1 \in Nat
      BY <1>1, <2>1
    <3> QED
      BY <2>2, <3>1 DEF SdReader
  <2>5. n1 = 5 => r.lba = h.arg
    BY <1>1, <1>4, <2>1, <2>3
  <2>6. SdPhase(r, g)
    BY <1>1, <2>1, <2>3, <2>4, <2>5 DEF SdPhase
  <2> QED
    BY <1>1, <2>3, <2>4, <2>6 DEF SdGood
<1>8. CASE h.n = 5
  <2>1. r = sd_process_command(y, ok, k) /\ ~(h.n < 5)
    BY <1>1, <1>3, <1>8
  <2>2. g = [h EXCEPT !.at = "poll", !.n = 0]
    BY <2>1
  <2>3. /\ y \in SdState /\ y.lba = l /\ y.in = c.in /\ y.cs = FALSE /\ y.cmd = h.op
    <3>1. 0 \in 0 .. 5
      OBVIOUS
    <3> QED
      BY ZenonT(60), <1>6, <3>1 DEF SdState
  <2> HIDE DEF y
  <2>4. /\ r \in SdState /\ Len(r.in) <= SdInLength /\ r.stuff > 0
        /\ r.cmd = y.cmd /\ r.lba = y.lba /\ r.cs = y.cs /\ SdReadyFor(r, y.cmd)
    BY <1>1, <2>1, <2>3, ProcessReady
  <2>5. /\ g \in SdReader /\ g.at = "poll" /\ g.op = h.op /\ g.arg = h.arg /\ g.data = h.data
    BY <1>1, <2>2 DEF SdReader
  <2>6. SdPhase(r, g)
    BY <1>1, <1>5, <1>8, <2>3, <2>4, <2>5 DEF SdPhase
  <2> QED
    BY <1>1, <2>4, <2>5, <2>6 DEF SdGood
<1> QED
  BY <1>1, <1>7, <1>8

\* Where the host goes when it has read the byte that the card holds out.
AfterPoll(c, h) ==
    IF ~Answers(c) THEN h
    ELSE IF ~Accepted(h.op, c.poststuff) THEN Between("ready")
    ELSE IF h.op = CMD(24) THEN [h EXCEPT !.at = "token", !.n = 0]
    ELSE IF OutputLength(h.op) > 0 THEN [h EXCEPT !.at = "read", !.n = OutputLength(h.op)]
    ELSE Between("ready")

\* A byte while the host waits for the answer: host and card go the same way.
LEMMA PollGood ==
    ASSUME NEW c, NEW h, NEW m, SdGood(c, h, m), h.at = "poll",
           NEW ok, NEW k, NEW r, r = sd_card_byte(c, 255, ok, k),
           NEW g,
           g = AfterPoll(c, h)
    PROVE  SdGood(r, g, m)
<1>0. g = IF ~Answers(c) THEN h
          ELSE IF ~Accepted(h.op, c.poststuff) THEN Between("ready")
          ELSE IF h.op = CMD(24) THEN [h EXCEPT !.at = "token", !.n = 0]
          ELSE IF OutputLength(h.op) > 0
               THEN [h EXCEPT !.at = "read", !.n = OutputLength(h.op)]
          ELSE Between("ready")
  BY DEF AfterPoll
<1>1. /\ c \in SdState /\ Len(c.in) <= SdInLength /\ c.cs = FALSE /\ c.stuff > 0 /\ c.stuff \in Nat
      /\ c.cmd = h.op /\ c.lba = h.arg /\ SdReadyFor(c, h.op)
      /\ h \in SdReader /\ h.op \in SdOp /\ h.arg \in SdArg
      /\ h.op = CMD(24) => h.data \in SdData
      /\ m \in [SdArg -> {<<>>} \cup [1 .. SdBlock -> SdData]]
  BY DEF SdGood, SdPhase, SdState
<1>2. r = Stuffed(c)
  BY <1>1 DEF sd_card_byte
<1>3. /\ r \in SdState /\ r.stuff = c.stuff - 1 /\ r.in = c.in /\ r.cs = c.cs /\ r.mode = c.mode
      /\ r.cmd = c.cmd /\ r.lba = c.lba /\ r.poststuff = c.poststuff /\ r.outleft = c.outleft
  BY <1>1, <1>2, StuffedType
<1>4. SdReadyFor(r, h.op)
  BY <1>1, <1>3 DEF SdReadyFor
<1>5. CASE ~Answers(c)
  <2>1. g = h /\ r.stuff > 0
    BY <1>0, <1>1, <1>3, <1>5 DEF Answers
  <2>2. SdPhase(r, h)
    BY <1>1, <1>3, <1>4, <2>1 DEF SdPhase
  <2> QED
    BY <1>1, <1>3, <2>1, <2>2 DEF SdGood
<1>6. CASE Answers(c)
  <2>1. r.stuff = 0
    BY <1>1, <1>3, <1>6 DEF Answers
  <2>2. CASE g = Between("ready") /\ r.mode = "idle"
    <3>1. g \in SdReader /\ g.at = "ready"
      BY <2>2, BetweenType
    <3>2. SdPhase(r, g)
      BY <1>1, <1>3, <2>1, <2>2, <3>1 DEF SdPhase
    <3> QED
      BY <1>1, <1>3, <3>1, <3>2 DEF SdGood
  <2>3. CASE Accepted(h.op, c.poststuff) /\ h.op = CMD(24)
    <3>1. g = [h EXCEPT !.at = "token", !.n = 0] /\ r.mode = "sync" /\ r.in = <<>>
      BY <1>0, <1>1, <1>3, <1>6, <2>3 DEF SdReadyFor
    <3>2. g \in SdReader /\ g.at = "token" /\ g.op = h.op /\ g.arg = h.arg /\ g.data = h.data
      <4>1. h \in SdReader /\ 0 \in Nat /\ g = [h EXCEPT !.at = "token", !.n = 0]
        BY <1>1, <3>1
      <4> QED
        BY <4>1 DEF SdReader
    <3>3. SdPhase(r, g)
      BY <1>1, <1>3, <2>1, <2>3, <3>1, <3>2 DEF SdPhase
    <3> QED
      BY <1>1, <1>3, <3>2, <3>3 DEF SdGood
  <2>4. CASE Accepted(h.op, c.poststuff) /\ h.op # CMD(24) /\ OutputLength(h.op) > 0
    <3> DEFINE z == OutputLength(h.op)
    <3>1. z \in Nat
      BY OutputType
    <3>2. /\ g = [h EXCEPT !.at = "read", !.n = z] /\ r.mode = "out" /\ r.outleft = z /\ z > 0
      BY <1>0, <1>1, <1>3, <1>6, <2>4 DEF SdReadyFor
    <3> HIDE DEF z
    <3>3. g \in SdReader /\ g.at = "read" /\ g.n = z
      BY ZenonT(60), <1>1, <3>1, <3>2 DEF SdReader
    <3>4. SdPhase(r, g)
      BY <1>1, <1>3, <2>1, <3>2, <3>3 DEF SdPhase
    <3> QED
      BY <1>1, <1>3, <3>3, <3>4 DEF SdGood
  <2>5. CASE ~Accepted(h.op, c.poststuff) \/ (h.op # CMD(24) /\ ~(OutputLength(h.op) > 0))
    <3>1. g = Between("ready") /\ r.mode = "idle"
      BY <1>0, <1>1, <1>3, <1>6, <2>5 DEF SdReadyFor
    <3> QED
      BY <2>2, <3>1
  <2> QED
    BY <2>3, <2>4, <2>5
<1> QED
  BY <1>5, <1>6

\* A byte of the block that is read.
LEMMA ReadByteGood ==
    ASSUME NEW c, NEW h, NEW m, SdGood(c, h, m), h.at = "read",
           NEW ok, NEW k, NEW r, r = sd_card_byte(c, 255, ok, k),
           NEW g, g = IF h.n > 1 THEN [h EXCEPT !.at = "read", !.n = h.n - 1] ELSE Between("ready")
    PROVE  SdGood(r, g, m)
<1> DEFINE o == c.outleft - 1
           t == IF c.outleft = 1 THEN "idle" ELSE c.mode
<1>1. /\ c \in SdState /\ Len(c.in) <= SdInLength /\ c.cs = FALSE /\ c.mode = "out" /\ c.stuff = 0
      /\ c.outleft = h.n /\ h.n > 0 /\ h.n \in Nat /\ h \in SdReader
      /\ m \in [SdArg -> {<<>>} \cup [1 .. SdBlock -> SdData]]
  BY DEF SdGood, SdPhase, SdReader
<1>2. r = [c EXCEPT !.outleft = o, !.mode = t]
  BY <1>1 DEF sd_card_byte, Sent
<1>3. o \in Nat /\ t \in {"idle", "command", "out", "in", "sync"} /\ o = h.n - 1
  BY <1>1
<1>4. (h.n = 1 => t = "idle") /\ (h.n # 1 => t = "out")
  BY <1>1
<1> HIDE DEF o, t
<1>5. r \in SdState /\ r.outleft = o /\ r.mode = t /\ r.in = c.in /\ r.cs = FALSE /\ r.stuff = 0
  <2>1. c \in SdState
    BY <1>1
  <2>2. r \in SdState
    <3> DEFINE q == [c EXCEPT !.outleft = o]
    <3>1. r = [q EXCEPT !.mode = t]
      BY <1>2
    <3>2. q \in SdState
      BY <1>3, <2>1 DEF SdState
    <3> HIDE DEF q
    <3> QED
      BY <1>3, <3>1, <3>2, ModeType
  <2>3. r.outleft = o /\ r.mode = t /\ r.in = c.in /\ r.cs = c.cs /\ r.stuff = c.stuff
    BY ZenonT(60), <1>2, <2>1 DEF SdState
  <2> QED
    BY <1>1, <2>2, <2>3
<1>6. CASE h.n > 1
  <2>1. g = [h EXCEPT !.at = "read", !.n = o] /\ o > 0 /\ t = "out"
    BY <1>1, <1>3, <1>4, <1>6
  <2>2. g \in SdReader /\ g.at = "read" /\ g.n = o
    BY <1>1, <1>3, <2>1 DEF SdReader
  <2>3. SdPhase(r, g)
    BY <1>5, <2>1, <2>2 DEF SdPhase
  <2> QED
    BY <1>1, <1>5, <2>2, <2>3 DEF SdGood
<1>7. CASE ~(h.n > 1)
  <2>1. g = Between("ready") /\ t = "idle"
    BY <1>1, <1>4, <1>7
  <2>2. g \in SdReader /\ g.at = "ready"
    BY <2>1, BetweenType
  <2>3. SdPhase(r, g)
    BY <1>5, <2>1, <2>2 DEF SdPhase
  <2> QED
    BY <1>1, <1>5, <2>2, <2>3 DEF SdGood
<1> QED
  BY <1>6, <1>7

\* The filler before the token that begins the data.
LEMMA FillerGood ==
    ASSUME NEW c, NEW h, NEW m, SdGood(c, h, m), h.at = "token",
           NEW ok, NEW k, NEW r, r = sd_card_byte(c, 255, ok, k)
    PROVE  SdGood(r, h, m)
<1>1. c.cs = FALSE /\ c.mode = "sync" /\ c.stuff = 0
  BY DEF SdGood, SdPhase
<1>2. r = c
  BY <1>1 DEF sd_card_byte, Synced
<1> QED
  BY <1>2

\* The token that begins the data.
LEMMA TokenGood ==
    ASSUME NEW c, NEW h, NEW m, SdGood(c, h, m), h.at = "token",
           NEW ok, NEW k, NEW r, r = sd_card_byte(c, 254, ok, k),
           NEW g, g = [h EXCEPT !.at = "write", !.n = SdInLength]
    PROVE  SdGood(r, g, m)
<1>1. /\ c \in SdState /\ Len(c.in) <= SdInLength /\ c.cs = FALSE /\ c.mode = "sync" /\ c.stuff = 0
      /\ c.in = <<>> /\ c.lba = h.arg /\ h \in SdReader /\ h.op = CMD(24) /\ h.arg \in SdArg
      /\ h.data \in SdData
      /\ m \in [SdArg -> {<<>>} \cup [1 .. SdBlock -> SdData]]
  BY DEF SdGood, SdPhase
<1>2. r = [c EXCEPT !.mode = "in"]
  BY <1>1 DEF sd_card_byte, Synced
<1>3. r \in SdState /\ r.mode = "in" /\ r.in = <<>> /\ r.cs = FALSE /\ r.stuff = 0 /\ r.lba = h.arg
  BY <1>1, <1>2 DEF SdState
<1>4. SdInLength \in Nat /\ SdInLength > 0
  BY SdSizes
<1>5. /\ g \in SdReader /\ g.at = "write" /\ g.n = SdInLength /\ g.op = h.op /\ g.arg = h.arg
      /\ g.data = h.data
  BY <1>1, <1>4 DEF SdReader
<1>6. Len(r.in) + g.n = SdInLength /\ Len(r.in) = 0 /\ \A i \in 1 .. Len(r.in) : r.in[i] = g.data
  BY <1>3, <1>4, <1>5
<1>7. SdPhase(r, g)
  BY <1>1, <1>3, <1>4, <1>5, <1>6 DEF SdPhase
<1> QED
  BY <1>1, <1>3, <1>4, <1>5, <1>6, <1>7 DEF SdGood

\* A byte of the block that is written.
LEMMA SdWriteByteGood ==
    ASSUME NEW c, NEW h, NEW m, SdGood(c, h, m), h.at = "write",
           NEW ok, NEW k, NEW r, r = sd_card_byte(c, h.data, ok, k),
           NEW g, g = IF h.n > 1 THEN [h EXCEPT !.at = "write", !.n = h.n - 1] ELSE Between("ready"),
           NEW n \in [SdArg -> {<<>>} \cup [1 .. SdBlock -> SdData]]
    PROVE  SdGood(r, g, n)
<1> DEFINE i == Append(c.in, h.data)
           t == IF Len(c.in) + 1 = SdInLength THEN "idle" ELSE c.mode
           z == h.n - 1
<1>1. /\ c \in SdState /\ c.cs = FALSE /\ c.mode = "in" /\ c.stuff = 0 /\ c.in \in Seq(Byte)
      /\ c.lba = h.arg /\ h \in SdReader /\ h.op = CMD(24) /\ h.arg \in SdArg
      /\ h.data \in SdData /\ h.data \in Byte /\ h.n \in Nat
      /\ Len(c.in) + h.n = SdInLength /\ h.n > 0
      /\ \A j \in 1 .. Len(c.in) : c.in[j] = h.data
  BY DEF SdGood, SdPhase, SdState, SdReader
<1>2. r = [c EXCEPT !.in = i, !.mode = t]
  BY <1>1 DEF sd_card_byte, Taken
<1>3. /\ i \in Seq(Byte) /\ Len(i) = Len(c.in) + 1 /\ Len(i) <= SdInLength /\ Len(c.in) \in Nat
      /\ \A j \in 1 .. Len(i) : i[j] = h.data
  BY <1>1, SdSizes
<1>4. /\ t \in {"idle", "command", "out", "in", "sync"}
      /\ h.n = 1 => t = "idle"
      /\ h.n # 1 => t = "in"
  BY <1>1, SdSizes
<1> HIDE DEF i, t
<1>5. /\ r \in SdState /\ r.in = i /\ r.mode = t /\ r.cs = FALSE /\ r.stuff = 0 /\ r.lba = h.arg
  <2>1. c \in SdState /\ i \in Seq(Byte) /\ t \in {"idle", "command", "out", "in", "sync"}
    BY <1>1, <1>3, <1>4
  <2>2. r \in SdState
    <3> DEFINE q == [c EXCEPT !.in = i]
    <3>1. r = [q EXCEPT !.mode = t]
      BY <1>2
    <3>2. q \in SdState
      BY <2>1 DEF SdState
    <3> HIDE DEF q
    <3> QED
      BY <2>1, <3>1, <3>2, ModeType
  <2>3. r.in = i /\ r.mode = t /\ r.cs = c.cs /\ r.stuff = c.stuff /\ r.lba = c.lba
    BY <1>2, <2>1 DEF SdState
  <2> QED
    BY <1>1, <2>2, <2>3
<1>6. CASE h.n > 1
  <2>1. g = [h EXCEPT !.at = "write", !.n = z] /\ z > 0 /\ z \in Nat /\ t = "in"
    BY <1>1, <1>4, <1>6
  <2>2. Len(i) + z = SdInLength
    BY <1>1, <1>3, SdSizes
  <2> HIDE DEF z
  <2>3. /\ g \in SdReader /\ g.at = "write" /\ g.n = z /\ g.op = h.op /\ g.arg = h.arg
        /\ g.data = h.data
    BY <1>1, <2>1 DEF SdReader
  <2>4. SdPhase(r, g)
    BY <1>1, <1>3, <1>5, <2>1, <2>2, <2>3 DEF SdPhase
  <2> QED
    BY <1>3, <1>5, <2>3, <2>4 DEF SdGood
<1>7. CASE ~(h.n > 1)
  <2>1. g = Between("ready") /\ t = "idle"
    BY <1>1, <1>4, <1>7
  <2>2. g \in SdReader /\ g.at = "ready"
    BY <2>1, BetweenType
  <2>3. SdPhase(r, g)
    BY <1>5, <2>1, <2>2 DEF SdPhase
  <2> QED
    BY <1>3, <1>5, <2>2, <2>3 DEF SdGood
<1> QED
  BY <1>6, <1>7

\* The image only changes where a whole block has come in.
LEMMA ExchangeImage ==
    ASSUME SdInv, NEW b, Exchange(b)
    PROVE  /\ ~WritesBlock(sd) => image' = image
           /\ image' # image => /\ reader.at = "write" /\ reader.n = 1
                                /\ reader.op = CMD(24) /\ reader.arg = sd.lba
                                /\ image' = [image EXCEPT ![reader.arg] =
                                                [i \in 1 .. SdBlock |-> reader.data]]
           /\ image' \in [SdArg -> {<<>>} \cup [1 .. SdBlock -> SdData]]
<1>1. /\ sd \in SdState /\ reader \in SdReader /\ SdPhase(sd, reader)
      /\ image \in [SdArg -> {<<>>} \cup [1 .. SdBlock -> SdData]]
  BY DEF SdInv, SdGood
<1>2. ~WritesBlock(sd) => image' = image
  BY DEF Exchange
<1>3. ASSUME WritesBlock(sd)
      PROVE  /\ reader.at = "write" /\ reader.n = 1 /\ reader.op = CMD(24)
             /\ reader.arg = sd.lba /\ reader.arg \in SdArg /\ reader.data \in SdData
             /\ SubSeq(sd.in, 1, SdBlock) = [i \in 1 .. SdBlock |-> reader.data]
  <2>1. /\ ~sd.cs /\ sd.stuff = 0 /\ sd.mode = "in" /\ Len(sd.in) + 1 = SdInLength
        /\ sd.in \in Seq(Byte)
    BY <1>1, <1>3 DEF WritesBlock, SdState
  <2>2. reader.at = "write"
    BY <1>1, <2>1 DEF SdPhase, SdReader
  <2>3. /\ reader.op = CMD(24) /\ reader.arg \in SdArg /\ reader.data \in SdData
        /\ sd.lba = reader.arg /\ Len(sd.in) + reader.n = SdInLength /\ reader.n \in Nat
        /\ \A i \in 1 .. Len(sd.in) : sd.in[i] = reader.data
    BY <1>1, <2>2 DEF SdPhase, SdReader
  <2>4. reader.n = 1 /\ Len(sd.in) = SdBlock + 2
    BY <2>1, <2>3, SdSizes
  <2>5. SubSeq(sd.in, 1, SdBlock) = [i \in 1 .. SdBlock |-> reader.data]
    <3>1. SubSeq(sd.in, 1, SdBlock) = [i \in 1 .. SdBlock |-> sd.in[i]]
      BY <2>1, <2>4, SdSizes
    <3>2. \A i \in 1 .. SdBlock : sd.in[i] = reader.data
      BY <2>3, <2>4, SdSizes
    <3> QED
      BY <3>1, <3>2
  <2> QED
    BY <2>2, <2>3, <2>4, <2>5
<1>4. ASSUME WritesBlock(sd), image' # image
      PROVE  image' = [image EXCEPT ![reader.arg] = [i \in 1 .. SdBlock |-> reader.data]]
  BY <1>3, <1>4 DEF Exchange
<1>5. image' \in [SdArg -> {<<>>} \cup [1 .. SdBlock -> SdData]]
  <2>1. CASE image' = image
    BY <1>1, <2>1
  <2>2. CASE image' # image
    <3>1. WritesBlock(sd)
      BY <1>2, <2>2
    <3>2. [i \in 1 .. SdBlock |-> reader.data] \in [1 .. SdBlock -> SdData] /\ reader.arg \in SdArg
      BY <1>3, <3>1
    <3>3. image' = [image EXCEPT ![reader.arg] = [i \in 1 .. SdBlock |-> reader.data]]
      BY <1>4, <2>2, <3>1
    <3> QED
      BY <1>1, <3>2, <3>3
  <2> QED
    BY <2>1, <2>2
<1> QED
  BY <1>2, <1>3, <1>4, <1>5

\* Every byte and every turn of the select line keeps host and card in step.
LEMMA SdStepGood ==
    ASSUME SdInv, SdNext
    PROVE  SdGood(sd', reader', image')
<1>0. /\ SdGood(sd, reader, image) /\ sd \in SdState /\ Len(sd.in) <= SdInLength
      /\ SdPhase(sd, reader) /\ reader \in SdReader
      /\ image \in [SdArg -> {<<>>} \cup [1 .. SdBlock -> SdData]]
  BY DEF SdInv, SdGood
<1>1. ASSUME SdSelect  PROVE SdGood(sd', reader', image')
  <2>1. /\ reader.at = "off" /\ reader' = Between("ready") /\ sd' = sd_spi_lower_cs(sd)
        /\ image' = image
    BY <1>1 DEF SdSelect
  <2>2. sd' \in SdState /\ sd'.in = sd.in /\ sd'.cs = FALSE /\ sd'.mode = "idle" /\ sd'.stuff = 0
    BY <1>0, <2>1, SelectType DEF SdPhase
  <2>3. reader' \in SdReader /\ reader'.at = "ready"
    BY <2>1, BetweenType
  <2>4. SdPhase(sd', reader')
    BY <2>2, <2>3 DEF SdPhase
  <2> QED
    BY <1>0, <2>1, <2>2, <2>3, <2>4 DEF SdGood
<1>2. ASSUME SdDeselect \/ SdMachineReset  PROVE SdGood(sd', reader', image')
  <2>1. /\ reader.at # "poll" /\ reader' = Between("off") /\ image' = image
        /\ sd' = sd_spi_raise_cs(sd) \/ sd' = sd_reset(sd)
    BY <1>2 DEF SdDeselect, SdMachineReset
  <2>2. sd.stuff = 0
    BY <1>0, <2>1 DEF SdPhase, SdReader
  <2>3. sd' \in SdState /\ sd'.in = sd.in /\ sd'.cs = TRUE /\ sd'.mode = "idle" /\ sd'.stuff = 0
    BY <1>0, <2>1, <2>2, SelectType
  <2>4. reader' \in SdReader /\ reader'.at = "off"
    BY <2>1, BetweenType
  <2>5. SdPhase(sd', reader')
    BY <2>3, <2>4 DEF SdPhase
  <2> QED
    BY <1>0, <2>1, <2>3, <2>4, <2>5 DEF SdGood
<1>3. ASSUME SdBegin  PROVE SdGood(sd', reader', image')
  <2>1. PICK op \in SdOp, arg \in SdArg :
          \E data \in IF op = CMD(24) THEN SdData ELSE {0} :
              /\ reader' = [at |-> "command", n |-> 1, op |-> op, arg |-> arg, data |-> data]
              /\ Exchange(op)
    BY <1>3 DEF SdBegin
  <2>2. PICK data \in IF op = CMD(24) THEN SdData ELSE {0} :
              /\ reader' = [at |-> "command", n |-> 1, op |-> op, arg |-> arg, data |-> data]
              /\ Exchange(op)
    BY <2>1
  <2>3. data \in Byte /\ (op = CMD(24) => data \in SdData)
    BY SdSizes DEF Byte
  <2>4. PICK ok \in BOOLEAN, k \in SdStuff : sd' = sd_card_byte(sd, op, ok, k)
    BY <2>2 DEF Exchange
  <2>5. reader.at = "ready"
    BY <1>3 DEF SdBegin
  <2>6. image' = image
    BY <1>0, <2>2, <2>5, ExchangeImage
  <2> QED
    BY <1>0, <2>2, <2>3, <2>4, <2>5, <2>6, BeginGood
<1>4. ASSUME SdArgument  PROVE SdGood(sd', reader', image')
  <2> DEFINE b == IF reader.n = 4 THEN reader.arg ELSE 0
  <2>1. reader.at = "command" /\ Exchange(b)
    BY <1>4 DEF SdArgument
  <2>2. PICK ok \in BOOLEAN, k \in SdStuff : sd' = sd_card_byte(sd, b, ok, k)
    BY <2>1 DEF Exchange
  <2>3. image' = image
    BY <1>0, <2>1, ExchangeImage
  <2>4. /\ reader.n < 5 => reader' = [reader EXCEPT !.at = "command", !.n = reader.n + 1]
        /\ ~(reader.n < 5) => reader' = [reader EXCEPT !.at = "poll", !.n = 0]
    BY <1>4 DEF SdArgument, At
  <2> QED
    BY <1>0, <2>1, <2>2, <2>3, <2>4, ArgumentGood
<1>5. ASSUME SdPoll  PROVE SdGood(sd', reader', image')
  <2>1. reader.at = "poll" /\ Exchange(255)
    BY <1>5 DEF SdPoll
  <2>2. PICK ok \in BOOLEAN, k \in SdStuff : sd' = sd_card_byte(sd, 255, ok, k)
    BY <2>1 DEF Exchange
  <2>3. image' = image
    BY <1>0, <2>1, ExchangeImage
  <2>4. reader' = AfterPoll(sd, reader)
    BY <1>5 DEF SdPoll, At, AfterPoll
  <2> QED
    BY <1>0, <2>1, <2>2, <2>3, <2>4, PollGood
<1>6. ASSUME SdReadByte  PROVE SdGood(sd', reader', image')
  <2>1. reader.at = "read" /\ Exchange(255)
    BY <1>6 DEF SdReadByte
  <2>2. PICK ok \in BOOLEAN, k \in SdStuff : sd' = sd_card_byte(sd, 255, ok, k)
    BY <2>1 DEF Exchange
  <2>3. image' = image
    BY <1>0, <2>1, ExchangeImage
  <2>4. reader' = IF reader.n > 1 THEN [reader EXCEPT !.at = "read", !.n = reader.n - 1]
                  ELSE Between("ready")
    BY <1>6 DEF SdReadByte, At
  <2> QED
    BY ZenonT(60), <1>0, <2>1, <2>2, <2>3, <2>4, ReadByteGood
<1>7. ASSUME SdToken  PROVE SdGood(sd', reader', image')
  <2>1. /\ reader.at = "token"
        /\ \/ Exchange(255) /\ reader' = reader
           \/ Exchange(254) /\ reader' = [reader EXCEPT !.at = "write", !.n = SdInLength]
    BY <1>7 DEF SdToken, At
  <2>2. image' = image
    BY <1>0, <2>1, ExchangeImage
  <2>3. CASE Exchange(255) /\ reader' = reader
    <3>1. PICK ok \in BOOLEAN, k \in SdStuff : sd' = sd_card_byte(sd, 255, ok, k)
      BY <2>3 DEF Exchange
    <3> QED
      BY <1>0, <2>1, <2>2, <2>3, <3>1, FillerGood
  <2>4. CASE Exchange(254) /\ reader' = [reader EXCEPT !.at = "write", !.n = SdInLength]
    <3>1. PICK ok \in BOOLEAN, k \in SdStuff : sd' = sd_card_byte(sd, 254, ok, k)
      BY <2>4 DEF Exchange
    <3> QED
      BY ZenonT(60), <1>0, <2>1, <2>2, <2>4, <3>1, TokenGood
  <2> QED
    BY <2>1, <2>3, <2>4
<1>8. ASSUME SdWriteByte  PROVE SdGood(sd', reader', image')
  <2>1. reader.at = "write" /\ Exchange(reader.data)
    BY <1>8 DEF SdWriteByte
  <2>2. PICK ok \in BOOLEAN, k \in SdStuff : sd' = sd_card_byte(sd, reader.data, ok, k)
    BY <2>1 DEF Exchange
  <2>3. image' \in [SdArg -> {<<>>} \cup [1 .. SdBlock -> SdData]]
    BY <2>1, ExchangeImage
  <2>4. reader' = IF reader.n > 1 THEN [reader EXCEPT !.at = "write", !.n = reader.n - 1]
                  ELSE Between("ready")
    BY <1>8 DEF SdWriteByte, At
  <2> QED
    BY <1>0, <2>1, <2>2, <2>3, <2>4, SdWriteByteGood
<1> QED
  BY <1>1, <1>2, <1>3, <1>4, <1>5, <1>6, <1>7, <1>8 DEF SdNext

LEMMA SdStep ==
    ASSUME SdInv, [SdNext]_sdVars
    PROVE  SdInv'
<1>1. CASE SdNext
  BY <1>1, SdStepGood
     DEF SdInv, SdGood, SdPhase, SdReadyFor, Accepted, OutputLength, SdState, SdReader, Byte,
         SdInLength, CMD
<1>2. CASE UNCHANGED sdVars
  BY <1>2
     DEF sdVars, SdInv, SdGood, SdPhase, SdReadyFor, Accepted, OutputLength, SdState, SdReader,
         Byte, SdInLength, CMD
<1> QED
  BY <1>1, <1>2

LEMMA SdInvImplies == SdInv => SdTypeOK /\ SdInStep
<1> SUFFICES ASSUME SdInv  PROVE SdTypeOK /\ SdInStep
  OBVIOUS
<1>1. /\ sd \in SdState /\ Len(sd.in) <= SdInLength /\ reader \in SdReader
      /\ image \in [SdArg -> {<<>>} \cup [1 .. SdBlock -> SdData]] /\ SdPhase(sd, reader)
  BY DEF SdInv, SdGood
<1>2. SdTypeOK
  BY <1>1 DEF SdTypeOK
<1>3. SdInStep
  BY <1>1 DEF SdInStep, SdPhase, SdReader
<1> QED
  BY <1>2, <1>3

\* Host and card of the SPI bus never lose step, for every length of a block,
\* every command, every delay of the card and every point at which the host
\* gives up or the machine is reset, except between a command and its response,
\* where the code leaves sd_stuff behind and SdSpec's host does neither.
THEOREM SdTogether == SdSpec => []SdInStep
<1>1. SdInv /\ [SdNext]_sdVars => SdInv'
  BY SdStep
<1>2. SdInv => SdInStep
  BY SdInvImplies
<1> QED
  BY <1>1, <1>2, SdCreatedOk, PTL DEF SdSpec

LEMMA SdChangeAsked ==
    ASSUME SdInv, [SdNext]_sdVars, NEW a \in SdArg, image'[a] # image[a]
    PROVE  /\ reader.op = CMD(24) /\ reader.arg = a
           /\ reader.at = "write" /\ reader.n = 1
           /\ image'[a] = [i \in 1 .. SdBlock |-> reader.data]
<1>1. image' # image
  OBVIOUS
<1>2. \E b : Exchange(b)
  BY <1>1 DEF SdNext, sdVars, SdSelect, SdDeselect, SdMachineReset, SdBegin, SdArgument, SdPoll,
              SdReadByte, SdToken, SdWriteByte
<1>3. /\ reader.at = "write" /\ reader.n = 1 /\ reader.op = CMD(24)
      /\ image' = [image EXCEPT ![reader.arg] = [i \in 1 .. SdBlock |-> reader.data]]
  BY <1>1, <1>2, ExchangeImage
<1>4. image \in [SdArg -> {<<>>} \cup [1 .. SdBlock -> SdData]]
  BY DEF SdInv, SdGood
<1>5. reader.arg = a
  BY <1>3, <1>4
<1> QED
  BY <1>3, <1>4, <1>5

\* The writes of the card, whatever the fairness: what the whole machine needs.
LEMMA SdWritesKept == SdInit /\ [][SdNext]_sdVars => SdWritesAsked
<1> DEFINE Right ==
             \A a \in SdArg : image'[a] # image[a] =>
                 /\ reader.op = CMD(24) /\ reader.arg = a
                 /\ reader.at = "write" /\ reader.n = 1
                 /\ image'[a] = [i \in 1 .. SdBlock |-> reader.data]
<1>1. SdInv /\ [SdNext]_sdVars => SdInv' /\ [Right]_sdVars
  BY SdStep, SdChangeAsked
<1> QED
  BY <1>1, SdCreatedOk, PTL DEF SdWritesAsked

\* A block of the card changes only at the end of a write command to that very
\* block, and then to what the host has sent.
THEOREM SdWrites == SdSpec => SdWritesAsked
  BY SdWritesKept, PTL DEF SdSpec

-----------------------------------------------------------------------------
(* The devices together *)

StorageInv == IdeInv /\ SdInv /\ WdInv /\ SasiInv

LEMMA StorageSteps ==
    ASSUME [StorageNext]_storageVars
    PROVE  [IdeNext]_ideVars /\ [SdNext]_sdVars /\ [WdNext]_wdVars /\ [SasiNext]_sasiVars
<1>1. CASE StorageIde
  BY <1>1 DEF StorageIde
<1>2. CASE StorageSd
  BY <1>2 DEF StorageSd
<1>3. CASE StorageWd
  BY <1>3 DEF StorageWd
<1>4. CASE StorageSasi
  BY <1>4 DEF StorageSasi
<1>5. CASE UNCHANGED storageVars
  BY <1>5 DEF storageVars
<1> QED
  BY <1>1, <1>2, <1>3, <1>4, <1>5 DEF StorageNext

LEMMA StorageKept == StorageSpec => []StorageInv
<1>1. StorageInit => StorageInv
  BY IdeCreatedOk, SdCreatedOk, WdCreatedOk, SasiCreatedOk DEF StorageInit, StorageInv
<1>2. StorageInv /\ [StorageNext]_storageVars => StorageInv'
  BY StorageSteps, IdeStep, SdStep, WdStep, SasiStep DEF StorageInv
<1> QED
  BY <1>1, <1>2, PTL DEF StorageSpec

\* Every field of every storage device keeps its range, and the positions in
\* the sector buffers, which are only compared for equality with their ends,
\* never pass them.
THEOREM StorageInRange == StorageSpec => []StorageTypeOK
<1>1. StorageInv => StorageTypeOK
  BY IdeInvImplies, SdInvImplies, WdInvImplies, SasiInvImplies DEF StorageInv, StorageTypeOK
<1> QED
  BY <1>1, StorageKept, PTL

\* With whichever device is fitted, one in each behaviour, a block of the card
\* changes only where and when a write that was carried through asked for it, and
\* so does a sector of the floppy as long as the host has left the registers and
\* select lines of the write alone and does not write to the side a disk lacks.
THEOREM StorageWrites == StorageSpec => WritesAsked
<1>1. StorageInit => SdInit /\ WdInit
  BY DEF StorageInit
<1>2. [StorageNext]_storageVars => [SdNext]_sdVars /\ [WdNext]_wdVars
  BY StorageSteps
<1>3. StorageSpec => WdSpec /\ SdInit /\ [][SdNext]_sdVars
  BY <1>1, <1>2, PTL DEF StorageSpec, WdSpec
<1> QED
  BY <1>3, FloppyWrites, SdWritesKept, PTL DEF WritesAsked
=============================================================================
