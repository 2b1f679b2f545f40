-------------------------------- MODULE Ps2 --------------------------------
(***************************************************************************)
(* The keyboard end of a PS/2 connection, ps2.c.  The keyboard owns the    *)
(* clock: ps2_event lets it work for some clocks, in which it moves a byte *)
(* bit by bit.  Software moves its end of both lines at any time: a low    *)
(* clock stops the keyboard, and a low clock and a low data line ask it to *)
(* take a byte.                                                            *)
(***************************************************************************)
EXTENDS Powers, Sequences

CONSTANTS
    DataBits,       (* bits of a byte: 8 *)
    BitToClock,     (* DELAY_BIT_TO_CLOCK *)
    SendByte,       (* DELAY_SEND_BYTE *)
    BufSize,        (* PS2_BUFSIZ *)
    Decode,         (* the command that a byte from the host is *)
    Reply,          (* the byte that a reply is *)
    Keys,           (* the bytes that keys send *)
    EventClocks     (* the clocks of one ps2_event *)

\* The numbers of n bits.
Word(n) == 0 .. Pow2[n] - 1

Byte    == Word(DataBits)
Queue   == {s \in Seq(Byte) : Len(s) <= BufSize}
Command == {"reset", "resend", "stream", "ack", "default", "disable", "enable", "param",
            "id", "scanset", "echo", "query", "reserved", "other"}

ASSUME Ps2Assumption ==
    /\ DataBits \in Nat /\ BitToClock \in Nat \ {0} /\ SendByte \in Nat \ {0}
    /\ BufSize \in Nat \ {0}
    /\ Decode \in [Byte -> Command]
    /\ \A r \in {"FA", "AB", "83", "AA", "EE", "FE", "02"} : Reply[r] \in Byte
    /\ Keys \subseteq Byte /\ EventClocks \subseteq Nat

VARIABLES
    ps2,
    heard,          (* history: what has come over the lines of the byte being sent *)
    ended           (* history: the bytes that left a queue in the last event, each with
                       what came over the lines for it *)

ps2Vars == <<ps2, heard, ended>>

KeyboardState ==
    [clock_in : 0 .. 1, clock_out : 0 .. 1, data_in : 0 .. 1, data_out : 0 .. 1,
     state : {"idle", "wait_host", "wait_host_2", "receive", "ack", "send_wait", "send"},
     step : 0 .. 4, count : 0 .. DataBits + 3, wait : 0 .. SendByte + BitToClock,
     rxstate : 0 .. 3, last_sent : Byte,
     receive : Word(DataBits + 2), send : Word(DataBits + 3),
     busy : BOOLEAN, replymode : BOOLEAN, disabled : BOOLEAN, rbuffer : Queue, buffer : Queue]

-----------------------------------------------------------------------------
(* Queues.                                                                 *)

\* Mutant: looks for the end of the buffer one byte late.
ps2_queue_key_late(p, key) ==
    IF p.disabled \/ Len(p.buffer) > BufSize THEN p ELSE [p EXCEPT !.buffer = Append(@, key)]

ps2_queue_key(p, key) ==
    IF p.disabled \/ Len(p.buffer) = BufSize THEN p ELSE [p EXCEPT !.buffer = Append(@, key)]

ps2_queue_reply(p, r) ==
    IF Len(p.rbuffer) = BufSize THEN p ELSE [p EXCEPT !.rbuffer = Append(@, r)]

ps2_byte_sent(p) ==
    IF p.replymode THEN [p EXCEPT !.rbuffer = Tail(@)] ELSE [p EXCEPT !.buffer = Tail(@)]

\* The bits of a frame, first one lowest: start, data, odd parity, stop.
Ones(b) == LET n[i \in 0 .. DataBits] == IF i = 0 THEN 0 ELSE n[i - 1] + ((b \div Pow2[i - 1]) % 2)
           IN  n[DataBits]
Frame(b) == b * 2 + (IF Ones(b) % 2 = 0 THEN Pow2[DataBits + 1] ELSE 0) + Pow2[DataBits + 2]

ps2_begin_sending(p, b) ==
    [p EXCEPT !.last_sent = b, !.send = Frame(b), !.busy = TRUE, !.state = "send_wait",
              !.count = DataBits + 3]

ps2_poll(p) ==
    IF p.busy THEN p
    ELSE IF p.rbuffer # <<>> THEN [ps2_begin_sending(p, p.rbuffer[1]) EXCEPT !.replymode = TRUE]
    ELSE IF p.buffer # <<>> THEN [ps2_begin_sending(p, p.buffer[1]) EXCEPT !.replymode = FALSE]
    ELSE p

\* What the byte does as a command ("query" is 00, "reserved" are EF and F1).
\* The bytes that follow some commands are looked at as commands as well.
Execute(p, b) ==
    LET ack == ps2_queue_reply(p, Reply["FA"])
    IN  CASE Decode[b] \in {"reset", "ack"} -> ack
          [] Decode[b] = "resend"  -> IF p.last_sent = Reply["FE"] THEN p ELSE ps2_queue_reply(p, p.last_sent)
          [] Decode[b] = "stream"  -> [ack EXCEPT !.rxstate = 2, !.disabled = TRUE]
          [] Decode[b] = "default" -> p
          [] Decode[b] = "disable" -> [p EXCEPT !.disabled = TRUE]
          [] Decode[b] = "enable"  -> [p EXCEPT !.disabled = FALSE]
          [] Decode[b] = "param"   -> [p EXCEPT !.rxstate = 1]
          [] Decode[b] = "id"      -> ps2_queue_reply(ps2_queue_reply(p, Reply["AB"]), Reply["83"])
          [] Decode[b] = "scanset" -> [ack EXCEPT !.rxstate = 3]
          [] Decode[b] = "echo"    -> ps2_queue_reply(p, Reply["EE"])
          [] OTHER                 -> ps2_queue_reply(p, Reply["FE"])

ps2_byte_received(p, b) ==
    LET ack == ps2_queue_reply(p, Reply["FA"])
    IN  CASE p.rxstate = 0 -> Execute(p, b)
          [] p.rxstate = 1 -> [p EXCEPT !.rxstate = 0]
          [] p.rxstate = 2 -> Execute(IF Decode[b] \notin {"query", "other"}
                                      THEN [ack EXCEPT !.rxstate = 0, !.disabled = FALSE] ELSE ack, b)
          [] p.rxstate = 3 -> Execute([(IF Decode[b] = "query" THEN ps2_queue_reply(ack, Reply["02"]) ELSE ack)
                                       EXCEPT !.rxstate = 0], b)

-----------------------------------------------------------------------------
(* The states.  Each takes the clocks it may use and gives the keyboard    *)
(* and the clocks that are left; none are left when it is to wait.         *)

Then(p, clocks) == [ps2 |-> p, clocks |-> clocks]

ps2_idle(p) == [p EXCEPT !.state = "idle", !.clock_out = 1, !.data_out = 1, !.busy = FALSE]

\* Mutant: goes on with the rest of the frame when the clock is let go.
ps2_abort_resumes(p) == [p EXCEPT !.state = IF p.state = "send" THEN "send_wait" ELSE "wait_host"]

ps2_abort(p) == [p EXCEPT !.state = "wait_host"]

ps2_state_idle(p, clocks) ==
    Then(IF p.clock_in = 0 THEN ps2_abort([p EXCEPT !.busy = TRUE]) ELSE p, 0)

ps2_wait_host(p, clocks) ==
    IF p.clock_in = 1 THEN Then(ps2_idle(p), 0)
    ELSE IF p.data_in = 0 THEN Then([p EXCEPT !.state = "wait_host_2"], clocks)
    ELSE Then(p, 0)

ps2_wait_host_2(p, clocks) ==
    IF p.clock_in = 0 THEN Then(p, 0)
    ELSE Then([p EXCEPT !.state = "receive", !.count = DataBits + 2, !.receive = 0,
                        !.step = 0, !.wait = BitToClock], clocks)

ps2_send_wait(p, clocks) ==
    IF p.clock_in = 0 THEN Then(p, 0)
    ELSE Then([p EXCEPT !.state = "send", !.wait = SendByte, !.step = 0], clocks)

\* p has waited and is at its next step; left is what remains of the clocks.
SendStep(p, left) ==
    CASE p.step = 1 /\ p.clock_in = 0 -> Then(ps2_abort(p), left)
      [] p.step = 1 /\ p.clock_in = 1 -> Then([p EXCEPT !.data_out = p.send % 2, !.send = @ \div 2,
                                                        !.wait = BitToClock], left - 1)
      [] p.step = 2 -> Then([p EXCEPT !.clock_out = 0, !.wait = BitToClock], left - 1)
      [] p.step = 3 -> Then([p EXCEPT !.clock_out = 1, !.wait = BitToClock], left - 1)
      [] p.step = 4 /\ p.count = 1 -> Then(ps2_idle(ps2_byte_sent([p EXCEPT !.count = 0])), left)
      [] p.step = 4 /\ p.count # 1 -> Then([p EXCEPT !.count = @ - 1, !.step = 0, !.wait = BitToClock], left)

ReceiveStep(p, left) ==
    CASE p.step = 1 -> Then([p EXCEPT !.clock_out = 0, !.wait = BitToClock], left - 1)
      [] p.step = 2 -> Then([p EXCEPT !.clock_out = 1, !.wait = BitToClock], left - 1)
      [] p.step = 3 -> Then([p EXCEPT !.receive = (@ \div 2) + p.data_in * Pow2[DataBits + 1],
                                      !.wait = BitToClock], left - 1)
      [] p.step = 4 -> Then([p EXCEPT !.count = @ - 1, !.state = IF p.count = 1 THEN "ack" ELSE @,
                                      !.step = 0, !.wait = BitToClock], left)

AckStep(p, left) ==
    CASE p.step = 1 /\ p.data_in = 0 -> Then([p EXCEPT !.step = 0], 0)
      [] p.step = 1 /\ p.data_in = 1 -> Then([p EXCEPT !.wait = BitToClock], left)
      [] p.step = 2 -> Then([p EXCEPT !.data_out = 0, !.wait = BitToClock], left)
      [] p.step = 3 -> Then([p EXCEPT !.clock_out = 0, !.wait = BitToClock], left)
      [] p.step = 4 -> Then(ps2_idle(ps2_byte_received(p, p.receive % Pow2[DataBits])), left)

\* Wait is never 0 in these states; it is left as it is when it runs out.
Timed(p, clocks) ==
    LET q    == [p EXCEPT !.step = @ + 1]
        left == clocks - p.wait
    IN  CASE left < 0 -> Then([p EXCEPT !.wait = @ - clocks], 0)
          [] left >= 0 /\ p.state = "send"    -> SendStep(q, left)
          [] left >= 0 /\ p.state = "receive" -> ReceiveStep(q, left)
          [] left >= 0 /\ p.state = "ack"     -> AckStep(q, left)

Step(p, clocks) ==
    CASE p.state = "idle"        -> ps2_state_idle(p, clocks)
      [] p.state = "wait_host"   -> ps2_wait_host(p, clocks)
      [] p.state = "wait_host_2" -> ps2_wait_host_2(p, clocks)
      [] p.state = "send_wait"   -> ps2_send_wait(p, clocks)
      [] p.state = "receive" /\ p.clock_in = 0 -> Then(ps2_abort(p), clocks)
      [] OTHER                   -> Timed(p, clocks)

\* The bytes in both queues.
Queued(p) == Len(p.rbuffer) + Len(p.buffer)

\* The lines, which either end can pull down.
ps2_get_clock(p) == IF p.clock_in = 1 THEN p.clock_out ELSE 0
ps2_get_data(p)  == IF p.data_in = 1 THEN p.data_out ELSE 0

\* What a host has read that held a line down at one of the keyboard's edges: it
\* has missed the bit, or read the 0 it drives itself.
Broken == <<2>>

\* What the host makes of a turn of the loop: it reads a bit when the clock line
\* falls, and an idle keyboard has ended or dropped the frame.
Hear(h, p, q) ==
    CASE q.state # "send" -> <<>>
      [] q.state = "send" /\ p.clock_out = 1 /\ q.clock_out = 0 ->
             IF h # Broken /\ ps2_get_clock(p) = 1 /\ q.data_in = 1
             THEN Append(h, ps2_get_data(q)) ELSE Broken
      [] OTHER -> h

Leaves(p, q) ==
    IF q.buffer # p.buffer THEN p.buffer[1] ELSE p.rbuffer[1]

\* A turn of the loop of ps2_clocks, with what the host makes of it.
Turn(t) ==
    LET r == Step(t.ps2, t.clocks)
    IN  [ps2 |-> r.ps2, clocks |-> r.clocks, heard |-> Hear(t.heard, t.ps2, r.ps2),
         ended |-> IF t.ps2.state = "send" /\ Queued(r.ps2) < Queued(t.ps2)
                   THEN t.ended \cup {[byte |-> Leaves(t.ps2, r.ps2), bits |-> t.heard]} ELSE t.ended]

\* Bound: the turns of one loop that use no clocks.
FreeTurns == 2

\* ps2_clocks: the loop, after the division by divider.
ps2_clocks(p, clocks, h) ==
    LET after[n \in 0 .. clocks + FreeTurns] ==
            IF n = 0 THEN [ps2 |-> p, clocks |-> clocks, heard |-> h, ended |-> {}]
            ELSE LET t == after[n - 1] IN IF t.clocks <= 0 THEN t ELSE Turn(t)
    IN  after[clocks + FreeTurns]

Ps2Created ==
    [clock_in |-> 0, clock_out |-> 1, data_in |-> 0, data_out |-> 1,
     state |-> "idle", step |-> 0, count |-> 0, wait |-> 0, rxstate |-> 0, last_sent |-> 0,
     receive |-> 0, send |-> 0, busy |-> FALSE, replymode |-> FALSE, disabled |-> FALSE,
     rbuffer |-> <<Reply["AA"]>>, buffer |-> <<>>]

Ps2Init == ps2 = Ps2Created /\ heard = <<>> /\ ended = {}

\* The main loop, after every slice.
Ps2Event(clocks) ==
    LET r == ps2_clocks(ps2, clocks, heard)
    IN  /\ ps2' = ps2_poll(r.ps2)
        /\ heard' = r.heard
        /\ ended' = r.ended

\* Software writes the port.
Ps2SetLines ==
    /\ \E c, d \in 0 .. 1 : ps2' = [ps2 EXCEPT !.clock_in = c, !.data_in = d]
    /\ UNCHANGED <<heard, ended>>

\* The user presses a key.
Ps2Key ==
    /\ \E k \in Keys : ps2' = ps2_queue_key(ps2, k)
    /\ UNCHANGED <<heard, ended>>

Ps2Next == Ps2SetLines \/ Ps2Key \/ \E clocks \in EventClocks : Ps2Event(clocks)

Ps2Spec == Ps2Init /\ [][Ps2Next]_ps2Vars

-----------------------------------------------------------------------------

Ps2TypeOK ==
    /\ ps2 \in KeyboardState
    /\ Len(heard) <= DataBits + 3

\* A byte leaves its queue only when the host has read its whole frame from the
\* lines, in order and in one piece, or has itself held a line down at an edge of
\* it: a frame the keyboard breaks off is sent again from the start, behind the
\* replies to what the host sent in between, and never in part.  (The keyboard
\* breaks off when the clock is low as it loads a bit.  A host that pulls the
\* clock down later in a bit and lets go before the next one loses the bit, and
\* the byte leaves its queue all the same.)
Ps2SendsWhole ==
    \A e \in ended :
        \/ e.bits = Broken
        \/ /\ Len(e.bits) = DataBits + 3
           /\ \A i \in 1 .. DataBits + 3 : e.bits[i] = (Frame(e.byte) \div Pow2[i - 1]) % 2
=============================================================================
