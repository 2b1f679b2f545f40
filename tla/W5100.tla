------------------------------- MODULE W5100 -------------------------------
(***************************************************************************)
(* The Wiznet W5100 of w5100.c: sockets with a receive and a transmit ring *)
(* each.  Software moves TX_WR and RX_RD, a byte of the 16 bit pointer at  *)
(* a time, and gives commands; the main loop calls w5100_process once a    *)
(* frame, which moves bytes between the rings and the host's sockets.      *)
(*                                                                         *)
(* A byte of a stream is its position in the stream, so a ring is right    *)
(* when it holds at each place the number of that place.                   *)
(***************************************************************************)
EXTENDS Integers, Sequences

CONSTANTS
    Sockets,        (* the sockets in use; 0 is the first *)
    Low,            (* values of the low byte of a pointer: 256 *)
    Wide,           (* values of a pointer: 65536 *)
    Ring,           (* size of a ring: 0x800 *)
    Header,         (* bytes of the header of a received datagram: 8 *)
    MaxDatagrams,   (* length of datagram_lengths: 0x20 *)
    MaxStray        (* bound: datagrams sent that nobody asked for *)

ASSUME W5100Assumption ==
    /\ Sockets \subseteq Nat /\ Low \in Nat \ {0} /\ Ring \in Nat \ {0}
    /\ Ring < Wide /\ Header \in Nat /\ MaxDatagrams \in Nat \ {0} /\ MaxStray \in Nat
    /\ Wide \in {Low * k : k \in 1 .. Wide} \cap {Ring * k : k \in 1 .. Wide}

VARIABLES
    sock,           (* the sockets *)
    traffic,        (* which way data goes: bound, as no step uses both rings *)
    half,           (* the pointer software has written the high byte of *)
    aborted         (* history: sockets closed with a write pending *)

w5100Vars == <<sock, traffic, half, aborted>>

Pointer == 0 .. Wide - 1
Place   == 0 .. Ring - 1
SocketMode  == {"closed", "tcp", "udp"}
SocketState == {"closed", "init", "listen", "connecting", "established", "close_wait", "udp"}

SocketRecord ==
    [mode : SocketMode, state : SocketState, send_ok : BOOLEAN,
     tx_rr : Pointer, tx_wr : Pointer, rx_rsr : Pointer, rx_rd : Pointer, old_rx_rd : Pointer,
     tx_buffer : [Place -> Pointer], rx_buffer : [Place -> Pointer],
     fd : BOOLEAN, bind_count : 0 .. 1, socket_bound : BOOLEAN, write_pending : BOOLEAN,
     last_send : Pointer, datagram_lengths : [0 .. MaxDatagrams - 1 -> Pointer],
     datagram_count : -MaxStray .. MaxDatagrams, ok_for_io : BOOLEAN]

SocketCreated ==
    [mode |-> "closed", state |-> "closed", send_ok |-> FALSE,
     tx_rr |-> 0, tx_wr |-> 0, rx_rsr |-> 0, rx_rd |-> 0, old_rx_rd |-> 0,
     tx_buffer |-> [p \in Place |-> 0], rx_buffer |-> [p \in Place |-> 0],
     fd |-> FALSE, bind_count |-> 0, socket_bound |-> FALSE, write_pending |-> FALSE,
     last_send |-> 0, datagram_lengths |-> [i \in 0 .. MaxDatagrams - 1 |-> 0],
     datagram_count |-> 0, ok_for_io |-> FALSE]

-----------------------------------------------------------------------------
(* The commands.  ok is the answer of the host's system call.              *)

w5100_socket_init_common(s) ==
    [s EXCEPT !.fd = FALSE, !.bind_count = 0, !.socket_bound = FALSE,
              !.ok_for_io = FALSE, !.write_pending = FALSE]

w5100_socket_clean(s) ==
    LET t == [s EXCEPT !.send_ok = FALSE, !.tx_rr = 0, !.tx_wr = 0, !.rx_rsr = 0, !.rx_rd = 0,
                       !.old_rx_rd = 0, !.last_send = 0, !.datagram_count = 0]
    IN  IF s.fd THEN w5100_socket_init_common(t) ELSE t

nic_w5100_socket_reset(s) ==
    w5100_socket_clean([s EXCEPT !.mode = "closed", !.state = "closed"])

\* Mutant: the rings keep their pointers.
w5100_socket_open_dirty(s, ok) ==
    IF s.mode = "closed" \/ s.state # "closed" THEN s
    ELSE IF ~ok THEN s
    ELSE [s EXCEPT !.fd = TRUE, !.datagram_count = 0, !.rx_rsr = 0,
                   !.state = IF s.mode = "tcp" THEN "init" ELSE "udp"]

w5100_socket_open(s, ok) ==
    IF s.mode = "closed" \/ s.state # "closed" THEN s
    ELSE LET t == w5100_socket_clean(s)
         IN  IF ~ok THEN t
             ELSE [t EXCEPT !.fd = TRUE, !.state = IF s.mode = "tcp" THEN "init" ELSE "udp"]

w5100_socket_bind_port(s, ok) ==
    IF ok THEN [s EXCEPT !.socket_bound = TRUE]
    ELSE [s EXCEPT !.state = "closed"]

\* The socket bound to its port, if it has not been.
Bound(s, ok) == IF s.socket_bound THEN s ELSE w5100_socket_bind_port(s, ok)

w5100_socket_listen(s, bound, ok) ==
    LET t == Bound(s, bound)
    IN  IF s.state # "init" THEN s
        ELSE IF t.socket_bound /\ ok THEN [t EXCEPT !.state = "listen"]
        ELSE t

w5100_socket_connect(s, bound, answer) ==
    LET t == Bound(s, bound)
    IN  IF s.state # "init" THEN s
        ELSE IF ~t.socket_bound THEN t
        ELSE CASE answer = "fail"     -> [t EXCEPT !.state = "closed"]
               [] answer = "progress" -> [t EXCEPT !.state = "connecting"]
               [] OTHER               -> [t EXCEPT !.state = "established"]

w5100_socket_close(s) ==
    IF s.fd
    THEN [s EXCEPT !.fd = FALSE, !.socket_bound = FALSE, !.ok_for_io = FALSE, !.state = "closed"]
    ELSE s

w5100_socket_discon(s) ==
    IF s.state \in {"established", "close_wait"}
    THEN w5100_socket_close(s)
    ELSE s

\* Mutant: forgets where the last datagram ended.
w5100_socket_send_forgets(s, bound) ==
    LET t == Bound(s, bound)
    IN  IF s.state = "established" THEN [s EXCEPT !.write_pending = TRUE]
        ELSE IF s.state # "udp" THEN s
        ELSE IF ~t.socket_bound THEN t
        ELSE [t EXCEPT !.datagram_lengths[s.datagram_count] = (s.tx_wr - s.last_send) % Wide,
                       !.datagram_count = @ + 1, !.write_pending = TRUE]

\* A length is an int here and a uint16_t where it is used.
w5100_socket_send(s, bound) ==
    LET t == Bound(s, bound)
    IN  IF s.state = "established" THEN [s EXCEPT !.write_pending = TRUE]
        ELSE IF s.state # "udp" THEN s
        ELSE IF ~t.socket_bound THEN t
        ELSE [t EXCEPT !.datagram_lengths[s.datagram_count] = (s.tx_wr - s.last_send) % Wide,
                       !.datagram_count = @ + 1, !.last_send = s.tx_wr, !.write_pending = TRUE]

w5100_socket_recv(s) ==
    IF s.state \in {"udp", "established", "close_wait"}
    THEN LET left == (s.rx_rsr - (s.rx_rd - s.old_rx_rd)) % Wide
         IN  [s EXCEPT !.rx_rsr = left, !.old_rx_rd = s.rx_rd]
    ELSE s

w5100_write_socket_port(s, ok) ==
    IF s.bind_count = 0 THEN [s EXCEPT !.bind_count = 1]
    ELSE [(IF s.state = "udp" THEN Bound(s, ok) ELSE s) EXCEPT !.bind_count = 0]

\* How much of the transmit ring is free, as TX_FSR says.
Free(s) == Ring - ((s.tx_wr - s.tx_rr) % Wide)

-----------------------------------------------------------------------------
(* w5100_process.                                                          *)

\* The inner loop of w5100_process leaves its counter, which is the outer
\* loop's too, at 4: the first socket is the only one that is looked at.
\* (select would have to fail for the second to get its turn.)
Scanned == {0} \cap Sockets

InReadSet(s) ==
    /\ s.fd
    /\ \/ s.state = "udp" /\ Ring - s.rx_rsr >= Header + 1
       \/ s.state = "established" /\ Ring - s.rx_rsr >= 1
       \/ s.state = "listen"

InWriteSet(s) == s.fd /\ (s.write_pending \/ s.state = "connecting")

\* n bytes of a stream put into a ring, from place start on.
Stored(ring, start, n) ==
    [p \in Place |->
        LET i == (p - start) % Ring
        IN  IF i < n THEN (start + i) % Wide ELSE ring[p]]

\* Mutant: counts from the pointer that software is moving.
Received_live(s, n) ==
    [s EXCEPT !.rx_rsr = @ + n, !.rx_buffer = Stored(@, s.rx_rd + s.rx_rsr, n)]

\* n bytes go into the receive ring.
Received(s, n) ==
    [s EXCEPT !.rx_rsr = @ + n, !.rx_buffer = Stored(@, s.old_rx_rd + s.rx_rsr, n)]

\* What recvfrom or recv may leave: an error, the end of a connection, or
\* some bytes.  (The socket is not in CLOSE_WAIT here: InReadSet.)
w5100_socket_process_read(s) ==
    {s} \cup
    (IF s.state = "established" THEN {[s EXCEPT !.state = "close_wait"]} ELSE {}) \cup
    (IF traffic = "out" THEN {}
     ELSE IF s.state = "udp"
     THEN {Received(s, n + Header) : n \in 0 .. Ring - s.rx_rsr - Header}
     ELSE {Received(s, n) : n \in 1 .. Ring - s.rx_rsr})

w5100_socket_process_accept(s) == {s, [s EXCEPT !.state = "established"]}

w5100_socket_process_udp_write(s) ==
    LET count == s.datagram_count - 1
        sent  == [s EXCEPT
                     !.datagram_count = count,
                     !.datagram_lengths = IF count = 0 THEN @
                         ELSE [i \in DOMAIN @ |-> IF i + 1 \in DOMAIN @ THEN @[i + 1] ELSE @[i]],
                     !.tx_rr = (@ + s.datagram_lengths[0]) % Wide]
    IN  IF count = 0 THEN [sent EXCEPT !.write_pending = FALSE, !.send_ok = TRUE]
        ELSE sent

\* Mutant: stops a byte before the end of the ring.
Chunk_short(s) ==
    LET length == (s.tx_wr - s.tx_rr) % Wide
        offset == s.tx_rr % Ring
    IN  IF offset + length > Ring THEN Ring - 1 - offset ELSE length

\* The bytes that can be sent in one piece.
Chunk(s) ==
    LET length == (s.tx_wr - s.tx_rr) % Wide
        offset == s.tx_rr % Ring
    IN  IF offset + length > Ring THEN Ring - offset ELSE length

\* The host has taken n bytes.
w5100_socket_process_tcp_write(s, n) ==
    LET t == [s EXCEPT !.tx_rr = (@ + n) % Wide]
    IN  IF t.tx_rr = t.tx_wr
        THEN [t EXCEPT !.write_pending = FALSE, !.send_ok = TRUE]
        ELSE t

w5100_socket_process_connect(s, ok) ==
    IF ok THEN [s EXCEPT !.state = "established"] ELSE nic_w5100_socket_reset(s)

\* The host takes something of what is to be written.
Written(s) ==
    CASE s.state = "udp"         -> {w5100_socket_process_udp_write(s)}
      [] s.state = "established" -> {w5100_socket_process_tcp_write(s, n) :
                                        n \in (IF Chunk(s) = 0 THEN 0 ELSE 1) .. Chunk(s)}
      [] s.state = "connecting"  -> {w5100_socket_process_connect(s, ok) : ok \in BOOLEAN}
      [] OTHER                   -> {s}

\* What nic_w5100_socket_process_io may do to the socket's reading side.  The
\* descriptor of an accepted connection is in neither set.
ReadIo(s) ==
    IF ~InReadSet(s) THEN {s}
    ELSE {s} \cup IF s.state = "listen" THEN w5100_socket_process_accept(s)
                  ELSE w5100_socket_process_read(s)

WriteIo(s, t) ==
    IF InWriteSet(s) /\ ~(s.state = "listen" /\ t.state = "established")
    THEN {t} \cup Written(t) ELSE {t}

\* One call.
W5100Process ==
    \E k \in Scanned :
        LET s == [sock[k] EXCEPT !.ok_for_io = @ \/ sock[k].fd]
        IN  /\ s.datagram_count > -MaxStray
            /\ \E t \in ReadIo(s) : \E u \in WriteIo(s, t) : sock' = [sock EXCEPT ![k] = u]
            /\ UNCHANGED half

\* A call in which the host takes something of what is to be written.
W5100Takes ==
    \E k \in Scanned :
        LET s == [sock[k] EXCEPT !.ok_for_io = @ \/ sock[k].fd]
        IN  /\ s.datagram_count > -MaxStray
            /\ InWriteSet(s)
            /\ \E u \in Written(s) : sock' = [sock EXCEPT ![k] = u]
            /\ UNCHANGED half

-----------------------------------------------------------------------------
(* Software, between the two bytes of a pointer and else.                  *)

NoHalf == [socket |-> -1, which |-> "none", to |-> 0]
Half == [socket : Sockets, which : {"tx_wr", "rx_rd"}, to : Pointer] \cup {NoHalf}

W5100Init ==
    /\ sock = [k \in Sockets |-> SocketCreated]
    /\ traffic \in {"in", "out"}
    /\ half = NoHalf
    /\ aborted = {}

\* Any write to a socket's registers but its port starts the port over.
Accessed(k, s) == sock' = [sock EXCEPT ![k] = [s EXCEPT !.bind_count = 0]]

WriteMr(k) == \E m \in SocketMode : Accessed(k, [sock[k] EXCEPT !.mode = m])

\* Software gives no more than MaxDatagrams datagrams between two calls of
\* w5100_process: the next one would be written behind datagram_lengths.
WriteCr(k) ==
    LET s == sock[k]
    IN  \E ok \in BOOLEAN, bound \in BOOLEAN :
            \/ Accessed(k, w5100_socket_open(s, ok))
            \/ Accessed(k, w5100_socket_listen(s, bound, ok))
            \/ \E a \in {"fail", "progress", "ok"} : Accessed(k, w5100_socket_connect(s, bound, a))
            \/ Accessed(k, w5100_socket_discon(s))
            \/ Accessed(k, w5100_socket_close(s))
            \/ s.datagram_count \in 0 .. MaxDatagrams - 1 /\ Accessed(k, w5100_socket_send(s, bound))
            \/ Accessed(k, w5100_socket_recv(s))

WriteIr(k) == Accessed(k, [sock[k] EXCEPT !.send_ok = FALSE])

WritePort(k) == \E ok \in BOOLEAN : sock' = [sock EXCEPT ![k] = w5100_write_socket_port(@, ok)]

\* A pointer with its high byte replaced by that of another.
HighByte(p, to) == (to \div Low) * Low + (p % Low)

\* Software puts n bytes into the transmit ring and writes TX_WR0.  It leaves
\* TX_WR alone while the bytes of a stream are being sent, as
\* w5100_socket_process_tcp_write reads the pointer as it is.
WriteTxWr0(k) ==
    LET s == sock[k]
    IN  /\ traffic = "out"
        /\ s.write_pending => s.state = "udp"
        /\ \E n \in 1 .. Free(s) :
            LET to == (s.tx_wr + n) % Wide
            IN  /\ Accessed(k, [s EXCEPT
                       !.tx_wr = HighByte(@, to),
                       !.tx_buffer = Stored(@, s.tx_wr, n)])
                /\ half' = [socket |-> k, which |-> "tx_wr", to |-> to]

\* Software has read n bytes of the receive ring and writes RX_RD0.
WriteRxRd0(k) ==
    LET s == sock[k]
    IN  \E n \in 1 .. s.rx_rsr - ((s.rx_rd - s.old_rx_rd) % Wide) :
            LET to == (s.rx_rd + n) % Wide
            IN  /\ Accessed(k, [s EXCEPT !.rx_rd = HighByte(@, to)])
                /\ half' = [socket |-> k, which |-> "rx_rd", to |-> to]

\* A pointer with its low byte replaced by that of another.
LowByte(p, to) == (p \div Low) * Low + (to % Low)

\* The second half: what the first one left, if w5100_process has not reset the
\* socket meanwhile.
WriteLowByte ==
    /\ half # NoHalf
    /\ Accessed(half.socket, [sock[half.socket] EXCEPT
           !.tx_wr = IF half.which = "tx_wr" THEN LowByte(@, half.to) ELSE @,
           !.rx_rd = IF half.which = "rx_rd" THEN LowByte(@, half.to) ELSE @])
    /\ half' = NoHalf

\* Bit 7 of the chip's MR.
W5100Reset ==
    /\ half = NoHalf
    /\ sock' = [k \in Sockets |-> nic_w5100_socket_reset(sock[k])]
    /\ UNCHANGED half

W5100Cpu ==
    \/ WriteLowByte
    \/ W5100Reset
    \/ /\ half = NoHalf
       /\ \E k \in Sockets :
            \/ (WriteMr(k) \/ WriteCr(k) \/ WriteIr(k) \/ WritePort(k)) /\ UNCHANGED half
            \/ WriteTxWr0(k) \/ WriteRxRd0(k)

\* The sockets that were closed with a write pending and have not got rid of it.
RecordAborted ==
    aborted' = {k \in Sockets : sock'[k].write_pending /\ (k \in aborted \/ ~sock'[k].fd)}

W5100Next == (W5100Cpu \/ W5100Process) /\ RecordAborted /\ UNCHANGED traffic

W5100Spec == W5100Init /\ [][W5100Next]_w5100Vars /\ WF_w5100Vars(W5100Takes /\ RecordAborted /\ UNCHANGED traffic)

-----------------------------------------------------------------------------

W5100TypeOK ==
    /\ sock \in [Sockets -> SocketRecord]
    /\ half \in Half
    /\ aborted \subseteq Sockets

Whole(k, which) == ~(half.socket = k /\ half.which = which)

\* The receive ring holds the next bytes of the stream, each in its place,
\* also when w5100_process runs between the two bytes of a new RX_RD or
\* between RX_RD and RECV; and there are never more than fit.
W5100RxInStep ==
    \A k \in Sockets :
        LET s == sock[k]
        IN  /\ s.rx_rsr <= Ring
            /\ Whole(k, "rx_rd") => (s.rx_rd - s.old_rx_rd) % Wide <= s.rx_rsr
            /\ \A i \in 0 .. s.rx_rsr - 1 :
                   s.rx_buffer[(s.old_rx_rd + i) % Ring] = (s.old_rx_rd + i) % Wide

\* The lengths of the first n datagrams.
TotalLength(s, n) ==
    LET total[i \in 0 .. MaxDatagrams] == IF i = 0 THEN 0 ELSE total[i - 1] + s.datagram_lengths[i - 1]
    IN  total[n]

\* What has been handed over and not been sent is in the transmit ring, and
\* the queue of datagrams cuts it where SEND was given; a write is pending
\* exactly when there is a datagram.  A socket closed with a write pending
\* keeps write_pending, and the next one opened in its place is the exception.
W5100TxInStep ==
    \A k \in Sockets \ aborted :
        LET s == sock[k]
        IN  /\ Whole(k, "tx_wr") =>
                   \A i \in 0 .. ((s.tx_wr - s.tx_rr) % Wide) - 1 :
                       s.tx_buffer[(s.tx_rr + i) % Ring] = (s.tx_rr + i) % Wide
            /\ s.state = "udp" =>
                   /\ s.write_pending <=> s.datagram_count > 0
                   /\ (s.tx_rr + TotalLength(s, s.datagram_count)) % Wide = s.last_send

\* What was to be sent on a connection is sent, in as many pieces as the host
\* takes and however it lies in the ring, if the host takes some; and SEND_OK
\* is raised when, and only when, the last piece has gone.
W5100Sends ==
    /\ \A k \in Scanned :
           sock[k].write_pending /\ sock[k].state = "established"
               ~> ~sock[k].write_pending \/ sock[k].state # "established"
    /\ [][\A k \in Scanned :
            sock'[k].send_ok /\ ~sock[k].send_ok =>
                /\ sock[k].write_pending /\ ~sock'[k].write_pending
                /\ k \notin aborted =>
                       sock'[k].tx_rr = IF sock[k].state = "udp" THEN sock[k].last_send ELSE sock[k].tx_wr]_w5100Vars
=============================================================================
