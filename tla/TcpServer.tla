------------------------------ MODULE TcpServer ------------------------------
(***************************************************************************)
(* The TCP server (olympus/peripherals/ETH/tcp_server.c), as lwIP calls it: a     *)
(* connection is accepted, receives, is closed by the peer or fails.  Each has     *)
(* two blocks of lwIP's heap, its tcp_conn_t and in there the handler that parses  *)
(* its packets (initCommsHandler, runCommsFSM).                                    *)
(*                                                                               *)
(* mem_malloc clears nothing: a block that is handed out holds anything, the packet   *)
(* buffer of an earlier connection's handler included, and initCommsHandler leaves      *)
(* packetBuffer as it is.  Of packetBuffer the length byte is followed.  A block that    *)
(* is freed twice leaves the heap's lists broken (lwIP's assertion is compiled out);      *)
(* what happens after that is not modelled.                                              *)
(***************************************************************************)
EXTENDS Integers

CONSTANTS
  Pcbs,             \* lwIP's connection blocks, which it uses again
  Blocks,           \* blocks of the heap
  NULL,
  Byte,             \* the byte values in use
  START_BYTE_1, START_BYTE_2,
  HEADER_SIZE,      \* sizeof(PacketHeader_t), 5; the length is its last byte
  MAX_PACKET_SIZE   \* 64

ASSUME TcpConstants ==
  /\ NULL \notin Pcbs \cup Blocks
  /\ Byte \subseteq Nat /\ Byte # {}
  /\ HEADER_SIZE \in Nat /\ HEADER_SIZE >= 4
  /\ MAX_PACKET_SIZE \in Nat /\ MAX_PACKET_SIZE > HEADER_SIZE

VARIABLES
  pcb,        \* the state of each: "free", "open", or "closing" without callbacks
  arg,        \* its tcp_arg: the tcp_conn_t
  used,       \* the blocks handed out
  mem,        \* their contents: a tcp_conn_t's hdl, a handler's other fields
  stream,     \* bytes of an unfinished packet that the client of each has sent
  freedTwice, \* mem_free was given a block that is free
  noHandler   \* accept has failed to get a handler

tcpVars == <<pcb, arg, used, mem, stream, freedTwice, noHandler>>

Contents == [hdl : {NULL}, arg : {NULL}, state : {"START_1", "START_2", "HEADER", "DATA", "CRC"},
             packetIdx : 0 .. MAX_PACKET_SIZE - 1, packetLen : Byte]

(* Stands for the contents of a block that is free or not a handler. *)
Blank == [hdl |-> NULL, arg |-> NULL, state |-> "START_1", packetIdx |-> 0,
          packetLen |-> CHOOSE b \in Byte : TRUE]

TcpInit ==
  /\ pcb = [c \in Pcbs |-> "free"]
  /\ arg = [c \in Pcbs |-> NULL]
  /\ used = {}
  /\ mem = [b \in Blocks |-> Blank]
  /\ stream = [c \in Pcbs |-> 0]
  /\ freedTwice = FALSE
  /\ noHandler = FALSE

Available == Blocks \ used

\* Mutant of initCommsHandler: the parser goes on where the block's last owner was.
initCommsHandler_keepsState(h, c) == [h EXCEPT !.arg = c, !.packetIdx = 0]

initCommsHandler(h, c) == [h EXCEPT !.state = "START_1", !.packetIdx = 0, !.arg = c]

tcp_server_accept(c) ==
  /\ pcb[c] = "free"
  /\ \E conn \in Available : \E hdl \in Available \ {conn}, old \in Contents :
       /\ used' = used \cup {conn, hdl}
       /\ mem' = [mem EXCEPT ![conn].hdl = hdl, ![hdl] = initCommsHandler(old, c)]
       /\ arg' = [arg EXCEPT ![c] = conn]
  /\ pcb' = [pcb EXCEPT ![c] = "open"]
  /\ stream' = [stream EXCEPT ![c] = 0]
  /\ UNCHANGED <<freedTwice, noHandler>>

(* mem_free on the connection's handler, or NULL, and on the connection. *)
tcp_server_connection_free(conn) ==
  LET both == {conn, mem[conn].hdl} IN
  /\ used' = used \ both
  /\ mem' = [b \in Blocks |-> IF b \in both THEN Blank ELSE mem[b]]
  /\ freedTwice' = ~(both \subseteq used \cup {NULL})

(* The second allocation fails: conn is free again when it is freed on the way out.  *)
(* lwIP then aborts the connection.  (When the first fails nothing is changed.)      *)
tcp_server_accept_noHandler(c) ==
  /\ pcb[c] = "free"
  /\ \E conn \in Available : tcp_server_connection_free(conn)
  /\ noHandler' = TRUE
  /\ UNCHANGED <<pcb, arg, stream>>

(***************************************************************************)
(* runCommsFSM on one byte: the handler after it.  (What it does with a whole     *)
(* packet is in CommsFSM.)                                                       *)
(***************************************************************************)
Put(h, b) == [h EXCEPT !.packetIdx = @ + 1,
                       !.packetLen = IF h.packetIdx = HEADER_SIZE - 1 THEN b ELSE @]

(* There is one byte left, the CRC. *)
CrcDue(h) == h.packetIdx = h.packetLen - 1

AfterStart1(h, b) ==
  IF b = START_BYTE_1 THEN [h EXCEPT !.packetIdx = 1, !.state = "START_2"]
  ELSE [h EXCEPT !.packetIdx = 0]

AfterStart2(h, b) ==
  IF b = START_BYTE_2 THEN [h EXCEPT !.packetIdx = 2, !.state = "HEADER"]
  ELSE [h EXCEPT !.state = "START_1"]

(* The length is looked at one byte before it has arrived. *)
AfterHeader(h, b) ==
  LET g == Put(h, b) IN
  [g EXCEPT !.state = IF g.packetIdx # HEADER_SIZE - 1 THEN "HEADER"
                      ELSE IF CrcDue(g) THEN "CRC" ELSE "DATA"]

AfterData(h, b) ==
  LET g == Put(h, b) IN
  [g EXCEPT !.state = IF CrcDue(g) THEN "CRC"
                      ELSE IF g.packetIdx >= MAX_PACKET_SIZE - 1 THEN "START_1" ELSE "DATA"]

AfterCrc(h, b) ==
  [h EXCEPT !.state = "START_1", !.packetLen = Put(h, b).packetLen]

runCommsFSM(h, b) ==
  CASE h.state = "START_1" -> AfterStart1(h, b)
    [] h.state = "START_2" -> AfterStart2(h, b)
    [] h.state = "HEADER" -> AfterHeader(h, b)
    [] h.state = "DATA" -> AfterData(h, b)
    [] h.state = "CRC" -> AfterCrc(h, b)

(* The bytes of the packet under way that the client has sent, n before this one. *)
Sent(h, b, n) ==
  IF runCommsFSM(h, b).state = "START_1" THEN 0
  ELSE IF h.state = "START_1" THEN 1 ELSE n + 1

(* A byte of a segment, to the connection's handler. *)
tcp_server_recv(c, b) ==
  LET h == mem[arg[c]].hdl IN
  /\ pcb[c] = "open"
  /\ mem' = [mem EXCEPT ![h] = runCommsFSM(@, b)]
  /\ stream' = [stream EXCEPT ![c] = Sent(mem[h], b, @)]
  /\ UNCHANGED <<pcb, arg, used, freedTwice, noHandler>>

tcp_server_connection_close(c) ==
  /\ tcp_server_connection_free(arg[c])
  /\ arg' = [arg EXCEPT ![c] = NULL]
  /\ pcb' = [pcb EXCEPT ![c] = "closing"]

(* The peer has closed. *)
tcp_server_recv_empty(c) ==
  /\ pcb[c] = "open"
  /\ tcp_server_connection_close(c)
  /\ stream' = [stream EXCEPT ![c] = 0]
  /\ UNCHANGED noHandler

(* lwIP has given the connection up and calls tcp_err with its argument. *)
tcp_server_error(c) ==
  /\ pcb[c] = "open"
  /\ tcp_server_connection_free(arg[c])
  /\ pcb' = [pcb EXCEPT ![c] = "free"]
  /\ arg' = [arg EXCEPT ![c] = NULL]
  /\ stream' = [stream EXCEPT ![c] = 0]
  /\ UNCHANGED noHandler

(* The connection has ended on both sides. *)
tcp_pcb_purge(c) ==
  /\ pcb[c] = "closing"
  /\ pcb' = [pcb EXCEPT ![c] = "free"]
  /\ UNCHANGED <<arg, used, mem, stream, freedTwice, noHandler>>

TcpNext ==
  /\ ~freedTwice
  /\ \E c \in Pcbs :
       \/ tcp_server_accept(c) \/ tcp_server_accept_noHandler(c)
       \/ \E b \in Byte : tcp_server_recv(c, b)
       \/ tcp_server_recv_empty(c) \/ tcp_server_error(c) \/ tcp_pcb_purge(c)

TcpSpec == TcpInit /\ [][TcpNext]_tcpVars
-----------------------------------------------------------------------------

Handlers == [hdl : Blocks \cup {NULL}, arg : Pcbs \cup {NULL},
             state : {"START_1", "START_2", "HEADER", "DATA", "CRC"},
             packetIdx : 0 .. MAX_PACKET_SIZE - 1, packetLen : Byte]

TcpTypeOK ==
  /\ pcb \in [Pcbs -> {"free", "open", "closing"}]
  /\ arg \in [Pcbs -> Blocks \cup {NULL}]
  /\ used \subseteq Blocks
  /\ mem \in [Blocks -> Handlers]
  /\ stream \in [Pcbs -> 0 .. MAX_PACKET_SIZE]
  /\ freedTwice \in BOOLEAN /\ noHandler \in BOOLEAN

Open == { c \in Pcbs : pcb[c] = "open" }

Owned(c) == {arg[c], mem[arg[c]].hdl}

(* Once the next byte has completed the packet, checkPacket (comms.c:227) goes over as     *)
(* many bytes as the packet's length says: the n bytes and this one that the client sent,   *)
(* and no older ones.  The exception: the header ended one byte early, on a length byte      *)
(* left from an earlier packet, of this client or of the block's last owner (comms.c:199).   *)
(* The next byte, taken for the CRC, is then the length.                                     *)
OwnPacket(h, n) ==
  h.state = "CRC" =>
    /\ h.packetIdx = n
    /\ (\A b \in Byte : AfterCrc(h, b).packetLen = n + 1) \/ n = HEADER_SIZE - 1

(* As long as accept gets its handlers, no block is freed twice; and until one is,     *)
(* every open connection has two blocks of its own, every other block is free, its      *)
(* answers go to its own client, and the packets its handler completes are those of      *)
(* that client, whatever the block held before (initCommsHandler does not clear          *)
(* packetBuffer).                                                                        *)
OwnHandler ==
  /\ freedTwice => noHandler
  /\ ~freedTwice =>
       /\ used = UNION { Owned(c) : c \in Open }
       /\ \A c \in Open :
            /\ arg[c] # mem[arg[c]].hdl
            /\ Owned(c) \subseteq Blocks
            /\ mem[mem[arg[c]].hdl].arg = c
            /\ OwnPacket(mem[mem[arg[c]].hdl], stream[c])
       /\ \A c, d \in Open : c # d => Owned(c) \cap Owned(d) = {}

=============================================================================
