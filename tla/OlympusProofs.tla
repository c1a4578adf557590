---------------------------- MODULE OlympusProofs ----------------------------
(***************************************************************************)
(* Three parts of Olympus that share no state: the TCP server's connections own     *)
(* their memory, the console runs the lines that were typed, and the callbacks of    *)
(* the timer table run on time and leave no note sounding.  For any number of        *)
(* connections, blocks and bytes in a packet; for all sizes of the console's         *)
(* receive buffer and line buffer and any number of keys; for every size of the      *)
(* timer table, all songs and all periods.                                           *)
(***************************************************************************)
EXTENDS TcpServer, Console, Timers, SequenceTheorems, WellFoundedInduction, TLAPS

(***************************************************************************)
(* The TCP server.  Inductive is how far each handler is with its packet.         *)
(***************************************************************************)
Progress(h, n) ==
  /\ h.state = "START_1" => n = 0
  /\ h.state # "START_1" => n = h.packetIdx
  /\ h.state = "START_2" => h.packetIdx = 1
  /\ h.state = "HEADER" => h.packetIdx \in 2 .. HEADER_SIZE - 2
  /\ h.state = "DATA" => h.packetIdx \in HEADER_SIZE - 1 .. MAX_PACKET_SIZE - 2
  /\ h.state = "CRC" => h.packetLen = h.packetIdx + 1

TcpIInv ==
  /\ TcpTypeOK /\ OwnHandler
  /\ ~freedTwice => \A c \in Open : Progress(mem[mem[arg[c]].hdl], stream[c])

(* tcp_server.c: as long as accept gets its handlers no block is freed twice, and until   *)
(* then each connection parses in memory of its own, given back when it ends, and the       *)
(* packets it completes consist of its own client's bytes, whatever the memory held         *)
(* before, but for a header that ends early on an old length byte (OwnPacket).              *)
THEOREM ConnectionsOwnMemory == TcpSpec => []OwnHandler

(* A byte takes a handler to where its state says. *)
<1>RunByte.
  ASSUME NEW h \in Handlers, NEW b \in Byte, NEW n, Progress(h, n)
  PROVE  /\ runCommsFSM(h, b) \in Handlers
         /\ runCommsFSM(h, b).hdl = h.hdl /\ runCommsFSM(h, b).arg = h.arg
         /\ Sent(h, b, n) \in 0 .. MAX_PACKET_SIZE
         /\ Progress(runCommsFSM(h, b), Sent(h, b, n))
  <2> USE <1>RunByte
  <2> DEFINE g == runCommsFSM(h, b)
             next == h.packetIdx + 1
             len == IF h.packetIdx = HEADER_SIZE - 1 THEN b ELSE h.packetLen
             Is(st, i, l) == g = [h EXCEPT !.state = st, !.packetIdx = i, !.packetLen = l]
             States == {"START_1", "START_2", "HEADER", "DATA", "CRC"}
  <2>0. /\ h.state \in States /\ h.packetIdx \in 0 .. MAX_PACKET_SIZE - 1 /\ h.packetLen \in Byte
        /\ len \in Byte /\ h.packetLen \in Nat /\ len \in Nat
        /\ HEADER_SIZE \in Nat /\ HEADER_SIZE >= 4
        /\ MAX_PACKET_SIZE \in Nat /\ MAX_PACKET_SIZE > HEADER_SIZE
    BY TcpConstants, Zenon DEF Handlers
  <2>1. ASSUME NEW st \in States, NEW i \in 0 .. MAX_PACKET_SIZE - 1, NEW l \in Byte, Is(st, i, l)
        PROVE  /\ g \in Handlers /\ g.hdl = h.hdl /\ g.arg = h.arg
               /\ g.state = st /\ g.packetIdx = i /\ g.packetLen = l
    <3> HIDE DEF g
    <3> QED BY <2>1, Zenon DEF Handlers
  <2>2. CASE h.state = "START_1"
    <3> DEFINE st == IF b = START_BYTE_1 THEN "START_2" ELSE "START_1"
               i == IF b = START_BYTE_1 THEN 1 ELSE 0
    <3>1. Is(st, i, h.packetLen)
      <4>1. g = AfterStart1(h, b)
        BY <2>2, Zenon DEF runCommsFSM
      <4>2. [h EXCEPT !.packetIdx = 0] = [h EXCEPT !.state = "START_1", !.packetIdx = 0, !.packetLen = h.packetLen]
        BY <2>2, Zenon DEF Handlers
      <4>3. [h EXCEPT !.packetIdx = 1, !.state = "START_2"]
              = [h EXCEPT !.state = "START_2", !.packetIdx = 1, !.packetLen = h.packetLen]
        BY Zenon DEF Handlers
      <4> HIDE DEF g
      <4> QED BY <4>1, <4>2, <4>3, Zenon DEF AfterStart1
    <3>2. g.state \in {"START_1", "START_2"} /\ (g.state = "START_2" => g.packetIdx = 1)
          /\ g \in Handlers /\ g.hdl = h.hdl /\ g.arg = h.arg
      <4>1. /\ st \in States /\ i \in 0 .. MAX_PACKET_SIZE - 1 /\ h.packetLen \in Byte
            /\ st \in {"START_1", "START_2"} /\ (st = "START_2" => i = 1)
        BY <2>0
      <4> HIDE DEF st, i, States, g
      <4>2. g \in Handlers /\ g.hdl = h.hdl /\ g.arg = h.arg /\ g.state = st /\ g.packetIdx = i
        BY <2>1, <3>1, <4>1, Zenon
      <4> QED BY <4>1, <4>2, Zenon
    <3> HIDE DEF g
    <3> QED BY <2>0, <2>2, <3>2 DEF Progress, Sent, g
  <2>3. CASE h.state = "START_2"
    <3> DEFINE st == IF b = START_BYTE_2 THEN "HEADER" ELSE "START_1"
               i == IF b = START_BYTE_2 THEN 2 ELSE h.packetIdx
    <3>1. Is(st, i, h.packetLen)
      <4>1. g = AfterStart2(h, b)
        BY <2>3, Zenon DEF runCommsFSM
      <4>2. [h EXCEPT !.state = "START_1"]
              = [h EXCEPT !.state = "START_1", !.packetIdx = h.packetIdx, !.packetLen = h.packetLen]
        BY Zenon DEF Handlers
      <4>3. [h EXCEPT !.packetIdx = 2, !.state = "HEADER"]
              = [h EXCEPT !.state = "HEADER", !.packetIdx = 2, !.packetLen = h.packetLen]
        BY Zenon DEF Handlers
      <4> HIDE DEF g
      <4> QED BY <4>1, <4>2, <4>3, Zenon DEF AfterStart2
    <3>2. g.state \in {"START_1", "HEADER"} /\ (g.state = "HEADER" => g.packetIdx = 2)
          /\ g \in Handlers /\ g.hdl = h.hdl /\ g.arg = h.arg
      <4>1. /\ st \in States /\ i \in 0 .. MAX_PACKET_SIZE - 1 /\ h.packetLen \in Byte
            /\ st \in {"START_1", "HEADER"} /\ (st = "HEADER" => i = 2)
        BY <2>0
      <4> HIDE DEF st, i, States, g
      <4>2. g \in Handlers /\ g.hdl = h.hdl /\ g.arg = h.arg /\ g.state = st /\ g.packetIdx = i
        BY <2>1, <3>1, <4>1, Zenon
      <4> QED BY <4>1, <4>2, Zenon
    <3>3. n = 1
      BY <2>3 DEF Progress
    <3> HIDE DEF g
    <3> QED BY <2>0, <2>3, <3>2, <3>3 DEF Progress, Sent, g
  <2>4. CASE h.state = "HEADER"
    <3>1. n = h.packetIdx /\ h.packetIdx \in 2 .. HEADER_SIZE - 2 /\ len = h.packetLen
      BY <2>0, <2>4 DEF Progress
    <3> DEFINE st == IF next # HEADER_SIZE - 1 THEN "HEADER" ELSE IF next = len - 1 THEN "CRC" ELSE "DATA"
    <3>2. Is(st, next, len)
      BY <2>4, Zenon DEF runCommsFSM, AfterHeader, Put, CrcDue, Handlers
    <3>3. st \in States /\ next \in 0 .. MAX_PACKET_SIZE - 1
      BY <2>0, <3>1
    <3>4. /\ g \in Handlers /\ g.hdl = h.hdl /\ g.arg = h.arg
          /\ g.state = st /\ g.packetIdx = next /\ g.packetLen = len
      <4>1. len \in Byte
        BY <2>0
      <4> HIDE DEF st, next, len, States, g
      <4> QED BY <2>1, <3>2, <3>3, <4>1, Zenon
    <3> HIDE DEF g
    <3>5. Sent(h, b, n) = next
      BY <2>4, <3>1, <3>4 DEF Sent, g
    <3>6. Progress(g, next)
      BY <2>0, <3>1, <3>4 DEF Progress
    <3> QED BY <2>0, <3>3, <3>4, <3>5, <3>6 DEF g
  <2>5. CASE h.state = "DATA"
    <3>1. n = h.packetIdx /\ h.packetIdx \in HEADER_SIZE - 1 .. MAX_PACKET_SIZE - 2
      BY <2>0, <2>5 DEF Progress
    <3> DEFINE st == IF next = len - 1 THEN "CRC" ELSE IF next >= MAX_PACKET_SIZE - 1 THEN "START_1" ELSE "DATA"
    <3>2. Is(st, next, len)
      BY <2>5, Zenon DEF runCommsFSM, AfterData, Put, CrcDue, Handlers
    <3>3. st \in States /\ next \in 0 .. MAX_PACKET_SIZE - 1
      BY <2>0, <3>1
    <3>4. /\ g \in Handlers /\ g.hdl = h.hdl /\ g.arg = h.arg
          /\ g.state = st /\ g.packetIdx = next /\ g.packetLen = len
      <4>1. len \in Byte
        BY <2>0
      <4> HIDE DEF st, next, len, States, g
      <4> QED BY <2>1, <3>2, <3>3, <4>1, Zenon
    <3> HIDE DEF g
    <3>5. Sent(h, b, n) = IF st = "START_1" THEN 0 ELSE next
      BY <2>5, <3>1, <3>4 DEF Sent, g
    <3>6. Progress(g, IF st = "START_1" THEN 0 ELSE next)
      BY <2>0, <3>1, <3>4 DEF Progress
    <3> QED BY <2>0, <3>3, <3>4, <3>5, <3>6 DEF g
  <2>6. CASE h.state = "CRC"
    <3>1. Is("START_1", h.packetIdx, len)
      BY <2>6, Zenon DEF runCommsFSM, AfterCrc, Put, Handlers
    <3>2. g.state = "START_1" /\ g \in Handlers /\ g.hdl = h.hdl /\ g.arg = h.arg
      BY <2>0, <2>1, <3>1, Zenon
    <3> HIDE DEF g
    <3> QED BY <2>0, <3>2 DEF Progress, Sent, g
  <2> QED BY <2>0, <2>2, <2>3, <2>4, <2>5, <2>6

(* A connection's blocks, as long as no block was freed twice: two, both handed out,   *)
(* and none of another connection.                                                    *)
<1>OwnBlocks.
  ASSUME TcpIInv, ~freedTwice
  PROVE  /\ \A b \in Blocks : b \in used <=> \E d \in Open : b \in Owned(d)
         /\ \A c \in Open : /\ arg[c] \in Blocks /\ mem[arg[c]].hdl \in Blocks
                            /\ arg[c] # mem[arg[c]].hdl
                            /\ arg[c] \in used /\ mem[arg[c]].hdl \in used
                            /\ mem[mem[arg[c]].hdl].arg = c
                            /\ Progress(mem[mem[arg[c]].hdl], stream[c])
         /\ \A c, d \in Open : c # d =>
              {arg[c], mem[arg[c]].hdl} \cap {arg[d], mem[arg[d]].hdl} = {}
  BY <1>OwnBlocks DEF TcpIInv, OwnHandler, Owned

(* Conversely, these facts make OwnHandler hold after a step. *)
<1>OwnAgain.
  ASSUME TcpTypeOK', freedTwice' => noHandler',
         ~freedTwice' =>
           /\ \A b \in Blocks : b \in used' <=> \E d \in Open' : b \in Owned(d)'
           /\ \A c \in Open' : /\ arg'[c] \in Blocks /\ mem'[arg'[c]].hdl \in Blocks
                               /\ arg'[c] # mem'[arg'[c]].hdl
                               /\ mem'[mem'[arg'[c]].hdl].arg = c
                               /\ Progress(mem'[mem'[arg'[c]].hdl], stream'[c])
           /\ \A c, d \in Open' : c # d => Owned(c)' \cap Owned(d)' = {}
  PROVE  TcpIInv'
  <2> USE <1>OwnAgain
  <2>1. ASSUME ~freedTwice' PROVE (used = UNION { Owned(c) : c \in Open })'
    <3>1. \A c \in Open' : Owned(c)' \subseteq Blocks
      BY <2>1 DEF Owned
    <3>2. used' \subseteq Blocks
      BY DEF TcpTypeOK
    <3> QED
      BY <2>1, <3>1, <3>2
  <2>2. ASSUME NEW h \in Handlers, NEW n, Progress(h, n)
        PROVE  OwnPacket(h, n)
    <3> SUFFICES ASSUME h.state = "CRC", n # HEADER_SIZE - 1, NEW b \in Byte
                 PROVE  AfterCrc(h, b).packetLen = n + 1
      BY <2>2 DEF OwnPacket, Progress
    <3>1. h.packetIdx = n /\ h.packetLen = n + 1
      BY <2>2 DEF Progress
    <3>2. Put(h, b).packetLen = h.packetLen
      BY <3>1, Zenon DEF Put, Handlers
    <3> QED BY <3>1, <3>2, Zenon DEF AfterCrc, Handlers
  <2>3. ASSUME ~freedTwice', NEW c \in Open' PROVE OwnPacket(mem'[mem'[arg'[c]].hdl], stream'[c])
    <3>1. mem'[mem'[arg'[c]].hdl] \in Handlers
      BY <2>3 DEF TcpTypeOK
    <3> QED BY <2>2, <2>3, <3>1
  <2> QED
    BY <2>1, <2>3 DEF TcpIInv, OwnHandler, Owned
<1>Blank. Blank \in Handlers
  <2>1. (CHOOSE b \in Byte : TRUE) \in Byte
    BY TcpConstants
  <2>2. 0 \in 0 .. MAX_PACKET_SIZE - 1
    BY TcpConstants
  <2> QED BY <2>1, <2>2, Zenon DEF Blank, Handlers
<1>1. TcpInit => TcpIInv
  <2> SUFFICES ASSUME TcpInit PROVE TcpIInv
    OBVIOUS
  <2>1. TcpTypeOK
    <3>1. 0 \in 0 .. MAX_PACKET_SIZE - 1 /\ 0 \in 0 .. MAX_PACKET_SIZE
      BY TcpConstants
    <3> QED
      BY <1>Blank, <3>1, Zenon DEF TcpInit, TcpTypeOK
  <2>2. Open = {} /\ used = {} /\ ~freedTwice
    BY DEF TcpInit, Open
  <2> QED
    BY <2>1, <2>2 DEF TcpIInv, OwnHandler
<1>2. TcpIInv /\ [TcpNext]_tcpVars => TcpIInv'
  <2> SUFFICES ASSUME TcpIInv, [TcpNext]_tcpVars PROVE TcpIInv'
    OBVIOUS
  <2>0. TcpTypeOK
    BY DEF TcpIInv
  <2>1. CASE UNCHANGED tcpVars
    BY <2>1 DEF tcpVars, TcpIInv, TcpTypeOK, OwnHandler, Open, Owned
  <2>2. ASSUME ~freedTwice, NEW c \in Pcbs, tcp_server_accept(c) PROVE TcpIInv'
    <3>1. PICK conn \in Available, hdl \in Available, old \in Contents :
            /\ conn # hdl
            /\ used' = used \cup {conn, hdl}
            /\ mem' = [mem EXCEPT ![conn].hdl = hdl, ![hdl] = initCommsHandler(old, c)]
            /\ arg' = [arg EXCEPT ![c] = conn]
      BY <2>2, Zenon DEF tcp_server_accept
    <3>2. conn \in Blocks /\ hdl \in Blocks /\ conn # hdl /\ conn \notin used /\ hdl \notin used
      BY <3>1 DEF Available
    <3>3. /\ mem'[conn].hdl = hdl /\ mem'[hdl].arg = c /\ Progress(mem'[hdl], 0)
          /\ \A b \in Blocks \ {conn, hdl} : mem'[b] = mem[b]
          /\ mem' \in [Blocks -> Handlers]
      <4>1. mem \in [Blocks -> Handlers] /\ 0 \in 0 .. MAX_PACKET_SIZE - 1
        BY <2>0, TcpConstants DEF TcpTypeOK
      <4> DEFINE h0 == initCommsHandler(old, c)
                 c1 == [mem[conn] EXCEPT !.hdl = hdl]
      <4>2. h0 \in Handlers /\ h0.arg = c /\ h0.state = "START_1"
        BY <2>2, <4>1, Zenon DEF Contents, Handlers, initCommsHandler
      <4>3. c1 \in Handlers /\ c1.hdl = hdl
        BY <3>2, <4>1 DEF Handlers
      <4>4. mem' = [[mem EXCEPT ![conn] = c1] EXCEPT ![hdl] = h0]
        BY <3>1, <3>2, <4>1, Zenon
      <4> HIDE DEF h0, c1
      <4>5. Progress(h0, 0)
        BY <4>2 DEF Progress
      <4> QED
        BY <3>2, <4>1, <4>2, <4>3, <4>4, <4>5
    <3>4. pcb' = [pcb EXCEPT ![c] = "open"] /\ stream' = [stream EXCEPT ![c] = 0]
          /\ freedTwice' = freedTwice /\ noHandler' = noHandler /\ pcb[c] = "free"
      BY <2>2 DEF tcp_server_accept
    <3>5. TcpTypeOK'
      <4>1. 0 \in 0 .. MAX_PACKET_SIZE
        BY TcpConstants
      <4> QED
        BY <2>0, <3>1, <3>2, <3>3, <3>4, <4>1 DEF TcpTypeOK
    <3>6. Open' = Open \cup {c} /\ c \notin Open
      BY <2>0, <3>4 DEF TcpTypeOK, Open
    <3>7. ASSUME NEW d \in Open
          PROVE  arg'[d] = arg[d] /\ mem'[arg[d]] = mem[arg[d]] /\ stream'[d] = stream[d]
                 /\ mem'[mem[arg[d]].hdl] = mem[mem[arg[d]].hdl] /\ Owned(d)' = Owned(d)
                 /\ conn \notin Owned(d) /\ hdl \notin Owned(d)
      BY <2>0, <2>2, <3>1, <3>2, <3>3, <3>4, <3>6, <1>OwnBlocks DEF TcpTypeOK, Open, Owned
    <3>8. Owned(c)' = {conn, hdl} /\ arg'[c] = conn /\ stream'[c] = 0
      BY <2>0, <3>1, <3>3, <3>4 DEF Owned, TcpTypeOK
    <3>9. \A b \in Blocks : b \in used' <=> \E d \in Open' : b \in Owned(d)'
      BY <2>2, <3>1, <3>6, <3>7, <3>8, <1>OwnBlocks
    <3>10. \A d, e \in Open' : d # e => Owned(d)' \cap Owned(e)' = {}
      <4>1. \A d, e \in Open : d # e => Owned(d) \cap Owned(e) = {}
        BY <2>2, <1>OwnBlocks DEF Owned
      <4> QED
        BY <3>6, <3>7, <3>8, <4>1
    <3>11. \A d \in Open' : /\ arg'[d] \in Blocks /\ mem'[arg'[d]].hdl \in Blocks
                            /\ arg'[d] # mem'[arg'[d]].hdl
                            /\ mem'[mem'[arg'[d]].hdl].arg = d
                            /\ Progress(mem'[mem'[arg'[d]].hdl], stream'[d])
      BY <2>2, <3>2, <3>3, <3>6, <3>7, <3>8, <1>OwnBlocks
    <3> QED
      BY <2>2, <3>4, <3>5, <3>9, <3>10, <3>11, <1>OwnAgain
  <2>3. ASSUME NEW conn \in Blocks, tcp_server_connection_free(conn)
        PROVE  /\ used' \subseteq Blocks /\ mem' \in [Blocks -> Handlers]
               /\ \A b \in Blocks \ {conn, mem[conn].hdl} : mem'[b] = mem[b]
               /\ used' = used \ {conn, mem[conn].hdl}
               /\ freedTwice' \in BOOLEAN
               /\ freedTwice' <=> ~({conn, mem[conn].hdl} \subseteq used \cup {NULL})
    <3>1. mem \in [Blocks -> Handlers] /\ used \subseteq Blocks
      BY <2>0 DEF TcpTypeOK
    <3>3. mem' = [b \in Blocks |-> IF b \in {conn, mem[conn].hdl} THEN Blank ELSE mem[b]]
      BY <2>3, Zenon DEF tcp_server_connection_free
    <3>4. /\ used' = used \ {conn, mem[conn].hdl}
          /\ freedTwice' = ~({conn, mem[conn].hdl} \subseteq used \cup {NULL})
      BY <2>3, Zenon DEF tcp_server_connection_free
    <3>5. freedTwice' \in BOOLEAN
      BY <3>4, Zenon
    <3> QED
      BY <1>Blank, <3>1, <3>3, <3>4, <3>5, Zenon
  <2>4. ASSUME ~freedTwice, NEW c \in Pcbs, tcp_server_accept_noHandler(c) PROVE TcpIInv'
    <3>1. PICK conn \in Available : tcp_server_connection_free(conn)
      BY <2>4 DEF tcp_server_accept_noHandler
    <3>2. conn \in Blocks /\ conn \notin used /\ conn # NULL
      BY <3>1, TcpConstants DEF Available
    <3>3. freedTwice' /\ noHandler' = TRUE /\ pcb' = pcb /\ arg' = arg /\ stream' = stream
      BY <2>3, <2>4, <3>1, <3>2 DEF tcp_server_accept_noHandler
    <3>4. TcpTypeOK'
      BY <2>0, <2>3, <3>1, <3>2, <3>3 DEF TcpTypeOK
    <3> QED
      BY <3>3, <3>4, <1>OwnAgain
  <2>5. ASSUME ~freedTwice, NEW c \in Open, NEW x \in {"free", "closing"},
               tcp_server_connection_free(arg[c]), pcb' = [pcb EXCEPT ![c] = x],
               arg' = [arg EXCEPT ![c] = NULL], stream' = [stream EXCEPT ![c] = 0], UNCHANGED noHandler
        PROVE  TcpIInv'
    <3>1. arg[c] \in Blocks /\ c \in Pcbs /\ Owned(c) = {arg[c], mem[arg[c]].hdl}
      BY <2>5, <1>OwnBlocks DEF Open, Owned
    <3>2. /\ used' = used \ Owned(c) /\ mem' \in [Blocks -> Handlers] /\ used' \subseteq Blocks
          /\ \A b \in Blocks \ Owned(c) : mem'[b] = mem[b]
          /\ freedTwice' \in BOOLEAN
          /\ freedTwice' <=> ~(Owned(c) \subseteq used \cup {NULL})
      BY <2>3, <2>5, <3>1, Zenon
    <3>3. ~freedTwice'
      <4>1. arg[c] \in used /\ mem[arg[c]].hdl \in used
        BY <2>5, <1>OwnBlocks
      <4>2. Owned(c) \subseteq used \cup {NULL}
        BY <3>1, <4>1
      <4> QED
        BY <3>2, <4>2
    <3>4. TcpTypeOK'
      <4>1. 0 \in 0 .. MAX_PACKET_SIZE
        BY TcpConstants
      <4> QED BY <2>0, <2>5, <3>1, <3>2, <3>3, <4>1 DEF TcpTypeOK
    <3>5. Open' = Open \ {c}
      BY <2>0, <2>5, <3>1 DEF TcpTypeOK, Open
    <3>6. ASSUME NEW d \in Open \ {c}
          PROVE  /\ arg'[d] = arg[d] /\ mem'[arg[d]] = mem[arg[d]] /\ stream'[d] = stream[d]
                 /\ mem'[mem[arg[d]].hdl] = mem[mem[arg[d]].hdl] /\ Owned(d)' = Owned(d)
                 /\ Owned(c) \cap Owned(d) = {}
      <4>1. Owned(c) \cap Owned(d) = {} /\ arg[d] \in Blocks /\ mem[arg[d]].hdl \in Blocks
        BY <2>5, <1>OwnBlocks DEF Owned
      <4>2. arg[d] \notin Owned(c) /\ mem[arg[d]].hdl \notin Owned(c)
        BY <4>1, Zenon DEF Owned
      <4>3. mem'[arg[d]] = mem[arg[d]] /\ mem'[mem[arg[d]].hdl] = mem[mem[arg[d]].hdl]
        BY <3>2, <4>1, <4>2
      <4>4. arg'[d] = arg[d] /\ stream'[d] = stream[d]
        BY <2>0, <2>5, <3>1 DEF TcpTypeOK, Open
      <4>5. Owned(d)' = Owned(d)
        BY <4>3, <4>4 DEF Owned
      <4> QED
        BY <4>1, <4>3, <4>4, <4>5
    <3>7. \A b \in Blocks : b \in used' <=> \E d \in Open' : b \in Owned(d)'
      BY <2>5, <3>2, <3>5, <3>6, <1>OwnBlocks
    <3>8. \A d, e \in Open' : d # e => Owned(d)' \cap Owned(e)' = {}
      <4>1. \A d, e \in Open : d # e => Owned(d) \cap Owned(e) = {}
        BY <2>5, <1>OwnBlocks DEF Owned
      <4> QED
        BY <3>5, <3>6, <4>1
    <3>9. \A d \in Open' : /\ arg'[d] \in Blocks /\ mem'[arg'[d]].hdl \in Blocks
                           /\ arg'[d] # mem'[arg'[d]].hdl
                           /\ mem'[mem'[arg'[d]].hdl].arg = d
                           /\ Progress(mem'[mem'[arg'[d]].hdl], stream'[d])
      BY <2>5, <3>5, <3>6, <1>OwnBlocks
    <3> QED
      BY <3>3, <3>4, <3>7, <3>8, <3>9, <1>OwnAgain
  <2>6. ASSUME ~freedTwice, NEW c \in Pcbs, NEW b \in Byte, tcp_server_recv(c, b)
        PROVE  TcpIInv'
    <3> DEFINE h == mem[arg[c]].hdl
               g == runCommsFSM(mem[h], b)
               k == Sent(mem[h], b, stream[c])
    <3>1. c \in Open /\ h \in Blocks /\ h # arg[c] /\ Progress(mem[h], stream[c])
          /\ mem[h].arg = c
      BY <2>6, <1>OwnBlocks DEF tcp_server_recv, Open
    <3>2. mem' = [mem EXCEPT ![h] = g]
          /\ stream' = [stream EXCEPT ![c] = k] /\ UNCHANGED <<pcb, arg, used, freedTwice, noHandler>>
      BY <2>0, <2>6, <3>1, Zenon DEF tcp_server_recv, TcpTypeOK
    <3>4. mem \in [Blocks -> Handlers] /\ mem[h] \in Handlers
      BY <2>0, <3>1 DEF TcpTypeOK
    <3>5. g \in Handlers /\ g.hdl = mem[h].hdl /\ g.arg = mem[h].arg /\ Progress(g, k)
      BY <2>6, <3>1, <3>4, <1>RunByte
    <3>3. k \in 0 .. MAX_PACKET_SIZE
      BY <2>6, <3>1, <3>4, <1>RunByte
    <3> HIDE DEF k, h, g
    <3>6. /\ mem' \in [Blocks -> Handlers] /\ Progress(mem'[h], k)
          /\ \A x \in Blocks : mem'[x].hdl = mem[x].hdl /\ mem'[x].arg = mem[x].arg
          /\ \A x \in Blocks \ {h} : mem'[x] = mem[x]
      BY <3>1, <3>2, <3>4, <3>5
    <3>7. TcpTypeOK'
      BY <2>0, <3>2, <3>3, <3>6 DEF TcpTypeOK
    <3>8. Open' = Open
      BY <3>2 DEF Open
    <3>9. \A d \in Open : Owned(d)' = Owned(d)
      BY <2>6, <3>2, <3>6, <1>OwnBlocks DEF Owned
    <3>10. \A x \in Blocks : x \in used' <=> \E d \in Open' : x \in Owned(d)'
      BY <2>6, <3>2, <3>8, <3>9, <1>OwnBlocks
    <3>11. \A d, e \in Open' : d # e => Owned(d)' \cap Owned(e)' = {}
      <4>1. \A d, e \in Open : d # e => Owned(d) \cap Owned(e) = {}
        BY <2>6, <1>OwnBlocks DEF Owned
      <4> QED
        BY <3>8, <3>9, <4>1
    <3>12. ASSUME NEW d \in Open
           PROVE  /\ arg'[d] \in Blocks /\ mem'[arg'[d]].hdl \in Blocks
                  /\ arg'[d] # mem'[arg'[d]].hdl
                  /\ mem'[mem'[arg'[d]].hdl].arg = d
                  /\ Progress(mem'[mem'[arg'[d]].hdl], stream'[d])
      <4>1. arg'[d] = arg[d] /\ mem'[arg'[d]].hdl = mem[arg[d]].hdl
            /\ mem[arg[d]].hdl \in Blocks /\ arg[d] \in Blocks /\ arg[d] # mem[arg[d]].hdl
        BY <2>6, <3>2, <3>6, <1>OwnBlocks
      <4>2. mem'[mem[arg[d]].hdl].arg = d
        BY <2>6, <3>6, <4>1, <1>OwnBlocks
      <4>3. CASE d = c
        BY <2>0, <2>6, <3>2, <3>6, <4>1, <4>2, <4>3 DEF h, TcpTypeOK
      <4>4. CASE d # c
        <5>1. mem[arg[d]].hdl # h /\ stream'[d] = stream[d]
          BY <2>0, <2>6, <3>1, <3>2, <4>4, <1>OwnBlocks DEF h, Open, TcpTypeOK
        <5> QED
          BY <2>6, <3>6, <4>1, <4>2, <5>1, <1>OwnBlocks
      <4> QED
        BY <4>3, <4>4
    <3> QED
      BY <2>6, <3>2, <3>7, <3>8, <3>10, <3>11, <3>12, <1>OwnAgain
  <2>7. ASSUME ~freedTwice, NEW c \in Pcbs, tcp_pcb_purge(c) PROVE TcpIInv'
    <3>1. Open' = Open /\ UNCHANGED <<arg, used, mem, stream, freedTwice, noHandler>>
      BY <2>0, <2>7 DEF tcp_pcb_purge, Open, TcpTypeOK
    <3>2. TcpTypeOK'
      BY <2>0, <2>7 DEF tcp_pcb_purge, TcpTypeOK
    <3> QED
      BY <3>1, <3>2 DEF TcpIInv, OwnHandler, Owned
  <2>8. ASSUME ~freedTwice, NEW c \in Pcbs, tcp_server_recv_empty(c) \/ tcp_server_error(c)
        PROVE  TcpIInv'
    <3>1. c \in Open
      BY <2>8 DEF tcp_server_recv_empty, tcp_server_error, Open
    <3> QED
      BY <2>5, <2>8, <3>1
         DEF tcp_server_recv_empty, tcp_server_error, tcp_server_connection_close
  <2> QED
    BY <2>1, <2>2, <2>4, <2>6, <2>7, <2>8 DEF TcpNext
<1> QED
  BY <1>1, <1>2, PTL DEF TcpSpec, TcpIInv

(***************************************************************************)
(* The console.  What the receive buffer and the line buffer hold is inductive.  *)
(***************************************************************************)
(* The slot of the i-th unread key. *)
RxSlot(pos, i) == IF pos + i - 1 < RxSize THEN pos + i - 1 ELSE pos + i - 1 - RxSize

(* The receive buffer holds the unread keys between the two positions. *)
RingInv ==
  /\ rxBuffer \in [0 .. RxSize - 1 -> Keys \cup {NUL}]
  /\ rxDma \in 0 .. RxSize - 1 /\ rxBufferPos \in 0 .. RxSize - 1
  /\ unread \in Seq(Keys) /\ Len(unread) <= RxSize
  /\ ~lapped => Len(unread) < RxSize
  /\ lapped => Len(unread) = RxSize
  /\ rxDma = RxSlot(rxBufferPos, Len(unread) + 1)
  /\ \A i \in 1 .. Len(unread) : rxBuffer[RxSlot(rxBufferPos, i)] = unread[i]

(* The line buffer holds the operator's line while one is open, and nothing behind it     *)
(* unless an overlong line was left there.                                               *)
EditInv ==
  /\ state \in {"START", "READING"} /\ (state = "READING" <=> opened)
  /\ cmdBuffer \in [0 .. CONSOLE_MAX_CMD_LEN - 1 -> Keys \cup {NUL}]
  /\ cmdBufferIdx \in 0 .. CONSOLE_MAX_CMD_LEN
  /\ line \in Seq(Keys)
  /\ opened => /\ Len(line) = cmdBufferIdx
               /\ \A i \in 1 .. Len(line) : cmdBuffer[i - 1] = line[i]
  /\ ~spoiled => \A i \in 0 .. CONSOLE_MAX_CMD_LEN - 1 :
                   (opened => Len(line) <= i) => cmdBuffer[i] = NUL
  /\ ran[1] = meant[1]
  /\ LineIsTyped

(* Until the receive buffer has been lapped, every line that the operator closes is the      *)
(* line that processCommand is given: for every buffer size and every line length.           *)
THEOREM LinesRunAsTyped == ConsoleSpec => []LineIsTyped
(* A key typed goes behind the unread ones. *)
<1>TypeKeepsRing.
  ASSUME RingInv, NEW k \in Keys, Type(k)
  PROVE  RingInv'
  <2> USE <1>TypeKeepsRing
  <2>0. RxSize \in Nat /\ RxSize >= 2
    BY ConsoleConstants
  <2>1. /\ ~lapped /\ rxBuffer' = [rxBuffer EXCEPT ![rxDma] = k]
        /\ rxDma' = (IF rxDma + 1 = RxSize THEN 0 ELSE rxDma + 1)
        /\ unread' = Append(unread, k) /\ rxBufferPos' = rxBufferPos
        /\ lapped' = (Len(unread) + 1 = RxSize)
    BY DEF Type
  <2>2. Len(unread) \in Nat /\ Len(unread) < RxSize /\ rxBufferPos \in 0 .. RxSize - 1
        /\ rxDma \in 0 .. RxSize - 1
    BY <2>1 DEF RingInv
  <2>3. /\ unread' \in Seq(Keys) /\ Len(unread') = Len(unread) + 1
        /\ unread'[Len(unread) + 1] = k /\ \A i \in 1 .. Len(unread) : unread'[i] = unread[i]
    BY <2>1, AppendProperties DEF RingInv
  <2>4. rxDma = RxSlot(rxBufferPos, Len(unread) + 1)
    BY DEF RingInv
  <2>5. rxDma' = RxSlot(rxBufferPos', Len(unread') + 1)
    <3>1. rxBufferPos' = rxBufferPos /\ Len(unread') + 1 = Len(unread) + 2
      BY <2>1, <2>2, <2>3
    <3>2. rxDma' = RxSlot(rxBufferPos, Len(unread) + 2)
      BY <2>0, <2>1, <2>2, <2>4 DEF RxSlot
    <3> QED
      BY <3>1, <3>2
  <2>6. ASSUME NEW i \in 1 .. Len(unread) + 1
        PROVE  rxBuffer'[RxSlot(rxBufferPos, i)] = unread'[i]
    <3>1. CASE i = Len(unread) + 1
      BY <2>1, <2>2, <2>3, <2>4, <3>1 DEF RingInv
    <3>2. CASE i # Len(unread) + 1
      <4>1. i \in 1 .. Len(unread)
        BY <2>2, <3>2
      <4>2. RxSlot(rxBufferPos, i) # rxDma /\ RxSlot(rxBufferPos, i) \in 0 .. RxSize - 1
        BY <2>0, <2>2, <2>4, <4>1 DEF RxSlot
      <4> QED
        BY <2>1, <2>3, <4>1, <4>2 DEF RingInv
    <3> QED
      BY <3>1, <3>2
  <2>7. rxBuffer' \in [0 .. RxSize - 1 -> Keys \cup {NUL}] /\ rxDma' \in 0 .. RxSize - 1
    BY <2>0, <2>1, <2>2 DEF RingInv
  <2>8. Len(unread') <= RxSize /\ (~lapped' => Len(unread') < RxSize)
        /\ (lapped' => Len(unread') = RxSize)
    <3>1. lapped' <=> Len(unread') = RxSize
      BY <2>1, <2>3, Zenon
    <3> QED
      BY <2>0, <2>2, <2>3, <3>1
  <2> QED
    BY <2>1, <2>2, <2>3, <2>5, <2>6, <2>7, <2>8 DEF RingInv

(* usartRead gets the oldest unread key, and finds none when there is none. *)
<1>ReadKeepsRing.
  ASSUME RingInv, consoleProcessBytes
  PROVE  RingInv' /\ unread # <<>> /\ data = Head(unread) /\ Head(unread) \in Keys /\ ~lapped
  <2> USE <1>ReadKeepsRing
  <2>0. RxSize \in Nat /\ RxSize >= 2
    BY ConsoleConstants
  <2>1. /\ getRxBytesAvailable # 0 /\ rxBufferPos' = NextPos(rxBufferPos) /\ rxBuffer' = rxBuffer
        /\ rxDma' = rxDma /\ lapped' = lapped /\ unread' = Tail(unread)
    BY DEF consoleProcessBytes, usartRead
  <2>2. Len(unread) \in Nat /\ Len(unread) <= RxSize /\ rxBufferPos \in 0 .. RxSize - 1
        /\ rxDma \in 0 .. RxSize - 1 /\ rxDma = RxSlot(rxBufferPos, Len(unread) + 1)
    BY DEF RingInv
  <2>3. Len(unread) # 0 /\ Len(unread) # RxSize
    BY <2>0, <2>1, <2>2 DEF getRxBytesAvailable, RxSlot
  <2>4. unread # <<>> /\ ~lapped
    BY <2>3 DEF RingInv
  <2>5. /\ Head(unread) \in Keys /\ Head(unread) = unread[1]
        /\ Tail(unread) \in Seq(Keys) /\ Len(Tail(unread)) = Len(unread) - 1
        /\ \A i \in 1 .. Len(unread) - 1 : Tail(unread)[i] = unread[i + 1]
    BY <2>4, HeadTailProperties DEF RingInv
  <2>51. Len(unread') = Len(unread) - 1
    BY <2>1, <2>5
  <2>6. data = Head(unread)
    <3>1. RxSlot(rxBufferPos, 1) = rxBufferPos /\ 1 \in 1 .. Len(unread)
      BY <2>0, <2>2, <2>3 DEF RxSlot
    <3> QED
      BY <2>5, <3>1 DEF data, RingInv
  <2>7. \A i \in 1 .. RxSize : RxSlot(NextPos(rxBufferPos), i) = RxSlot(rxBufferPos, i + 1)
    BY <2>0, <2>2 DEF RxSlot, NextPos
  <2>8. rxDma' = RxSlot(rxBufferPos', Len(unread') + 1)
    BY <2>1, <2>2, <2>3, <2>5, <2>7
  <2>9. ASSUME NEW i \in 1 .. Len(unread')
        PROVE  rxBuffer'[RxSlot(rxBufferPos', i)] = unread'[i]
    <3>1. i \in 1 .. RxSize /\ i \in 1 .. Len(unread) - 1 /\ i + 1 \in 1 .. Len(unread)
      BY <2>0, <2>2, <2>51
    <3>2. rxBuffer[RxSlot(rxBufferPos, i + 1)] = unread[i + 1]
      BY <3>1 DEF RingInv
    <3>3. RxSlot(rxBufferPos', i) = RxSlot(rxBufferPos, i + 1) /\ unread'[i] = unread[i + 1]
      BY <2>1, <2>5, <2>7, <3>1
    <3> QED
      BY <2>1, <3>2, <3>3
  <2>10. rxBufferPos' \in 0 .. RxSize - 1
    BY <2>0, <2>1, <2>2 DEF NextPos
  <2>11. Len(unread') <= RxSize /\ (~lapped' => Len(unread') < RxSize)
         /\ (lapped' => Len(unread') = RxSize)
    <3>1. ~lapped'
      BY <2>1, <2>4, Zenon
    <3> QED
      BY <2>0, <2>2, <2>51, <3>1
  <2>12. RingInv'
    BY <2>1, <2>5, <2>8, <2>9, <2>10, <2>11 DEF RingInv
  <2> QED
    BY <2>4, <2>5, <2>6, <2>12

(* The editor and the operator's line stay together, key by key. *)
<1>EditStep.
  ASSUME EditInv, consoleProcessBytes, data = Head(unread), data \in Keys
  PROVE  EditInv'
  <2> USE <1>EditStep
  <2> DEFINE L == CONSOLE_MAX_CMD_LEN
  <2>0. L \in Nat /\ L >= 1 /\ NUL \notin Keys /\ DEL # CloseKey /\ DEL # OpenKey /\ OpenKey # CloseKey
    BY ConsoleConstants DEF Keys, NUL, OpenKey, CloseKey, DEL
  <2>1. Edited(data) /\ (Backspace \/ Start \/ Run \/ Store)
    BY DEF consoleProcessBytes
  <2>2. Len(line) \in Nat /\ cmdBufferIdx \in 0 .. L
    BY DEF EditInv
  <2>3. CASE Backspace
    <3>1. data = DEL /\ state' = state /\ ran' = ran
      BY <2>3 DEF Backspace
    <3>2. (opened' <=> opened) /\ (spoiled' <=> spoiled) /\ meant' = meant /\ excused' = excused
          /\ line' = (IF ~opened THEN <<>> ELSE SubSeq(line, 1, Len(line) - 1))
      BY <2>0, <2>1, <3>1, Zenon DEF Edited
    <3>3. CASE cmdBufferIdx = 0
      <4>1. UNCHANGED <<cmdBufferIdx, cmdBuffer>>
        BY <2>3, <3>3 DEF Backspace
      <4>2. line' = <<>> /\ line' \in Seq(Keys) /\ Len(line') = 0
        <5>1. opened => Len(line) - 1 < 1
          BY <3>3 DEF EditInv
        <5> QED
          BY <2>2, <3>2, <5>1, SubSeqEmpty
      <4>3. opened => Len(line) = 0
        BY <3>3 DEF EditInv
      <4> QED
        BY <3>1, <3>2, <3>3, <4>1, <4>2, <4>3 DEF EditInv, LineIsTyped
    <3>4. CASE cmdBufferIdx # 0
      <4>1. cmdBufferIdx' = cmdBufferIdx - 1
            /\ cmdBuffer' = [cmdBuffer EXCEPT ![cmdBufferIdx - 1] = NUL]
        BY <2>2, <2>3, <3>4 DEF Backspace
      <4>2. cmdBufferIdx - 1 \in 0 .. L - 1
        BY <2>0, <2>2, <3>4
      <4>3. /\ cmdBuffer' \in [0 .. L - 1 -> Keys \cup {NUL}] /\ cmdBufferIdx' \in 0 .. L
            /\ cmdBuffer'[cmdBufferIdx - 1] = NUL
            /\ \A i \in 0 .. L - 1 : i # cmdBufferIdx - 1 => cmdBuffer'[i] = cmdBuffer[i]
        BY <2>0, <4>1, <4>2 DEF EditInv
      <4>4. CASE opened
        <5>1. Len(line) = cmdBufferIdx /\ line' = SubSeq(line, 1, Len(line) - 1)
          BY <3>2, <4>4 DEF EditInv
        <5>2. \A i \in 1 .. Len(line) - 1 : line[i] \in Keys
          BY <2>2, ElementOfSeq DEF EditInv
        <5>3. /\ line' \in Seq(Keys) /\ Len(line') = Len(line) - 1
              /\ \A i \in 1 .. Len(line) - 1 : line'[i] = line[i]
          BY <2>2, <3>4, <5>1, <5>2, SubSeqProperties
        <5>4. \A i \in 1 .. Len(line') : cmdBuffer'[i - 1] = line'[i]
          BY <2>0, <2>2, <4>3, <4>4, <5>1, <5>3 DEF EditInv
        <5>5. ~spoiled => \A i \in 0 .. L - 1 : Len(line') <= i => cmdBuffer'[i] = NUL
          BY <2>0, <2>2, <4>2, <4>3, <4>4, <5>1, <5>3 DEF EditInv
        <5> QED
          BY <3>1, <3>2, <4>1, <4>3, <4>4, <5>1, <5>3, <5>4, <5>5 DEF EditInv, LineIsTyped
      <4>5. CASE ~opened
        <5>1. line' = <<>> /\ line' \in Seq(Keys)
          BY <3>2, <4>5
        <5>2. ~spoiled => \A i \in 0 .. L - 1 : cmdBuffer'[i] = NUL
          BY <4>3, <4>5 DEF EditInv
        <5> QED
          BY <3>1, <3>2, <4>3, <4>5, <5>1, <5>2 DEF EditInv, LineIsTyped
      <4> QED
        BY <4>4, <4>5
    <3> QED
      BY <3>3, <3>4
  <2>4. CASE Start
    <3>1. data # DEL /\ ~opened /\ cmdBuffer' = cmdBuffer /\ ran' = ran
      BY <2>4 DEF Start, EditInv
    <3>2. (opened' <=> data = OpenKey) /\ (spoiled' <=> spoiled) /\ line' = <<>>
          /\ meant' = meant /\ excused' = excused
      BY <2>0, <2>1, <3>1, Zenon DEF Edited
    <3>3. /\ state' \in {"START", "READING"} /\ (state' = "READING" <=> data = OpenKey)
          /\ data = OpenKey => cmdBufferIdx' = 0
          /\ data # OpenKey => cmdBufferIdx' = cmdBufferIdx
      BY <2>4, <3>1 DEF Start
    <3>4. cmdBufferIdx' \in 0 .. L /\ line' \in Seq(Keys) /\ Len(line') = 0
      BY <2>0, <2>2, <3>2, <3>3
    <3>5. ~spoiled => \A i \in 0 .. L - 1 : cmdBuffer[i] = NUL
      BY <3>1 DEF EditInv
    <3> QED
      BY <3>1, <3>2, <3>3, <3>4, <3>5 DEF EditInv, LineIsTyped
  <2>5. CASE Run
    <3>1. data = CloseKey /\ opened /\ state' = "START" /\ cmdBufferIdx' = cmdBufferIdx
          /\ cmdBuffer' = [i \in 0 .. L - 1 |-> NUL]
      BY <2>5 DEF Run, EditInv
    <3>2. ~opened' /\ line' = <<>> /\ meant' = <<1 - meant[1], line>>
          /\ (excused' <=> (spoiled \/ Len(line) = L))
      BY <2>0, <2>1, <3>1, Zenon DEF Edited
    <3>3. PICK s \in Strings : ran' = <<1 - ran[1], s>>
      BY <2>5 DEF Run, processCommand
    <3>4. ASSUME ~spoiled, Len(line) # L
          PROVE  s = line
      <4>1. Len(line) \in 0 .. L - 1 /\ cmdBuffer[Len(line)] = NUL
        BY <2>0, <2>2, <3>1, <3>4 DEF EditInv
      <4>2. \A j \in 0 .. Len(line) - 1 : cmdBuffer[j] # NUL
        <5> TAKE j \in 0 .. Len(line) - 1
        <5>1. j + 1 \in 1 .. Len(line) /\ (j + 1) - 1 = j
          BY <2>2
        <5>2. cmdBuffer[j] = line[j + 1]
          BY <3>1, <5>1 DEF EditInv
        <5>3. line[j + 1] \in Keys
          BY <5>1, ElementOfSeq DEF EditInv
        <5> QED
          BY <2>0, <5>2, <5>3
      <4>3. PICK n \in 0 .. L - 1 : /\ s = String(n) /\ cmdBuffer[n] = NUL
                                    /\ \A j \in 0 .. n - 1 : cmdBuffer[j] # NUL
        BY <4>1 DEF Strings, Terminated
      <4>4. n = Len(line)
        <5>1. ~ (n < Len(line))
          BY <2>2, <4>2, <4>3
        <5>2. ~ (Len(line) < n)
          BY <2>2, <4>1, <4>3
        <5> QED
          BY <2>0, <2>2, <4>3, <5>1, <5>2
      <4>5. s = [i \in 1 .. Len(line) |-> line[i]]
        <5>1. \A i \in 1 .. Len(line) : cmdBuffer[i - 1] = line[i]
          BY <3>1 DEF EditInv
        <5> QED
          BY <4>3, <4>4, <5>1 DEF String
      <4>6. line \in [1 .. Len(line) -> Keys]
        BY LenProperties DEF EditInv
      <4> QED
        BY <4>5, <4>6
    <3>5. ran'[1] = meant'[1] /\ (excused' \/ ran' = meant')
      <4>1. ran[1] = meant[1]
        BY DEF EditInv
      <4> QED
        BY <3>2, <3>3, <3>4, <4>1
    <3>6. line' \in Seq(Keys) /\ Len(line') = 0
      BY <3>2
    <3>7. cmdBuffer' \in [0 .. L - 1 -> Keys \cup {NUL}] /\ \A i \in 0 .. L - 1 : cmdBuffer'[i] = NUL
      BY <3>1
    <3> QED
      BY <2>2, <3>1, <3>2, <3>5, <3>6, <3>7 DEF EditInv, LineIsTyped
  <2>6. CASE Store
    <3>1. data # DEL /\ data # CloseKey /\ opened /\ ran' = ran /\ state = "READING"
          /\ Len(line) = cmdBufferIdx
      BY <2>6 DEF Store, EditInv
    <3>2. (opened' <=> Len(line) < L) /\ line' = Append(line, data) /\ meant' = meant
          /\ excused' = excused /\ (spoiled' <=> (spoiled \/ ~opened'))
      BY <2>0, <2>1, <3>1, Zenon DEF Edited
    <3>3. /\ line' \in Seq(Keys) /\ Len(line') = Len(line) + 1 /\ line'[Len(line) + 1] = data
          /\ \A i \in 1 .. Len(line) : line'[i] = line[i]
      BY <3>2, AppendProperties DEF EditInv
    <3>4. CASE Len(line) < L
      <4>1. cmdBuffer' = [cmdBuffer EXCEPT ![Len(line)] = data] /\ cmdBufferIdx' = Len(line) + 1
            /\ state' = state
        BY <2>6, <3>1, <3>4 DEF Store
      <4>2. /\ cmdBuffer' \in [0 .. L - 1 -> Keys \cup {NUL}] /\ cmdBuffer'[Len(line)] = data
            /\ \A i \in 0 .. L - 1 : i # Len(line) => cmdBuffer'[i] = cmdBuffer[i]
        BY <2>0, <2>2, <3>4, <4>1 DEF EditInv
      <4>3. \A i \in 1 .. Len(line') : cmdBuffer'[i - 1] = line'[i]
        <5> TAKE i \in 1 .. Len(line')
        <5>1. CASE i = Len(line) + 1
          BY <2>2, <3>3, <4>2, <5>1
        <5>2. CASE i # Len(line) + 1
          <6>1. i \in 1 .. Len(line) /\ i - 1 \in 0 .. L - 1 /\ i - 1 # Len(line)
            BY <2>0, <2>2, <3>3, <3>4, <5>2
          <6>2. cmdBuffer[i - 1] = line[i]
            BY <3>1, <6>1 DEF EditInv
          <6> QED
            BY <3>3, <4>2, <6>1, <6>2
        <5> QED
          BY <5>1, <5>2
      <4>4. ~spoiled => \A i \in 0 .. L - 1 : Len(line') <= i => cmdBuffer'[i] = NUL
        <5>1. ~spoiled => \A i \in 0 .. L - 1 : Len(line) <= i => cmdBuffer[i] = NUL
          BY <3>1 DEF EditInv
        <5> QED
          BY <2>0, <2>2, <3>3, <4>2, <5>1
      <4>5. opened' /\ (spoiled' <=> spoiled)
        BY <3>2, <3>4, Zenon
      <4>6. cmdBufferIdx' \in 0 .. L
        BY <2>0, <2>2, <3>4, <4>1
      <4> QED
        BY <3>1, <3>2, <3>3, <4>1, <4>2, <4>3, <4>4, <4>5, <4>6 DEF EditInv, LineIsTyped
    <3>5. CASE ~ (Len(line) < L)
      <4>1. cmdBuffer' = cmdBuffer /\ cmdBufferIdx' = cmdBufferIdx /\ state' = "START"
        BY <2>6, <3>1, <3>5 DEF Store
      <4>2. ~opened' /\ spoiled'
        BY <3>2, <3>5, Zenon
      <4> QED
        BY <3>2, <3>1, <3>3, <4>1, <4>2 DEF EditInv, LineIsTyped
    <3> QED
      BY <3>4, <3>5
  <2> QED
    BY <2>1, <2>3, <2>4, <2>5, <2>6
<1>1. ConsoleInit => RingInv /\ EditInv
  <2> SUFFICES ASSUME ConsoleInit PROVE RingInv /\ EditInv
    OBVIOUS
  <2>1. RxSize \in Nat /\ RxSize >= 2 /\ CONSOLE_MAX_CMD_LEN \in Nat
    BY ConsoleConstants
  <2>2. RingInv
    BY <2>1 DEF ConsoleInit, RingInv, RxSlot
  <2>3. EditInv
    BY <2>1 DEF ConsoleInit, EditInv, LineIsTyped
  <2> QED
    BY <2>2, <2>3
<1>2. RingInv /\ EditInv /\ [ConsoleNext]_consoleVars => (RingInv /\ EditInv)'
  <2> SUFFICES ASSUME RingInv, EditInv, [ConsoleNext]_consoleVars PROVE (RingInv /\ EditInv)'
    OBVIOUS
  <2>1. ASSUME NEW k \in Keys, Type(k) PROVE (RingInv /\ EditInv)'
    <3>1. RingInv'
      BY <2>1, <1>TypeKeepsRing
    <3>2. EditInv'
      BY <2>1 DEF EditInv, LineIsTyped, Type
    <3> QED
      BY <3>1, <3>2
  <2>2. CASE consoleProcessBytes
    BY <2>2, <1>ReadKeepsRing, <1>EditStep
  <2>3. CASE UNCHANGED consoleVars
    <3>1. RingInv'
      BY <2>3 DEF consoleVars, RingInv, RxSlot
    <3>2. EditInv'
      BY <2>3 DEF consoleVars, EditInv, LineIsTyped
    <3> QED
      BY <3>1, <3>2
  <2> QED
    BY <2>1, <2>2, <2>3 DEF ConsoleNext
<1>3. EditInv => LineIsTyped
  BY DEF EditInv
<1> QED
  BY <1>1, <1>2, <1>3, PTL DEF ConsoleSpec

(***************************************************************************)
(* The timer table and the songs.                                                *)
(***************************************************************************)
(* An armed timer has been counted down once in every completed pass since it was   *)
(* set and once more if the current pass is past it; a timer set behind the slot    *)
(* at work gets one pass for nothing.                                               *)
CountRight(t, passes, past) ==
  /\ 1 <= t.currentValue /\ t.currentValue <= t.resetValue
  /\ passes - 1 <= t.resetValue - t.currentValue - past
  /\ t.resetValue - t.currentValue - past <= passes

Past(n, pos) == IF n < pos THEN 1 ELSE 0

Counted ==
  \A n \in Slots : Armed(timerList, n) => CountRight(timerList[n], age[n], Past(n, ndx))

(* The startup song still has its timer, or it has ended, and with it every note of   *)
(* the error song, which is shorter.                                                  *)
SongAlive ==
  refused \/ (\E n \in Slots : Armed(timerList, n) /\ timerList[n].callback = "startup")
          \/ (~sounding /\ idx = Len(windows))

TimersIInv == TimersTypeOK /\ Counted /\ SongAlive

TimerRecords == [currentValue : Nat, resetValue : Nat, callback : Callbacks]

(* The type invariant in two halves, of the table and of the flags. *)
TableOK ==
  /\ timerList \in [Slots -> TimerRecords]
  /\ ndx \in -1 .. MAX_NUM_CALLBACK_TIMERS
  /\ idx \in 0 .. Len(windows)
  /\ age \in [Slots -> Nat]
  /\ errors \in 0 .. MaxErrors

FlagsOK == shouldServiceCallbackTimer \in BOOLEAN /\ sounding \in BOOLEAN /\ refused \in BOOLEAN

(* The two halves make the whole. *)
LEMMA TypeInHalves ==
  (TimersTypeOK <=> TableOK /\ FlagsOK) /\ (TimersTypeOK' <=> TableOK' /\ FlagsOK')
BY Zenon DEF TimersTypeOK, TableOK, FlagsOK, TimerRecords

(* What a step at slot ndx must do to the table: the other armed timers stay as they    *)
(* are, or are new, and the one at the slot is free, new or counted down.               *)
SlotDone(n) ==
  \/ ~Armed(timerList', n)
  \/ n # ndx /\ timerList'[n] = timerList[n] /\ age'[n] = age[n]
  \/ /\ timerList'[n].currentValue = timerList'[n].resetValue /\ age'[n] = 0
     /\ timerList'[n].resetValue \in Nat \ {0}
  \/ /\ n = ndx /\ age'[n] = age[n] /\ Armed(timerList, n) /\ timerList[n].currentValue # 1
     /\ timerList'[n] = [timerList[n] EXCEPT !.currentValue = @ - 1]

(* The inductive invariant holds throughout, for every table size and all songs. *)
THEOREM TimersInvariance == TimersSpec => []TimersIInv
(* Every step keeps the invariant. *)
(* Then the count stays right. *)
<1>SlotCounted.
  ASSUME TableOK, Counted, ndx \in Slots, ndx' = ndx + 1,
         \A n \in Slots : SlotDone(n)
  PROVE  Counted'
  <2> USE <1>SlotCounted
  <2> SUFFICES ASSUME NEW n \in Slots, Armed(timerList', n)
               PROVE  CountRight(timerList'[n], age'[n], Past(n, ndx'))
    BY DEF Counted, Armed
  <2>1. n \in Int /\ ndx \in Int /\ timerList[n] \in TimerRecords /\ age[n] \in Nat
    BY TimersConstants DEF Slots, TableOK
  <2>2. CASE n # ndx /\ timerList'[n] = timerList[n] /\ age'[n] = age[n]
    <3>1. Past(n, ndx') = Past(n, ndx)
      BY <2>1, <2>2 DEF Past
    <3>2. CountRight(timerList[n], age[n], Past(n, ndx))
      BY <2>2 DEF Counted, Armed
    <3> QED
      BY <2>2, <3>1, <3>2
  <2>3. CASE /\ timerList'[n].currentValue = timerList'[n].resetValue /\ age'[n] = 0
             /\ timerList'[n].resetValue \in Nat \ {0}
    BY <2>1, <2>3 DEF CountRight, Past
  <2>4. CASE /\ n = ndx /\ age'[n] = age[n] /\ Armed(timerList, n)
             /\ timerList[n].currentValue # 1
             /\ timerList'[n] = [timerList[n] EXCEPT !.currentValue = @ - 1]
    <3>1. /\ timerList'[n].currentValue = timerList[n].currentValue - 1
          /\ timerList'[n].resetValue = timerList[n].resetValue
      BY <2>1, <2>4 DEF TimerRecords
    <3>2. Past(n, ndx') = 1 /\ Past(n, ndx) = 0
      BY <2>1, <2>4 DEF Past
    <3>3. timerList[n].currentValue \in Nat /\ timerList[n].resetValue \in Nat
      BY <2>1 DEF TimerRecords
    <3>4. CountRight(timerList[n], age[n], Past(n, ndx))
      BY <2>4 DEF Counted
    <3>5. CountRight(timerList'[n], age[n], 1)
      BY <2>1, <2>4, <3>1, <3>2, <3>3, <3>4 DEF CountRight
    <3> QED
      BY <2>4, <3>2, <3>5
  <2>5. SlotDone(n)
    OBVIOUS
  <2> QED
    BY <2>5, <2>2, <2>3, <2>4 DEF SlotDone
<1>TimersStep. TimersIInv /\ [TimersNext]_timerVars => TimersIInv'
  (* The table after addCallbackTimer: one free slot has the new timer, at age 0, or     *)
  (* nothing has changed and refused says so.                                            *)
  <2>AddedTimer.
    ASSUME TimersTypeOK, NEW count \in Nat \ {0}, NEW callback \in Callbacks,
           addCallbackTimer(timerList)
    PROVE  \/ /\ refused' = TRUE /\ age' = age
              /\ Added(timerList, count, callback) = timerList
           \/ \E f \in Slots :
                /\ ~Armed(timerList, f)
                /\ refused' = refused
                /\ age' = [age EXCEPT ![f] = 0]
                /\ Added(timerList, count, callback)
                     = [timerList EXCEPT ![f] = Timer(count, callback)]
    <3> USE <2>AddedTimer
    <3>1. CASE Free(timerList) = {}
      BY <3>1, Zenon DEF Added, addCallbackTimer
    <3>2. CASE Free(timerList) # {}
      <4> DEFINE f == FirstFree(timerList)
      <4>1. f \in Slots /\ ~Armed(timerList, f)
        <5> DEFINE free == Free(timerList)
        <5>1. free \subseteq Nat
          BY TimersConstants DEF Free, Slots
        <5>2. PICK n \in free : \A m \in free : ~(<<m, n>> \in OpToRel(<, Nat))
          BY <3>2, <5>1, NatLessThanWellFounded, WFMin, Zenon
        <5>3. ASSUME NEW m \in free PROVE n <= m
          <6>1. <<m, n>> \in Nat \X Nat
            BY <5>1
          <6>2. ~(m < n)
            BY <5>2, <6>1 DEF OpToRel
          <6> QED
            BY <5>1, <6>2
        <5>4. f \in free
          BY <5>3 DEF FirstFree
        <5> QED
          BY <5>4 DEF Free
      <4>2. age' = [age EXCEPT ![f] = 0]
        BY <3>2 DEF addCallbackTimer
      <4>3. Added(timerList, count, callback) = [timerList EXCEPT ![f] = Timer(count, callback)]
        BY <3>2 DEF Added
      <4>4. refused' = refused
        BY <3>2, Zenon DEF addCallbackTimer, TimersTypeOK
      <4> HIDE DEF f
      <4> QED
        BY <4>1, <4>2, <4>3, <4>4, Zenon
    <3> QED
      BY <3>1, <3>2, Zenon

  (* A song whose timer expires frees its slot; what it added meanwhile is in another. *)
  <2>FreedSlot.
    ASSUME TableOK, ndx \in Slots, Armed(timerList, ndx), NEW list \in [Slots -> TimerRecords],
           timerList' = Disabled(list)
    PROVE  /\ timerList' \in [Slots -> TimerRecords]
           /\ ~Armed(timerList', ndx)
           /\ \A n \in Slots \ {ndx} : timerList'[n] = list[n]
    <3> USE <2>FreedSlot
    <3>1. list[ndx] \in TimerRecords
      OBVIOUS
    <3>2. timerList' = [list EXCEPT ![ndx] = [list[ndx] EXCEPT !.currentValue = 0, !.resetValue = 0]]
      BY Zenon DEF Disabled
    <3>3. [list[ndx] EXCEPT !.currentValue = 0, !.resetValue = 0] \in TimerRecords
      BY <3>1, Zenon DEF TimerRecords
    <3>4. timerList'[ndx].resetValue = 0
      BY <3>1, <3>2 DEF TimerRecords
    <3> QED
      BY <3>2, <3>3, <3>4 DEF Armed
  (* A timer set by runErrorSong, between two passes, starts at age 0. *)
  <2>ErrorSongStep.
    ASSUME TimersIInv, runErrorSong
    PROVE  TimersIInv'
    <3> USE <2>ErrorSongStep
    <3> USE TimersConstants
    <3>0. TimersTypeOK /\ Counted /\ SongAlive
      BY DEF TimersIInv
    <3>a. ndx = Idle /\ ndx' = ndx /\ idx' = idx /\ sounding' = sounding
          /\ shouldServiceCallbackTimer' = shouldServiceCallbackTimer
          /\ errors < MaxErrors /\ errors' = errors + 1
      BY DEF runErrorSong
    <3>b. "failure" \in Callbacks
      BY DEF Callbacks, Songs
    <3>c. addCallbackTimer(timerList) /\ timerList' = Added(timerList, 1, "failure")
      BY DEF runErrorSong
    <3>1. CASE /\ refused' = TRUE /\ age' = age /\ timerList' = timerList
      <4>1. TimersTypeOK'
        BY <3>0, <3>a, <3>1 DEF TimersTypeOK
      <4>2. Counted' /\ SongAlive'
        BY <3>0, <3>a, <3>1 DEF Counted, SongAlive, Armed
      <4> QED
        BY <4>1, <4>2 DEF TimersIInv
    <3>2. ASSUME NEW f \in Slots, ~Armed(timerList, f), refused' = refused,
                 age' = [age EXCEPT ![f] = 0],
                 timerList' = [timerList EXCEPT ![f] = Timer(1, "failure")]
          PROVE  TimersIInv'
      <4>1. TimersTypeOK'
        BY <3>0, <3>a, <3>b, <3>2 DEF TimersTypeOK, Timer
      <4>2. Counted'
        <5> SUFFICES ASSUME NEW n \in Slots, Armed(timerList', n)
                     PROVE  CountRight(timerList'[n], age'[n], Past(n, ndx'))
          BY DEF Counted, Armed
        <5>1. CASE n = f
          <6>1. timerList'[n] = Timer(1, "failure") /\ age'[n] = 0 /\ Past(n, ndx') = 0
            BY <3>0, <3>a, <3>2, <5>1 DEF TimersTypeOK, Past, Idle, Slots
          <6>2. CountRight(Timer(1, "failure"), 0, 0)
            BY DEF CountRight, Timer
          <6> QED
            BY <6>1, <6>2
        <5>2. CASE n # f
          <6>1. timerList'[n] = timerList[n] /\ age'[n] = age[n]
            BY <3>0, <3>2, <5>2 DEF TimersTypeOK
          <6> QED
            BY <3>0, <3>a, <6>1 DEF Counted, Armed
        <5> QED
          BY <5>1, <5>2
      <4>3. SongAlive'
        BY <3>0, <3>a, <3>2 DEF SongAlive, Armed, TimersTypeOK
      <4> QED
        BY <4>1, <4>2, <4>3 DEF TimersIInv
    <3>3. 1 \in Nat \ {0}
      OBVIOUS
    <3>4. \/ refused' = TRUE /\ age' = age /\ timerList' = timerList
          \/ \E f \in Slots : /\ ~Armed(timerList, f) /\ refused' = refused
                               /\ age' = [age EXCEPT ![f] = 0]
                               /\ timerList' = [timerList EXCEPT ![f] = Timer(1, "failure")]
      BY <3>0, <3>b, <3>c, <3>3, <2>AddedTimer, Zenon
    <3> QED
      BY <3>1, <3>2, <3>4, Zenon

  (* A pass begins at slot 0 and ends with every timer one pass older. *)
  <2>PassStep.
    ASSUME TimersIInv, ServiceBegin \/ ServiceEnd
    PROVE  TimersIInv'
    <3> USE <2>PassStep
    <3>0. TableOK /\ FlagsOK /\ Counted /\ SongAlive
      BY TypeInHalves DEF TimersIInv
    <3>1. CASE ServiceBegin
      <4>1. TableOK'
        BY <3>0, <3>1, TimersConstants DEF ServiceBegin, TableOK
      <4>2. FlagsOK'
        BY <3>0, <3>1, Zenon DEF ServiceBegin, FlagsOK
      <4>3. ndx = -1 /\ ndx' = 0 /\ timerList' = timerList /\ age' = age
        BY <3>1 DEF ServiceBegin, Idle
      <4>4. \A n \in Slots : Past(n, ndx) = Past(n, ndx')
        BY <4>3, TimersConstants DEF Slots, Past
      <4>6. Counted'
        BY <3>0, <4>3, <4>4, Zenon DEF Counted, Armed
      <4>5. SongAlive'
        BY <3>0, <3>1, Zenon DEF ServiceBegin, SongAlive, Armed
      <4> QED
        BY <4>1, <4>2, <4>6, <4>5, TypeInHalves DEF TimersIInv
    <3>2. CASE ServiceEnd
      <4>1. TableOK'
        BY <3>0, <3>2, TimersConstants DEF ServiceEnd, TableOK, Idle
      <4>2. FlagsOK'
        BY <3>0, <3>2, Zenon DEF ServiceEnd, FlagsOK
      <4>3. /\ ndx = MAX_NUM_CALLBACK_TIMERS /\ ndx' = -1 /\ timerList' = timerList
            /\ age' = [n \in Slots |-> IF Armed(timerList, n) THEN age[n] + 1 ELSE 0]
        BY <3>2 DEF ServiceEnd, Idle
      <4>4. Counted'
        <5> SUFFICES ASSUME NEW n \in Slots, Armed(timerList, n)
                     PROVE  CountRight(timerList[n], age'[n], Past(n, ndx'))
          BY <4>3 DEF Counted, Armed
        <5>1. Past(n, ndx) = 1 /\ Past(n, ndx') = 0 /\ age'[n] = age[n] + 1 /\ age[n] \in Nat
          BY <3>0, <4>3, TimersConstants DEF Slots, TableOK, Past
        <5>2. timerList[n].currentValue \in Nat /\ timerList[n].resetValue \in Nat
          BY <3>0 DEF TableOK, TimerRecords
        <5>3. CountRight(timerList[n], age[n], Past(n, ndx))
          BY <3>0 DEF Counted
        <5>4. CountRight(timerList[n], age[n] + 1, 0)
          BY <5>1, <5>2, <5>3 DEF CountRight
        <5> QED
          BY <5>1, <5>4
      <4>5. SongAlive'
        BY <3>0, <3>2, Zenon DEF ServiceEnd, SongAlive, Armed
      <4> QED
        BY <4>1, <4>2, <4>4, <4>5, TypeInHalves DEF TimersIInv
    <3> QED
      BY <3>1, <3>2

  (* A slot that does not expire is counted down by one, or is free. *)
  <2>CountStep.
    ASSUME TimersIInv, ServiceSlot, ~(Armed(timerList, ndx) /\ Expired(timerList[ndx]))
    PROVE  TimersIInv'
    <3> USE <2>CountStep
    <3>0. TableOK /\ FlagsOK /\ Counted /\ SongAlive
      BY TypeInHalves DEF TimersIInv
    <3>1. /\ ndx \in Slots /\ ndx' = ndx + 1
          /\ shouldServiceCallbackTimer' = shouldServiceCallbackTimer
          /\ errors' = errors /\ idx' = idx /\ sounding' = sounding /\ age' = age
          /\ refused' = refused
          /\ timerList' = IF Armed(timerList, ndx)
                             THEN [timerList EXCEPT ![ndx].currentValue = @ - 1] ELSE timerList
      BY DEF ServiceSlot, CountDown
    <3>2. FlagsOK'
      BY <3>0, <3>1, Zenon DEF FlagsOK
    <3>3. ndx' \in -1 .. MAX_NUM_CALLBACK_TIMERS
      BY <3>1, TimersConstants DEF Slots
    <3>4. CASE ~Armed(timerList, ndx)
      <4>1. timerList' = timerList
        BY <3>1, <3>4
      <4>2. TableOK'
        BY <3>0, <3>1, <3>3, <4>1 DEF TableOK
      <4>3. \A n \in Slots : SlotDone(n)
        BY <3>1, <3>4, <4>1 DEF SlotDone, Armed
      <4>4. SongAlive'
        BY <3>0, <3>1, <4>1, Zenon DEF SongAlive, Armed
      <4> QED
        BY <3>0, <3>1, <3>2, <4>2, <4>3, <4>4, <1>SlotCounted, TypeInHalves DEF TimersIInv
    <3>5. CASE Armed(timerList, ndx)
      <4>1. timerList' = [timerList EXCEPT ![ndx] = [timerList[ndx] EXCEPT !.currentValue = @ - 1]]
        BY <3>0, <3>1, <3>5 DEF TableOK
      <4>2. timerList[ndx] \in TimerRecords
        BY <3>0, <3>1 DEF TableOK
      <4>3. timerList[ndx].currentValue \in Nat /\ timerList[ndx].currentValue # 1
        BY <3>5, <4>2 DEF Expired, TimerRecords
      <4>4. CountRight(timerList[ndx], age[ndx], Past(ndx, ndx))
        BY <3>0, <3>1, <3>5 DEF Counted
      <4>5. timerList[ndx].currentValue - 1 \in Nat
        BY <4>3, <4>4 DEF CountRight
      <4>6. timerList'[ndx] \in TimerRecords
        BY <3>0, <3>1, <4>1, <4>2, <4>5, Zenon DEF TimerRecords, TableOK
      <4>7. TableOK'
        BY <3>0, <3>1, <3>3, <4>1, <4>6 DEF TableOK
      <4>8. \A n \in Slots : SlotDone(n)
        BY <3>0, <3>1, <3>5, <4>1, <4>3 DEF SlotDone, TableOK
      <4>9. SongAlive'
        <5>1. \A n \in Slots : Armed(timerList, n) /\ timerList[n].callback = "startup"
                                 => Armed(timerList', n) /\ timerList'[n].callback = "startup"
          BY <3>0, <3>1, <4>1, <4>2 DEF Armed, TableOK, TimerRecords
        <5> QED
          BY <3>0, <3>1, <5>1, Zenon DEF SongAlive, Armed
      <4> QED
        BY <3>0, <3>1, <3>2, <4>7, <4>8, <4>9, <1>SlotCounted, TypeInHalves DEF TimersIInv
    <3> QED
      BY <3>4, <3>5

  (* heartbeat and speedDACCallback set their timer anew, at age 0, behind the slot      *)
  (* the pass goes on with.                                                              *)
  <2>ReloadStep.
    ASSUME TimersIInv, ServiceSlot, Armed(timerList, ndx), Reload
    PROVE  TimersIInv'
    <3> USE <2>ReloadStep
    <3>0. TableOK /\ FlagsOK /\ Counted /\ SongAlive
      BY TypeInHalves DEF TimersIInv
    <3>1. /\ ndx \in Slots /\ ndx' = ndx + 1 /\ errors' = errors
          /\ shouldServiceCallbackTimer' = shouldServiceCallbackTimer
          /\ idx' = idx /\ sounding' = sounding /\ refused' = refused
          /\ age' = [age EXCEPT ![ndx] = 0]
      BY DEF ServiceSlot, Reload
    <3>2. FlagsOK'
      BY <3>0, <3>1, Zenon DEF FlagsOK
    <3>3. ndx' \in -1 .. MAX_NUM_CALLBACK_TIMERS
      BY <3>1, TimersConstants DEF Slots
    <3>4. timerList[ndx] \in TimerRecords
      BY <3>0, <3>1 DEF TableOK
    <3>5. timerList' = [timerList EXCEPT ![ndx] =
                         [timerList[ndx] EXCEPT !.currentValue = timerList[ndx].resetValue]]
      BY <3>0, <3>1 DEF TableOK, Reload
    <3>6. timerList'[ndx] \in TimerRecords /\ timerList'[ndx].resetValue \in Nat \ {0}
          /\ timerList'[ndx].currentValue = timerList'[ndx].resetValue
      BY <3>0, <3>1, <3>4, <3>5, Zenon DEF TableOK, TimerRecords, Armed
    <3>7. TableOK'
      BY <3>0, <3>1, <3>3, <3>5, <3>6 DEF TableOK
    <3>8. \A n \in Slots : SlotDone(n)
      BY <3>0, <3>1, <3>5, <3>6 DEF SlotDone, TableOK
    <3>9. SongAlive'
      <4>1. \A n \in Slots : Armed(timerList, n) /\ timerList[n].callback = "startup"
                               => Armed(timerList', n) /\ timerList'[n].callback = "startup"
        BY <3>0, <3>1, <3>4, <3>5 DEF Armed, TableOK, TimerRecords
      <4> QED
        BY <3>0, <3>1, <4>1, Zenon DEF SongAlive, Armed
    <3> QED
      BY <3>0, <3>1, <3>2, <3>7, <3>8, <3>9, <1>SlotCounted, TypeInHalves DEF TimersIInv

  (* A song with a note left: the note's timer is added, unless the table is full. *)
  <2>NoteStep.
    ASSUME TimersIInv, ServiceSlot, Armed(timerList, ndx), NEW song \in Songs,
           timerList[ndx].callback = song, PlaySong(song), idx < Len(Notes(song))
    PROVE  TimersIInv'
    <3> USE <2>NoteStep
    <3>0. TableOK /\ FlagsOK /\ Counted /\ SongAlive /\ TimersTypeOK
      BY TypeInHalves DEF TimersIInv
    <3>1. /\ ndx \in Slots /\ ndx' = ndx + 1 /\ errors' = errors
          /\ shouldServiceCallbackTimer' = shouldServiceCallbackTimer
      BY DEF ServiceSlot
    <3> DEFINE count == Notes(song)[idx + 1]
    <3>2. /\ sounding' = TRUE /\ addCallbackTimer(timerList) /\ idx' = idx + 1
          /\ timerList' = Disabled(Added(timerList, count, song))
      BY DEF PlaySong, Advance
    <3>3. count \in Nat \ {0} /\ song \in Callbacks /\ Len(Notes(song)) <= Len(windows)
      BY <3>0, TimersConstants DEF Notes, Songs, Callbacks, TableOK
    <3>4. idx \in Int /\ idx' \in 0 .. Len(windows) /\ Len(windows) \in Nat
          /\ idx # Len(windows)
      <4>1. Len(windows) \in Nat /\ Len(Notes(song)) \in Nat
        BY TimersConstants DEF Notes
      <4> QED
        BY <3>0, <3>2, <3>3, <4>1 DEF TableOK
    <3>5. ndx' \in -1 .. MAX_NUM_CALLBACK_TIMERS
      BY <3>1, TimersConstants DEF Slots
    <3> HIDE DEF count
    <3>6. CASE refused' = TRUE /\ age' = age /\ Added(timerList, count, song) = timerList
      <4>1. /\ timerList' \in [Slots -> TimerRecords] /\ ~Armed(timerList', ndx)
            /\ \A n \in Slots \ {ndx} : timerList'[n] = timerList[n]
        BY <3>0, <3>1, <3>2, <3>6, <2>FreedSlot DEF TableOK
      <4>2. TableOK'
        BY <3>0, <3>1, <3>4, <3>5, <3>6, <4>1 DEF TableOK
      <4>3. FlagsOK'
        BY <3>0, <3>1, <3>2, <3>6, Zenon DEF FlagsOK
      <4>4. \A n \in Slots : SlotDone(n)
        BY <3>6, <4>1 DEF SlotDone
      <4>5. SongAlive'
        BY <3>6, Zenon DEF SongAlive
      <4> QED
        BY <3>0, <3>1, <4>2, <4>3, <4>4, <4>5, <1>SlotCounted, TypeInHalves DEF TimersIInv
    <3>7. ASSUME NEW f \in Slots, ~Armed(timerList, f), refused' = refused,
                 age' = [age EXCEPT ![f] = 0],
                 Added(timerList, count, song) = [timerList EXCEPT ![f] = Timer(count, song)]
          PROVE  TimersIInv'
      <4>1. Timer(count, song) \in TimerRecords
        BY <3>3 DEF Timer, TimerRecords
      <4>2. Added(timerList, count, song) \in [Slots -> TimerRecords]
        BY <3>0, <3>7, <4>1 DEF TableOK
      <4>3. /\ timerList' \in [Slots -> TimerRecords] /\ ~Armed(timerList', ndx)
            /\ \A n \in Slots \ {ndx} : timerList'[n] = Added(timerList, count, song)[n]
        BY <3>0, <3>1, <3>2, <4>2, <2>FreedSlot
      <4>4. f # ndx
        BY <3>7
      <4>5. timerList'[f] = Timer(count, song)
            /\ \A n \in Slots \ {ndx, f} : timerList'[n] = timerList[n]
        BY <3>0, <3>7, <4>3, <4>4 DEF TableOK
      <4>6. TableOK'
        BY <3>0, <3>1, <3>4, <3>5, <3>7, <4>3, Zenon DEF TableOK
      <4>7. FlagsOK'
        BY <3>0, <3>1, <3>2, <3>7, Zenon DEF FlagsOK
      <4>8. age'[f] = 0 /\ \A n \in Slots \ {f} : age'[n] = age[n]
        BY <3>0, <3>7 DEF TableOK
      <4>9. \A n \in Slots : SlotDone(n)
        BY <3>3, <4>3, <4>5, <4>8 DEF SlotDone, Timer
      <4>10. SongAlive'
        <5>1. Armed(timerList', f) /\ timerList'[f].callback = song
          BY <3>3, <4>5 DEF Timer, Armed
        <5>2. CASE song = "startup"
          BY <5>1, <5>2 DEF SongAlive, Armed
        <5>3. CASE song # "startup"
          <6>1. SUFFICES ASSUME ~refused
                         PROVE  \E n \in Slots : Armed(timerList', n) /\ timerList'[n].callback = "startup"
            BY <3>7, Zenon DEF SongAlive, Armed
          <6>2. PICK n \in Slots : Armed(timerList, n) /\ timerList[n].callback = "startup"
            BY <3>0, <3>4, <6>1 DEF SongAlive
          <6>3. n # ndx /\ n # f
            BY <3>7, <5>3, <6>2
          <6> QED
            BY <4>5, <6>2, <6>3 DEF Armed
        <5> QED
          BY <5>2, <5>3
      <4> QED
        BY <3>0, <3>1, <4>6, <4>7, <4>9, <4>10, <1>SlotCounted, TypeInHalves DEF TimersIInv
    <3>8. \/ refused' = TRUE /\ age' = age /\ Added(timerList, count, song) = timerList
          \/ \E f \in Slots : /\ ~Armed(timerList, f) /\ refused' = refused
                              /\ age' = [age EXCEPT ![f] = 0]
                              /\ Added(timerList, count, song)
                                   = [timerList EXCEPT ![f] = Timer(count, song)]
      BY <3>0, <3>2, <3>3, <2>AddedTimer, Zenon
    <3> QED
      BY <3>6, <3>7, <3>8, Zenon

  (* A song without a note left frees its slot, and stops the sound if it was the last. *)
  <2>LastNoteStep.
    ASSUME TimersIInv, ServiceSlot, Armed(timerList, ndx), NEW song \in Songs,
           timerList[ndx].callback = song, PlaySong(song), ~(idx < Len(Notes(song)))
    PROVE  TimersIInv'
    <3> USE <2>LastNoteStep
    <3>0. TableOK /\ FlagsOK /\ Counted /\ SongAlive
      BY TypeInHalves DEF TimersIInv
    <3>1. /\ ndx \in Slots /\ ndx' = ndx + 1 /\ errors' = errors
          /\ shouldServiceCallbackTimer' = shouldServiceCallbackTimer
      BY DEF ServiceSlot
    <3>2. /\ sounding' = (sounding /\ ~LastNote(song)) /\ timerList' = Disabled(timerList)
          /\ idx' = idx /\ age' = age /\ refused' = refused
      BY DEF PlaySong
    <3>3. ndx' \in -1 .. MAX_NUM_CALLBACK_TIMERS
      BY <3>1, TimersConstants DEF Slots
    <3>4. /\ timerList' \in [Slots -> TimerRecords] /\ ~Armed(timerList', ndx)
          /\ \A n \in Slots \ {ndx} : timerList'[n] = timerList[n]
      BY <3>0, <3>1, <3>2, <2>FreedSlot DEF TableOK
    <3>5. TableOK'
      BY <3>0, <3>1, <3>2, <3>3, <3>4 DEF TableOK
    <3>6. FlagsOK'
      BY <3>0, <3>1, <3>2, Zenon DEF FlagsOK
    <3>7. \A n \in Slots : SlotDone(n)
      BY <3>2, <3>4 DEF SlotDone
    <3>8. SongAlive'
      <4>1. CASE song = "startup"
        <5>1. idx = Len(windows) /\ LastNote(song)
          <6>1. Len(windows) \in Nat /\ Notes(song) = windows
            BY <4>1, TimersConstants DEF Notes
          <6> QED
            BY <3>0, <6>1 DEF TableOK, LastNote
        <5> QED
          BY <3>2, <5>1, Zenon DEF SongAlive
      <4>2. CASE song # "startup"
        <5>1. CASE ~sounding /\ idx = Len(windows)
          BY <3>2, <5>1, Zenon DEF SongAlive
        <5>2. CASE refused
          BY <3>2, <5>2, Zenon DEF SongAlive
        <5>3. ASSUME NEW n \in Slots, Armed(timerList, n), timerList[n].callback = "startup"
              PROVE  SongAlive'
          <6>1. n # ndx
            BY <4>2, <5>3
          <6>2. timerList'[n] = timerList[n]
            BY <3>4, <6>1
          <6> QED
            BY <5>3, <6>2 DEF SongAlive, Armed
        <5> QED
          BY <3>0, <5>1, <5>2, <5>3, Zenon DEF SongAlive
      <4> QED
        BY <4>1, <4>2
    <3> QED
      BY <3>0, <3>1, <3>5, <3>6, <3>7, <3>8, <1>SlotCounted, TypeInHalves DEF TimersIInv
  <2> SUFFICES ASSUME TimersIInv, [TimersNext]_timerVars PROVE TimersIInv'
    OBVIOUS
  <2>1. CASE CALLBACK_TIMER_ISR
    <3>1. TableOK /\ FlagsOK /\ Counted /\ SongAlive
      BY TypeInHalves DEF TimersIInv
    <3>2. TableOK' /\ Counted'
      BY <2>1, <3>1 DEF CALLBACK_TIMER_ISR, TableOK, Counted, Armed
    <3>3. FlagsOK' /\ SongAlive'
      BY <2>1, <3>1, Zenon DEF CALLBACK_TIMER_ISR, FlagsOK, SongAlive, Armed
    <3> QED
      BY <3>2, <3>3, TypeInHalves DEF TimersIInv
  <2>2. CASE runErrorSong
    BY <2>2, <2>ErrorSongStep
  <2>3. CASE ServiceBegin \/ ServiceEnd
    BY <2>3, <2>PassStep
  <2>4. CASE ServiceSlot
    <3>1. CASE ~(Armed(timerList, ndx) /\ Expired(timerList[ndx]))
      BY <2>4, <3>1, <2>CountStep
    <3>2. CASE Armed(timerList, ndx) /\ Expired(timerList[ndx])
      <4>1. IF timerList[ndx].callback \in Songs THEN PlaySong(timerList[ndx].callback) ELSE Reload
        BY <2>4, <3>2 DEF ServiceSlot, CountDown
      <4> QED
        BY <2>4, <3>2, <4>1, <2>ReloadStep, <2>NoteStep, <2>LastNoteStep, Zenon
    <3> QED
      BY <3>1, <3>2
  <2>5. CASE UNCHANGED timerVars
    BY <2>5 DEF timerVars, TimersIInv, TimersTypeOK, Counted, SongAlive, Armed
  <2> QED
    BY <2>1, <2>2, <2>3, <2>4, <2>5 DEF TimersNext, serviceCallbackTimer

(* main sets its three timers before the first pass. *)
<1>TimersInitIInv. TimersInit => TimersIInv
  <2> SUFFICES ASSUME TimersInit PROVE TimersIInv
    OBVIOUS
  <2> USE TimersConstants
  <2>1. \A n \in Slots : /\ timerList[n] \in [currentValue : Nat, resetValue : Nat,
                                             callback : Callbacks]
                        /\ timerList[n].currentValue = timerList[n].resetValue
    BY DEF TimersInit, Timer, Callbacks, Songs, Slots
  <2>2. TimersTypeOK
    <3>1. timerList \in [Slots -> [currentValue : Nat, resetValue : Nat, callback : Callbacks]]
      BY <2>1, Zenon DEF TimersInit
    <3>2. ndx \in -1 .. MAX_NUM_CALLBACK_TIMERS /\ idx \in 0 .. Len(windows)
          /\ errors \in 0 .. MaxErrors /\ age \in [Slots -> Nat]
      BY DEF TimersInit, Idle
    <3>3. shouldServiceCallbackTimer \in BOOLEAN /\ sounding \in BOOLEAN /\ refused \in BOOLEAN
      BY Zenon DEF TimersInit
    <3> QED
      BY <3>1, <3>2, <3>3, Zenon DEF TimersTypeOK
  <2>3. Counted
    <3>1. ndx = -1 /\ age = [n \in Slots |-> 0]
      BY DEF TimersInit, Idle
    <3> QED
      BY <2>1, <3>1 DEF Counted, CountRight, Past, Armed, Slots
  <2>4. 1 \in Slots /\ Armed(timerList, 1) /\ timerList[1].callback = "startup"
    BY DEF TimersInit, Armed, Timer, Slots
  <2> QED
    BY <2>2, <2>3, <2>4 DEF TimersIInv, SongAlive
<1> QED
  BY <1>TimersInitIInv, <1>TimersStep, PTL DEF TimersSpec

(* serviceCallbackTimer runs every callback after as many passes as its timer was set   *)
(* to, or one fewer, however timers are added and removed by callbacks in mid-pass; the   *)
(* table, the position in it and the position in the songs keep their types.              *)
THEOREM CallbacksOnTime == TimersSpec => [](TimersTypeOK /\ OnTime)
<1>1. TimersIInv => OnTime
  <2> SUFFICES ASSUME TimersIInv, ndx \in Slots, Armed(timerList, ndx), Expired(timerList[ndx])
               PROVE  age[ndx] \in {timerList[ndx].resetValue, timerList[ndx].resetValue - 1}
    BY DEF OnTime
  <2>1. TableOK /\ Counted
    BY TypeInHalves DEF TimersIInv
  <2>2. timerList[ndx].currentValue \in Nat /\ timerList[ndx].resetValue \in Nat
        /\ age[ndx] \in Nat /\ Past(ndx, ndx) = 0
    <3>1. timerList[ndx] \in TimerRecords /\ age[ndx] \in Nat
      BY <2>1 DEF TableOK
    <3>2. ndx \in Int
      BY TimersConstants DEF Slots
    <3>3. Past(ndx, ndx) = 0
      BY <3>2 DEF Past
    <3> QED
      BY <3>1, <3>3 DEF TimerRecords
  <2>3. timerList[ndx].currentValue = 1
    BY <2>2 DEF Expired
  <2>4. CountRight(timerList[ndx], age[ndx], Past(ndx, ndx))
    BY <2>1 DEF Counted
  <2> QED
    BY <2>2, <2>3, <2>4 DEF CountRight
<1>2. TimersIInv => TimersTypeOK
  BY DEF TimersIInv
<1> QED
  BY <1>1, <1>2, TimersInvariance, PTL

(* sounds.c: while a note sounds there is a timer that will end it, for all songs of    *)
(* which the error song is the shorter: unless the table was full.                      *)
THEOREM NotesEnd == TimersSpec => []NoStuckNote
<1>1. TimersIInv => NoStuckNote
  BY DEF TimersIInv, SongAlive, NoStuckNote, SongPending, Songs
<1> QED
  BY <1>1, TimersInvariance, PTL
=============================================================================
