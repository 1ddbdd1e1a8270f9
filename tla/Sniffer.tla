------------------------------ MODULE Sniffer -------------------------------
(***************************************************************************)
(* NetWorkSniffer: a raw socket and standard input under one select, the   *)
(* counters of what has come by, and the log of each packet.               *)
(*                                                                         *)
(* The frame's Ethernet header is 14 bytes long; the code skips 15         *)
(* (main.c, line 61).  What it takes for the IP header starts one byte     *)
(* late: the "protocol" is a byte of the checksum, the header length comes *)
(* from the type of service, and a dump of `size' bytes ends 15 bytes      *)
(* behind the frame, in what an earlier one left there.  A Frame is what   *)
(* the code sees in those places.                                          *)
(*                                                                         *)
(* A terminal gives a line per read, a pipe all that there is (tty).       *)
(***************************************************************************)
EXTENDS Integers, Sequences

CONSTANTS
  PtrSize,     \* size of a pointer
  CounterMod,  \* bound: the counters are numbers modulo CounterMod
  MaxFrames,   \* bound: frames that come by
  MaxLines     \* bound: lines typed

ASSUME SnifferAssumption ==
  /\ PtrSize \in {4, 8} /\ CounterMod \in Nat \ {0, 1}
  /\ MaxFrames \in Nat /\ MaxLines \in Nat

VARIABLES
  at,        \* where main is
  tty,       \* standard input is a terminal
  lines,     \* lines typed and not read
  typed,     \* how many were typed
  eof,       \* the input has ended
  wire,      \* frames at the socket
  came,      \* how many came
  prot,      \* the counters
  garbage,   \* what malloc found there
  frame,     \* the frame read last
  stated,    \* the length of its IP header, as logged
  dump       \* what PrintData wrote for it: from .. to - 1 of the buffer

sniffVars == <<at, tty, lines, typed, eof, wire, came, prot, garbage, frame, stated, dump>>

Places == {"starting", "select", "stdin", "socket", "ended", "crashed"}
Kinds == {"icmp", "igmp", "tcp", "udp", "others"}
Counters == [Kinds \union {"total"} -> 0 .. CounterMod - 1]

Skipped == 6 + 6 + 3

Frame == [kind : Kinds, size : {14, 60}, ihl : {0, 5}, doff : {0, 5}]
NoFrame == [kind |-> "others", size |-> 14, ihl |-> 0, doff |-> 0]

SniffInit ==
  /\ at = "starting" /\ tty \in BOOLEAN
  /\ lines = <<>> /\ typed = 0 /\ eof = FALSE
  /\ wire = 0 /\ came = 0
  /\ garbage \in {[k \in Kinds \union {"total"} |-> n] : n \in {0, CounterMod - 1}}
  /\ prot = garbage
  /\ frame = NoFrame /\ stated = 0 /\ dump = <<>>

-----------------------------------------------------------------------------
(* Around the program.                                                     *)

FrameComes ==
  /\ came < MaxFrames
  /\ wire' = wire + 1 /\ came' = came + 1
  /\ UNCHANGED <<at, tty, lines, typed, eof, prot, garbage, frame, stated, dump>>

Typing(l) ==
  /\ ~eof /\ typed < MaxLines
  /\ lines' = Append(lines, l) /\ typed' = typed + 1
  /\ UNCHANGED <<at, tty, eof, wire, came, prot, garbage, frame, stated, dump>>

InputEnds ==
  /\ ~eof /\ eof' = TRUE
  /\ UNCHANGED <<at, tty, lines, typed, wire, came, prot, garbage, frame, stated, dump>>

\* SIGINT or SIGQUIT: the handler only prints; select returns with EINTR and
\* main ends, anywhere else main goes on.
SignalWhiteNow ==
  /\ at \in {"select", "stdin", "socket"}
  /\ at' = IF at = "select" THEN "ended" ELSE at
  /\ UNCHANGED <<tty, lines, typed, eof, wire, came, prot, garbage, frame, stated, dump>>

-----------------------------------------------------------------------------
(* The log.                                                                *)

\* PrintData writes nothing when there is less than nothing to write.
PrintData(from, size) ==
  IF size > 0 THEN <<[from |-> from, to |-> from + size]>> ELSE <<>>

\* The length in bytes, of all the fields it prints.
print_ip_header(fr) == fr.ihl * 4

\* A header of the given length behind the IP header, then the rest of size.
Packet(fr, header) ==
  LET ip == fr.ihl * 4 IN
  PrintData(Skipped, ip)
    \o PrintData(Skipped + ip, header)
    \o PrintData(Skipped + ip + header, fr.size - header - ip)

print_tcp_packet(fr) == Packet(fr, fr.doff * 4)

\* sizeof of a pointer is taken for the size of the header.
print_udp_packet(fr) == Packet(fr, PtrSize)
print_icmp_packet(fr) == Packet(fr, PtrSize)

Log(fr) ==
  CASE fr.kind = "tcp" -> print_tcp_packet(fr)
    [] fr.kind = "udp" -> print_udp_packet(fr)
    [] fr.kind = "icmp" -> print_icmp_packet(fr)
    [] OTHER -> <<>>

-----------------------------------------------------------------------------
(* main.                                                                   *)

\* The log is written to before it is known to be open (lines 112-115).
SniffStart ==
  /\ at = "starting"
  /\ at' \in {"select", "ended", "crashed"}
  /\ UNCHANGED <<tty, lines, typed, eof, wire, came, prot, garbage, frame, stated, dump>>

InputReady == lines # <<>> \/ eof

\* Faulty: select is told of the descriptors below sd only.
SelectShort ==
  /\ at = "select" /\ InputReady
  /\ at' = "stdin"
  /\ UNCHANGED <<tty, lines, typed, eof, wire, came, prot, garbage, frame, stated, dump>>

\* The socket is looked at only when standard input is not ready.
Select ==
  /\ at = "select" /\ (InputReady \/ wire > 0)
  /\ at' = IF InputReady THEN "stdin" ELSE "socket"
  /\ UNCHANGED <<tty, lines, typed, eof, wire, came, prot, garbage, frame, stated, dump>>

\* One read; only its first line can be "quit".
command_interpreter ==
  /\ at = "stdin"
  /\ at' = IF lines # <<>> /\ Head(lines) = "quit" THEN "ended" ELSE "select"
  /\ lines' = IF tty /\ lines # <<>> THEN Tail(lines) ELSE <<>>
  /\ UNCHANGED <<tty, typed, eof, wire, came, prot, garbage, frame, stated, dump>>

Increment(n) == (n + 1) % CounterMod

\* Faulty: case 2 runs on into case 6.
CountFallingThrough(kind) ==
  [k \in DOMAIN prot |->
     IF k \in {kind, "total"} \/ (kind = "igmp" /\ k = "tcp")
     THEN Increment(prot[k]) ELSE prot[k]]

Count(kind) ==
  [k \in DOMAIN prot |-> IF k \in {kind, "total"} THEN Increment(prot[k]) ELSE prot[k]]

\* recvfrom and ProcessPacket.
ProcessPacket ==
  /\ at = "socket"
  /\ wire' = wire - 1
  /\ \E fr \in Frame :
       /\ frame' = fr
       /\ prot' = Count(fr.kind)
       /\ stated' = IF fr.kind \in {"tcp", "udp", "icmp"} THEN print_ip_header(fr) ELSE stated
       /\ dump' = Log(fr)
  /\ at' = "select"
  /\ UNCHANGED <<tty, lines, typed, eof, came, garbage>>

\* recvfrom fails.
ReceiveFails ==
  /\ at = "socket"
  /\ at' = "ended"
  /\ UNCHANGED <<tty, lines, typed, eof, wire, came, prot, garbage, frame, stated, dump>>

SniffStep ==
  SniffStart \/ Select \/ command_interpreter \/ ProcessPacket \/ ReceiveFails

SniffWorld ==
  \/ FrameComes \/ InputEnds \/ SignalWhiteNow
  \/ \E l \in {"quit", "other"} : Typing(l)

SniffNext == SniffStep \/ SniffWorld

SniffSpec == SniffInit /\ [][SniffNext]_sniffVars

-----------------------------------------------------------------------------
(* Properties.                                                             *)

\* The total is the sum of the kinds, in spite of counters that are not set to
\* 0 (line 120) and wrap round: it is as far from it as it was at the start.
Sum(c) == c["icmp"] + c["igmp"] + c["tcp"] + c["udp"] + c["others"]
CountsAgree ==
  /\ at \in Places /\ prot \in Counters /\ wire \in 0 .. MaxFrames
  /\ (prot["total"] - Sum(prot)) % CounterMod = (garbage["total"] - Sum(garbage)) % CounterMod

\* What is dumped of a packet is in one piece, each byte once, from where the
\* code takes the IP header to be, first as many bytes as it has stated; with
\* room for its headers it is `size' bytes long, and so ends Skipped bytes
\* behind what was received.
DumpInOnePiece ==
  LET n == Len(dump) IN
  n > 0 =>
    /\ dump[1].from = Skipped
    /\ stated > 0 => dump[1].to = Skipped + stated
    /\ \A k \in 1 .. n - 1 : dump[k].to = dump[k + 1].from
    /\ dump[n].to >= Skipped + frame.size
    /\ frame.kind \in {"udp", "icmp"} /\ frame.size >= frame.ihl * 4 + PtrSize
         => dump[n].to = Skipped + frame.size

\* Once standard input has ended it is always ready, and no packet is read any
\* more (lines 149, 154), but for the one the loop had turned to.
StarvedByEof ==
  [][(eof /\ at # "socket") => (at' # "socket" /\ prot' = prot)]_sniffVars

\* Until then, packets are read while lines are typed.
PacketsRead == wire > 0 ~> (wire = 0 \/ eof \/ at \in {"ended", "crashed"})

\* "quit" ends the program, unless a pipe delivers it behind another line.
QuitEnds ==
  (at # "starting" /\ lines # <<>> /\ Head(lines) = "quit")
    ~> at \in {"ended", "crashed"}

\* What is counted and what is logged agree with the packets that came.
SniffSafe == CountsAgree /\ DumpInOnePiece

\* Packets and lines keep each other from nothing, but for the end of the input.
SniffServes == PacketsRead /\ StarvedByEof /\ QuitEnds
=============================================================================
