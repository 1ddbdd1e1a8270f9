----------------------------- MODULE UdpClient ------------------------------
(***************************************************************************)
(* LinuxChat/client: the client of the UDP chat room.  Three threads share *)
(* the screen: main reads lines and sends them, runOutput receives what    *)
(* the server passes on and lists who is there, runHeader moves a text     *)
(* along the top.  SIGINT runs SigInt_Fun in any one of them: it sends     *)
(* QUIT and exits, while the other threads run on until it has.  The       *)
(* handler allocates: when it interrupts its own thread in the allocator   *)
(* it waits for ever.                                                      *)
(*                                                                         *)
(* Datagrams to the server may be lost or overtaken; what the server       *)
(* remembers of this client is changed by each that arrives.  A user is    *)
(* its name and school; the text of a message is left out.                 *)
(***************************************************************************)
EXTENDS Integers, Sequences

CONSTANTS
  User,      \* the users whose messages come
  Nobody,    \* what an empty message is taken for
  OutRows,   \* rows of the output window, y
  ListRows,  \* rows of the friend list, f_y
  HeadCols,  \* columns of the header, x
  MaxFlight  \* bound: datagrams on their way

ASSUME UdpClientAssumption ==
  /\ Nobody \notin User
  /\ OutRows \in Nat \ {0, 1} /\ ListRows \in Nat \ {0, 1, 2} /\ HeadCols \in Nat \ {0}
  /\ MaxFlight \in Nat \ {0}

VARIABLES
  users,     \* UdpClient::users
  op,        \* where runOutput is
  msg,       \* the message it has
  step,      \* the next row of the output window
  step_f,    \* the next row of the friend list
  friends,   \* what each row of the friend list shows
  index,     \* where the text of the header is
  typing,    \* where main is
  handler,   \* the thread SigInt_Fun runs in, how far it is
  flight,    \* datagrams on their way
  known,     \* the server has this client in its list
  heard,     \* history: the users that messages came from
  recent,    \* history: the users listed last, ListRows - 1 of them at most
  lastSent,  \* history: the command sent last
  fate       \* history: what happened to datagrams and to QUIT

outputVars == <<users, op, msg, step, step_f, friends, heard, recent>>
sendVars == <<typing, handler, flight, known, lastSent, fate>>
udpVars == <<outputVars, index, sendVars>>

Shown == User \union {Nobody}
Message ==
  [who : User, cmd : {"None", "QUIT"}] \union {[who |-> Nobody, cmd |-> "None"]}
Threads == {"main", "output", "header"}
Idle == [in |-> "none", at |-> "none"]

\* An empty window.
createFriendlist == [r \in 0 .. ListRows - 1 |-> Nobody]

\* A text at the start of a row, in place of what was there.
putstrTowin(row, who) == [friends EXCEPT ![row] = who]

UdpInit ==
  /\ users = {} /\ op = "starting" /\ msg = [who |-> Nobody, cmd |-> "None"]
  /\ step = 1 /\ step_f = 1
  /\ friends = createFriendlist
  /\ index = 0
  /\ typing = "starting" /\ handler = Idle
  /\ flight = <<>> /\ known = FALSE
  /\ heard = {} /\ recent = <<>> /\ lastSent = "nothing" /\ fate = {}

\* A thread takes its steps until the process has gone, but not while the
\* handler runs in it.
Alive(t) == typing \notin {"starting", "gone"} /\ handler.in # t

-----------------------------------------------------------------------------
(* runOutput.                                                              *)

\* UdpClient::Init and the creation of the threads.
UdpStart ==
  /\ typing = "starting"
  /\ \/ typing' = "input" /\ op' = "recv"
     \/ typing' = "gone" /\ UNCHANGED op
  /\ UNCHANGED <<users, msg, step, step_f, friends, heard, recent, index,
                 handler, flight, known, lastSent, fate>>

\* A message, or a failure of recvfrom, which leaves the message as it was.
RecvData ==
  /\ Alive("output") /\ op = "recv"
  /\ msg' \in Message \union {msg}
  /\ op' = "erase"
  /\ UNCHANGED <<users, step, step_f, friends, heard, recent, index, sendVars>>

\* QUIT takes the user out of the list; the message is written in any case.
\* The branch that clears the window is never taken: step is at most OutRows - 2.
ShowMessage ==
  /\ Alive("output") /\ op = "erase"
  /\ users' = IF msg.cmd = "QUIT" THEN users \ {msg.who} ELSE users
  /\ LET s == (step + 1) % (OutRows - 1) IN step' = IF s = OutRows - 1 THEN 1 ELSE s
  /\ op' = "list"
  /\ UNCHANGED <<msg, step_f, friends, heard, recent, index, sendVars>>

Newest(s) == IF Len(s) < ListRows THEN s ELSE Tail(s)

\* Faulty: the rows come round one too late.
ListUserOffByOne ==
  /\ Alive("output") /\ op = "list"
  /\ heard' = heard \union {msg.who}
  /\ IF msg.who \in users
     THEN UNCHANGED <<users, step_f, friends, recent>>
     ELSE /\ users' = users \union {msg.who}
          /\ friends' = putstrTowin(step_f, msg.who)
          /\ step_f' = (step_f + 1) % ListRows
          /\ recent' = Newest(Append(recent, msg.who))
  /\ op' = "recv"
  /\ UNCHANGED <<msg, step, index, sendVars>>

\* A user who is not in the list, who has just been taken out of it too, is put
\* in and gets the next row.  The branch that clears the list is never taken:
\* step_f is at most ListRows - 2.
ListUser ==
  /\ Alive("output") /\ op = "list"
  /\ heard' = heard \union {msg.who}
  /\ IF msg.who \in users
     THEN UNCHANGED <<users, step_f, friends, recent>>
     ELSE /\ users' = users \union {msg.who}
          /\ friends' = putstrTowin(step_f, msg.who)
          /\ LET s == (step_f + 1) % (ListRows - 1) IN
               step_f' = IF s = ListRows - 1 THEN 1 ELSE s
          /\ recent' = Newest(Append(recent, msg.who))
  /\ op' = "recv"
  /\ UNCHANGED <<msg, step, index, sendVars>>

-----------------------------------------------------------------------------
(* runHeader: index is used after the remainder is taken.                  *)

HeaderTurn ==
  /\ Alive("header")
  /\ index' = (index % HeadCols) + 1
  /\ UNCHANGED <<outputVars, sendVars>>

-----------------------------------------------------------------------------
(* main and SigInt_Fun.                                                    *)

\* A datagram with this command leaves, or sendto fails and nobody notices.
SendData(cmd) ==
  \/ /\ Len(flight) < MaxFlight
     /\ flight' = Append(flight, cmd) /\ lastSent' = cmd
     /\ fate' = fate \union IF cmd = "QUIT" THEN {handler.in} ELSE {}
  \/ /\ fate' = fate \union {"lost"}
     /\ UNCHANGED <<flight, lastSent>>

CreateInput ==
  /\ Alive("main") /\ typing = "input"
  /\ typing' = "send"
  /\ UNCHANGED <<outputVars, index, handler, flight, known, lastSent, fate>>

SendLine ==
  /\ Alive("main") /\ typing = "send"
  /\ SendData("None")
  /\ typing' = "input"
  /\ UNCHANGED <<outputVars, index, handler, known>>

\* The signal is delivered to one of the threads, perhaps in the allocator.
Interrupt ==
  /\ typing \in {"input", "send"} /\ handler = Idle
  /\ \E t \in Threads, w \in {"send", "stuck"} : handler' = [in |-> t, at |-> w]
  /\ UNCHANGED <<outputVars, index, typing, flight, known, lastSent, fate>>

\* Faulty: QUIT is not sent.
SigIntSilent ==
  /\ typing # "gone" /\ handler.at = "send"
  /\ handler' = [handler EXCEPT !.at = "exit"]
  /\ fate' = fate \union {handler.in}
  /\ UNCHANGED <<outputVars, index, typing, flight, known, lastSent>>

SigIntSend ==
  /\ typing # "gone" /\ handler.at = "send"
  /\ SendData("QUIT")
  /\ handler' = [handler EXCEPT !.at = "exit"]
  /\ UNCHANGED <<outputVars, index, typing, known>>

SigIntExit ==
  /\ typing # "gone" /\ handler.at = "exit"
  /\ typing' = "gone"
  /\ UNCHANGED <<outputVars, index, handler, flight, known, lastSent, fate>>

-----------------------------------------------------------------------------
(* The network, and RecvData of the server.                                *)

Without(s, k) == SubSeq(s, 1, k - 1) \o SubSeq(s, k + 1, Len(s))

Arrives(k) ==
  /\ k \in 1 .. Len(flight)
  /\ known' = (flight[k] # "QUIT")
  /\ flight' = Without(flight, k)
  /\ fate' = IF k > 1 THEN fate \union {"overtaken"} ELSE fate
  /\ UNCHANGED <<outputVars, index, typing, handler, lastSent>>

GetsLost(k) ==
  /\ k \in 1 .. Len(flight)
  /\ flight' = Without(flight, k)
  /\ fate' = fate \union {"lost"}
  /\ UNCHANGED <<outputVars, index, typing, handler, known, lastSent>>

-----------------------------------------------------------------------------
UdpHandler == SigIntSend \/ SigIntExit

UdpNext ==
  \/ UdpStart \/ RecvData \/ ShowMessage \/ ListUser \/ HeaderTurn
  \/ CreateInput \/ SendLine \/ Interrupt \/ UdpHandler
  \/ \E k \in 1 .. MaxFlight : Arrives(k) \/ GetsLost(k)

UdpSpec == UdpInit /\ [][UdpNext]_udpVars

-----------------------------------------------------------------------------
(* Properties.                                                             *)

UdpTypeOK ==
  /\ users \subseteq Shown /\ heard \subseteq Shown
  /\ op \in {"starting", "recv", "erase", "list"} /\ msg \in Message
  /\ step \in 0 .. OutRows - 2 \union {1} /\ step_f \in 0 .. ListRows - 2 \union {1}
  /\ friends \in [0 .. ListRows - 1 -> Shown] /\ recent \in Seq(Shown)
  /\ index \in 0 .. HeadCols
  /\ typing \in {"starting", "input", "send", "gone"}
  /\ handler \in [in : Threads, at : {"send", "stuck", "exit"}] \union {Idle}
  /\ flight \in Seq({"None", "QUIT"}) /\ known \in BOOLEAN
  /\ lastSent \in {"nothing", "None", "QUIT"}
  /\ fate \subseteq Threads \union {"lost", "overtaken"}

\* Between two messages the list holds exactly the users heard of so far, those
\* included that have left: lines 125-131 undo what lines 106-113 did.
HeardAreListed == op = "recv" => users = heard

\* The friend list shows the ListRows - 1 users put in last, each in a row of
\* its own, row 0, the frame's, among them; whoever was put in before is
\* written over although still in the list (lines 129, 132).
FriendsInRows ==
  \A k \in 0 .. Len(recent) - 1 :
    friends[(step_f - 1 - k) % (ListRows - 1)] = recent[Len(recent) - k]

\* When main has sent QUIT nothing is sent behind it: exit follows in the same
\* thread.  In another thread it can be overtaken by a line that main sends,
\* after which the server has the client in its list again.
QuitIsLast == "main" \in fate => lastSent = "QUIT"

\* What the client shows is what it has heard, and what it sends ends with QUIT.
UdpClientSafe == UdpTypeOK /\ HeardAreListed /\ FriendsInRows /\ QuitIsLast

\* A client that was stopped in main is forgotten by the server, unless a
\* datagram was lost or overtaken on the way.
GoneIsForgotten ==
  (typing = "gone" /\ fate = {"main"}) ~> (~known \/ fate # {"main"})
=============================================================================
