----------------------------- MODULE PollServer -----------------------------
(***************************************************************************)
(* chat/server.c: a chat room over TCP, one thread around poll.  A round   *)
(* is one return of poll: the events of every entry are a snapshot taken   *)
(* then, and the loop over fds looks at one entry per step, while clients  *)
(* go on connecting, sending and leaving.                                  *)
(*                                                                         *)
(* A text is the lines one read returns, and takes as many cells as it has *)
(* lines: lines a client sends before the server reads arrive as one text. *)
(* tmpbuf is one buffer for every receiver, and copying a text into it     *)
(* leaves what lies past the text's end.  users[fd].write_buf is NULL or   *)
(* points to tmpbuf; pending is the set of descriptors where it points.    *)
(* The prefix "User<n>:" is left out.  events is POLLIN, POLLRDHUP and     *)
(* POLLERR, and once anything was forwarded to the entry POLLOUT too, for  *)
(* good: "|= ~POLLOUT" clears nothing.                                     *)
(*                                                                         *)
(* The kernel: POLLRDHUP and POLLIN follow a FIN, POLLERR too a reset; a   *)
(* write to a client that has closed is answered by a reset; a write to a  *)
(* reset connection returns its error once, and raises SIGPIPE after that  *)
(* or when the reset answered a write.  Clients read what they are sent,   *)
(* so sockets are writable.                                                *)
(***************************************************************************)
EXTENDS Integers, Sequences, FiniteSets, Functions

CONSTANTS
  Client,        \* client processes, each connects once
  None,          \* no client
  UserLimit,     \* USER_LIMIT, 5 in the code
  Fd,            \* descriptors accept can return, least first
  StackContent,  \* what main's frame may hold where tmpbuf lies, as cells
  MaxLines,      \* bound: lines clients send
  MaxFailures    \* bound: reads that fail

ASSUME PollServerAssumption ==
  /\ None \notin Client
  /\ UserLimit \in Nat \ {0}
  /\ Fd \subseteq Nat /\ IsFiniteSet(Fd)
  /\ MaxLines \in Nat
  /\ MaxFailures \in Nat

ASSUME StackAssumption == \A t \in StackContent : t \in Seq(Range(t))

VARIABLES
  fds,       \* fds[1 .. user_count]: descriptor, POLLOUT requested, revents
  listening, \* revents of fds[0] has POLLIN
  i,         \* the loop variable; past the end of fds the thread is in poll
  pending,   \* descriptors whose write_buf is not NULL
  tmpbuf,
  peer,      \* the client at the other end of each open descriptor
  backlog,   \* connections not accepted yet
  state,     \* of each client's connection
  unread,    \* what each client sent and the server has not read
  sockerr,   \* SO_ERROR of each client's connection
  sent,      \* lines sent so far
  failures,  \* reads that have failed
  killed,    \* SIGPIPE has ended the server
  owed,      \* history: lines read while the client was in the room, not its own
  shown,     \* history: lines written to each client of the room
  latest     \* history: the last text read, and the clients it is for

kernelVars == <<backlog, state, unread, sockerr, sent>>
historyVars == <<owed, shown, latest>>
vars == <<fds, listening, i, pending, tmpbuf, peer, kernelVars, failures,
          killed, historyVars>>

States == {"off", "on", "fin", "rst", "refused"}
Quiet == [err |-> FALSE, hup |-> FALSE, in |-> FALSE, out |-> FALSE]
user_count == Len(fds)
At(k) == peer[fds[k].fd]
Room == {At(k) : k \in 1 .. user_count}
Gone(c) == state[c] \in {"fin", "rst"}
Polling == i > user_count
Handling(k) == i = k /\ k \in 1 .. user_count /\ ~killed

Init ==
  /\ fds = <<>> /\ listening = FALSE /\ i = 1
  /\ pending = {} /\ tmpbuf \in StackContent
  /\ peer = [f \in Fd |-> None]
  /\ backlog = <<>>
  /\ state = [c \in Client |-> "off"]
  /\ unread = [c \in Client |-> <<>>]
  /\ sockerr = [c \in Client |-> "none"]
  /\ sent = 0
  /\ failures = 0 /\ killed = FALSE
  /\ owed = [c \in Client |-> {}] /\ shown = [c \in Client |-> {}]
  /\ latest = [lines |-> {}, for |-> {}]

-----------------------------------------------------------------------------
(* Clients.                                                                *)

Connect(c) ==
  /\ state[c] = "off"
  /\ state' = [state EXCEPT ![c] = "on"]
  /\ backlog' = Append(backlog, c)
  /\ UNCHANGED <<fds, listening, i, pending, tmpbuf, peer, unread, sockerr,
                 sent, failures, killed, historyVars>>

Say(c) ==
  /\ state[c] = "on" /\ sent < MaxLines
  /\ sent' = sent + 1
  /\ unread' = [unread EXCEPT ![c] = Append(@, <<c, sent + 1>>)]
  /\ UNCHANGED <<fds, listening, i, pending, tmpbuf, peer, backlog, state,
                 sockerr, failures, killed, historyVars>>

\* A client that has not read everything it was sent leaves with a reset.
Leave(c) ==
  /\ state[c] = "on"
  /\ \/ /\ state' = [state EXCEPT ![c] = "fin"]
        /\ UNCHANGED sockerr
     \/ /\ shown[c] # {}
        /\ state' = [state EXCEPT ![c] = "rst"]
        /\ sockerr' = [sockerr EXCEPT ![c] = "reset"]
  /\ UNCHANGED <<fds, listening, i, pending, tmpbuf, peer, backlog, unread,
                 sent, failures, killed, historyVars>>

-----------------------------------------------------------------------------
(* The server: poll, then one branch of the loop's body per entry.         *)

Revents(k) ==
  [err |-> sockerr[At(k)] # "none",
   hup |-> Gone(At(k)),
   in  |-> unread[At(k)] # <<>> \/ Gone(At(k)),
   out |-> fds[k].out]

\* Faulty: poll is given user_count entries, the listener's among them.
PollOneShort ==
  /\ Polling /\ ~killed
  /\ listening' = (backlog # <<>>)
  /\ fds' = [k \in 1 .. user_count |->
               IF k < user_count THEN [fds[k] EXCEPT !.re = Revents(k)] ELSE fds[k]]
  /\ listening' \/ \E k \in 1 .. user_count - 1 : Revents(k) # Quiet
  /\ i' = 0
  /\ UNCHANGED <<pending, tmpbuf, peer, kernelVars, failures, killed, historyVars>>

Poll ==
  /\ Polling /\ ~killed
  /\ listening' = (backlog # <<>>)
  /\ fds' = [k \in 1 .. user_count |-> [fds[k] EXCEPT !.re = Revents(k)]]
  /\ listening' \/ \E k \in 1 .. user_count : Revents(k) # Quiet
  /\ i' = 0
  /\ UNCHANGED <<pending, tmpbuf, peer, kernelVars, failures, killed, historyVars>>

\* The listening socket: accept, and refuse when the room is full.
LowestFree(f) ==
  /\ peer[f] = None
  /\ \A g \in Fd : g < f => peer[g] # None

TakeConnection(out) ==
  /\ i = 0 /\ listening /\ backlog # <<>> /\ ~killed
  /\ \E f \in Fd :
       /\ LowestFree(f)
       /\ peer' = [peer EXCEPT ![f] = Head(backlog)]
       /\ fds' = Append(fds, [fd |-> f, out |-> out, re |-> Quiet])
  /\ backlog' = Tail(backlog)
  /\ i' = 1
  /\ UNCHANGED <<listening, pending, tmpbuf, state, unread, sockerr, sent,
                 failures, killed, historyVars>>

\* Faulty: the new entry keeps the events of whoever had it (no line 141).
AcceptKeepingEvents ==
  user_count < UserLimit /\ \E old \in BOOLEAN : TakeConnection(old)

Accept == user_count < UserLimit /\ TakeConnection(FALSE)

Refuse ==
  /\ i = 0 /\ listening /\ backlog # <<>> /\ ~killed
  /\ user_count >= UserLimit
  /\ state' = [state EXCEPT ![Head(backlog)] = "refused"]
  /\ unread' = [unread EXCEPT ![Head(backlog)] = <<>>]
  /\ sockerr' = [sockerr EXCEPT ![Head(backlog)] = "none"]
  /\ backlog' = Tail(backlog)
  /\ i' = 1
  /\ UNCHANGED <<fds, listening, pending, tmpbuf, peer, sent, failures, killed,
                 historyVars>>

NotListening ==
  /\ i = 0 /\ ~listening /\ ~killed
  /\ i' = 1
  /\ UNCHANGED <<fds, listening, pending, tmpbuf, peer, kernelVars, failures,
                 killed, historyVars>>

\* POLLERR: getsockopt takes the error off the socket.
HandleErr(k) ==
  /\ Handling(k) /\ fds[k].re.err
  /\ sockerr' = [sockerr EXCEPT ![At(k)] = "none"]
  /\ i' = k + 1
  /\ UNCHANGED <<fds, listening, pending, tmpbuf, peer, backlog, state, unread,
                 sent, failures, killed, historyVars>>

\* The last entry takes the place of entry k, and its users record that of
\* k's descriptor; "i--" makes the loop look at k again.
CopyLast(k, last) ==
  /\ fds' = [j \in 1 .. user_count - 1 |-> IF j = k THEN fds[last] ELSE fds[j]]
  /\ pending' = IF fds[last].fd \in pending THEN pending \union {fds[k].fd}
                                            ELSE pending \ {fds[k].fd}
  /\ i' = k
  /\ owed' = [owed EXCEPT ![At(k)] = {}]
  /\ shown' = [shown EXCEPT ![At(k)] = {}]

\* Faulty: user_count is decremented before the last entry is copied.
DropEntryLate(k) == CopyLast(k, IF user_count > 1 THEN user_count - 1 ELSE 1)

DropEntry(k) == CopyLast(k, user_count)

\* POLLRDHUP: whatever the client sent before it left goes with the socket.
HandleHup(k) ==
  /\ Handling(k) /\ ~fds[k].re.err /\ fds[k].re.hup
  /\ DropEntry(k)
  /\ peer' = [peer EXCEPT ![fds[k].fd] = None]
  /\ unread' = [unread EXCEPT ![At(k)] = <<>>]
  /\ sockerr' = [sockerr EXCEPT ![At(k)] = "none"]
  /\ UNCHANGED <<listening, tmpbuf, backlog, state, sent, failures, killed, latest>>

HasInput(k) ==
  Handling(k) /\ ~fds[k].re.err /\ ~fds[k].re.hup /\ fds[k].re.in

\* read fails: the entry goes, and the descriptor stays open.
ReadFails(k) ==
  /\ HasInput(k) /\ failures < MaxFailures
  /\ failures' = failures + 1
  /\ DropEntry(k)
  /\ UNCHANGED <<listening, tmpbuf, peer, kernelVars, killed, latest>>

Overlay(text, old) == text \o SubSeq(old, Len(text) + 1, Len(old))

\* read succeeds: the text goes into tmpbuf for the entries j # k up to the
\* last one, and they ask for POLLOUT.
ForwardTo(k, last, ask) ==
  LET text == unread[At(k)]
      others == Room \ {At(k)}
      to == (1 .. last) \ {k}
  IN /\ HasInput(k)
     /\ unread' = [unread EXCEPT ![At(k)] = <<>>]
     /\ fds' = [j \in 1 .. user_count |->
                  [fds[j] EXCEPT !.out = @ \/ (ask /\ j \in to)]]
     /\ tmpbuf' = IF to # {} THEN Overlay(text, tmpbuf) ELSE tmpbuf
     /\ pending' = pending \union {fds[j].fd : j \in to}
     /\ i' = k + 1
     /\ owed' = [c \in Client |->
                   IF c \in others THEN owed[c] \union Range(text) ELSE owed[c]]
     /\ latest' = [lines |-> Range(text), for |-> others]
     /\ UNCHANGED <<listening, peer, backlog, state, sockerr, sent, failures,
                    killed, shown>>

\* Faulty: the last entry is left out (j < user_count).
ForwardMissingLast(k) == ForwardTo(k, user_count - 1, TRUE)

Forward(k) == ForwardTo(k, user_count, TRUE)

\* Faulty: the branch of POLLOUT comes before that of POLLRDHUP.
WritesBeforeHup(k) ==
  /\ Handling(k) /\ fds[k].re.out /\ ~fds[k].re.err
  /\ fds[k].fd \in pending

\* POLLOUT: write tmpbuf, whatever it holds by now.
WritesOut(k) ==
  /\ Handling(k) /\ fds[k].re.out
  /\ ~fds[k].re.err /\ ~fds[k].re.hup /\ ~fds[k].re.in
  /\ fds[k].fd \in pending

HandleOut(k) ==
  LET c == At(k)
  IN /\ WritesOut(k)
     /\ pending' = pending \ {fds[k].fd}
     /\ fds' = [fds EXCEPT ![k].out = TRUE]
     /\ i' = k + 1
     /\ CASE state[c] = "fin" ->
               /\ state' = [state EXCEPT ![c] = "rst"]
               /\ sockerr' = [sockerr EXCEPT ![c] = "pipe"]
               /\ UNCHANGED <<shown, killed>>
          [] state[c] = "rst" ->
               /\ killed' = (sockerr[c] # "reset")
               /\ sockerr' = [sockerr EXCEPT ![c] = "none"]
               /\ UNCHANGED <<shown, state>>
          [] OTHER ->
               /\ shown' = [shown EXCEPT ![c] = @ \union Range(tmpbuf)]
               /\ UNCHANGED <<state, sockerr, killed>>
     /\ UNCHANGED <<listening, tmpbuf, peer, backlog, unread, sent, failures,
                    owed, latest>>

\* No event, or POLLOUT with nothing to write.
Skip(k) ==
  /\ Handling(k)
  /\ ~fds[k].re.err /\ ~fds[k].re.hup /\ ~fds[k].re.in
  /\ fds[k].re.out => fds[k].fd \notin pending
  /\ i' = k + 1
  /\ UNCHANGED <<fds, listening, pending, tmpbuf, peer, kernelVars, failures,
                 killed, historyVars>>

Entry(k) ==
  \/ HandleErr(k) \/ HandleHup(k) \/ ReadFails(k) \/ Forward(k)
  \/ HandleOut(k) \/ Skip(k)

Server ==
  Poll \/ Accept \/ Refuse \/ NotListening \/ \E k \in 1 .. user_count : Entry(k)

Clients == \E c \in Client : Connect(c) \/ Say(c) \/ Leave(c)

Next == Server \/ Clients
Spec == Init /\ [][Next]_vars

\* The server's thread runs; nothing is asked of the clients.
FairSpec == Spec /\ WF_vars(Server)

-----------------------------------------------------------------------------
(* Properties.                                                             *)

Revs == [err : BOOLEAN, hup : BOOLEAN, in : BOOLEAN, out : BOOLEAN]

\* Types; the array fds has room for UserLimit entries after the listener's.
PollTypeOK ==
  /\ fds \in Seq([fd : Fd, out : BOOLEAN, re : Revs])
  /\ user_count <= UserLimit
  /\ i \in 0 .. UserLimit + 1
  /\ listening \in BOOLEAN /\ killed \in BOOLEAN
  /\ pending \subseteq Fd
  /\ peer \in [Fd -> Client \union {None}]
  /\ backlog \in Seq(Client)
  /\ state \in [Client -> States]
  /\ sockerr \in [Client -> {"none", "reset", "pipe"}]
  /\ sent \in 0 .. MaxLines
  /\ failures \in 0 .. MaxFailures

\* Swapping the last entry into the place of one that leaves (lines 159-163)
\* never duplicates or loses an entry: descriptors and clients are distinct,
\* each entry's descriptor is open, and the open descriptors are those of the
\* entries and those a failed read left behind.  There are USER_LIMIT entries at
\* most (line 126).
RoomIsConnections ==
  /\ user_count <= UserLimit
  /\ \A j, k \in 1 .. user_count : j # k => fds[j].fd # fds[k].fd /\ At(j) # At(k)
  /\ None \notin Room
  /\ Cardinality({f \in Fd : peer[f] # None}) = user_count + failures

\* The same by its parts, with what makes it inductive: no client is at two
\* ends, and those waiting to be accepted are at none.
Connected ==
  /\ \A j, k \in 1 .. user_count : j # k => fds[j].fd # fds[k].fd
  /\ \A k \in 1 .. user_count : At(k) # None
  /\ \A f, g \in Fd : (f # g /\ peer[f] # None) => peer[f] # peer[g]
  /\ \A f \in Fd : peer[f] # None => state[peer[f]] # "off"
  /\ Cardinality({f \in Fd : peer[f] # None}) = user_count + failures
  /\ i <= user_count + 1

Waiting ==
  /\ \A m, n \in 1 .. Len(backlog) : m # n => backlog[m] # backlog[n]
  /\ \A m \in 1 .. Len(backlog) :
       /\ state[backlog[m]] # "off"
       /\ \A f \in Fd : peer[f] # backlog[m]
       /\ state[backlog[m]] = "rst" => sockerr[backlog[m]] = "reset"

\* A connection whose reset is no longer, or never was, the socket's pending
\* error is one this round is through with or has in its snapshot as hung up.
ResetsAreSeen ==
  /\ ~killed
  /\ \A k \in 1 .. user_count :
       (k >= i /\ state[At(k)] = "rst" /\ sockerr[At(k)] # "reset") => fds[k].re.hup

RoomInv == PollTypeOK /\ Connected /\ Waiting /\ ResetsAreSeen

\* The last text read is not lost: until the next one, everyone it is for and
\* who is still there has been shown it or is about to be (lines 185-207,
\* 210-218).
LatestReachesAll ==
  \A k \in 1 .. user_count :
    (At(k) \in latest.for /\ state[At(k)] = "on") =>
      latest.lines \subseteq
        shown[At(k)] \union (IF fds[k].fd \in pending THEN Range(tmpbuf) ELSE {})

\* A descriptor's users record outlives its connection, and lines 159 and 173
\* copy records about; still nobody is written to before somebody else has
\* spoken in its presence.
NothingStale == \A c \in Room : shown[c] # {} => owed[c] # {}

\* The server does not handle SIGPIPE, and none is raised: a reset is seen by
\* poll and its entry dropped before a second write to it (order of lines
\* 146, 158 and 210).
NeverKilled == ~killed

\* A client that left is taken out of the room.
LeaversRemoved ==
  \A c \in Client : (c \in Room /\ Gone(c)) ~> c \notin Room

\* What a client of the room sends is read.
InputRead ==
  \A c \in Client : (c \in Room /\ unread[c] # <<>>) ~> (c \notin Room \/ unread[c] = <<>>)

\* A text waiting for a client is written to it: once it stops sending, for
\* the branch of POLLIN comes before that of POLLOUT (MaxLines).  A write_buf
\* left from whoever had the descriptor before waits for nobody: the entry
\* does not ask for POLLOUT until somebody speaks.
Awaits(c) ==
  /\ owed[c] # {}
  /\ \E k \in 1 .. user_count : At(k) = c /\ fds[k].fd \in pending
TextWritten == \A c \in Client : Awaits(c) ~> ~Awaits(c)

\* While the thread of the server runs, everybody is served.
RoomServes == LeaversRemoved /\ InputRead /\ TextWritten

\* What the project's description says the room does.

\* Every client but the sender is told what a client says: violated when two
\* texts are read in one round, for the second takes the buffer of the first.
EveryoneIsTold ==
  \A k \in 1 .. user_count :
    state[At(k)] = "on" =>
      owed[At(k)] \subseteq
        shown[At(k)] \union (IF fds[k].fd \in pending THEN Range(tmpbuf) ELSE {})
=============================================================================
