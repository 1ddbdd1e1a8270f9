----------------------------- MODULE HttpServer -----------------------------
(* The HTTP server of http/ (main.c, httpd.c; weather/ and weather_server/ *)
(* hold copies of the two files).  The main thread accepts, a thread per   *)
(* connection reads one request and answers it, and a request for a        *)
(* program forks a CGI process, with a pipe to its standard input and one  *)
(* from its standard output.                                               *)
(*                                                                         *)
(* The threads share no memory, but they share the descriptor table, and   *)
(* fork copies all of it: a CGI process holds, until it exits, whatever    *)
(* sockets and pipe ends the other threads had open when it was forked.    *)
(* So every call that changes the table is a step.  A pipe is at its end,  *)
(* and a client has its whole response, when nobody holds the end it is    *)
(* written to.                                                             *)
(*                                                                         *)
(* A request is a sequence of lines and bytes; texts, paths and lengths    *)
(* are left out.  get_line asks again and again at the end of the input    *)
(* (lines 124-144): a thread that wants a line its client never sends has  *)
(* no step.                                                                *)
EXTENDS Naturals

CONSTANTS
  Client,       \* connections: one request each
  Length,       \* Content-Length of a POST
  MaxFailures   \* bound: calls that fail, programs that give up

ASSUME HttpAssumption == Length \in Nat \ {0} /\ MaxFailures \in Nat

VARIABLES
  kind,      \* what each client asks for
  sent,      \* how much of its request it has sent
  gone,      \* it has closed its end
  pc,        \* where its thread is
  taken,     \* how much of the request the thread has read
  open,      \* the server's descriptors
  child,     \* the CGI process of each request
  own,       \* its descriptors
  fed,       \* bytes the thread has written to it
  got,       \* bytes it has read
  out,       \* its output is in the pipe
  told,      \* history: its output has been sent to the client
  failures,  \* how many calls have failed
  failed,    \* history: which call of each request has
  killed     \* SIGPIPE has ended the server

clientVars == <<kind, sent, gone>>
childVars == <<child, own, got, out>>
failVars == <<failures, failed>>
vars == <<clientVars, pc, taken, open, childVars, fed, told, failVars, killed>>

\* A page, a path that does not exist, a method that is neither GET nor POST,
\* a POST without a length, and a program asked for with GET and with POST.
Kind == {"page", "missing", "other", "empty", "get", "post"}
End == {"sock", "inR", "inW", "outR", "outW"}
Byte == 4   \* the first byte after the request line, a header and the empty line
Total(c) == IF kind[c] = "post" THEN 3 + Length ELSE 3
Held(e, c) == <<e, c>> \in open \/ \E d \in Client : <<e, c>> \in own[d]

Init ==
  /\ kind \in [Client -> Kind]
  /\ sent = [c \in Client |-> 0] /\ gone = [c \in Client |-> FALSE]
  /\ pc = [c \in Client |-> "off"] /\ taken = [c \in Client |-> 0]
  /\ open = {}
  /\ child = [c \in Client |-> "none"] /\ own = [c \in Client |-> {}]
  /\ fed = [c \in Client |-> 0] /\ got = [c \in Client |-> 0]
  /\ out = [c \in Client |-> FALSE] /\ told = [c \in Client |-> FALSE]
  /\ failures = 0 /\ failed = [c \in Client |-> "none"] /\ killed = FALSE

-----------------------------------------------------------------------------
(* Clients.                                                                *)

Connect(c) ==
  /\ pc[c] = "off"
  /\ pc' = [pc EXCEPT ![c] = "queued"]
  /\ UNCHANGED <<clientVars, taken, open, childVars, fed, told, failVars, killed>>

Send(c) ==
  /\ pc[c] # "off" /\ ~gone[c] /\ sent[c] < Total(c)
  /\ sent' = [sent EXCEPT ![c] = @ + 1]
  /\ UNCHANGED <<kind, gone, pc, taken, open, childVars, fed, told, failVars, killed>>

Leave(c) ==
  /\ pc[c] # "off" /\ ~gone[c]
  /\ gone' = [gone EXCEPT ![c] = TRUE]
  /\ UNCHANGED <<kind, sent, pc, taken, open, childVars, fed, told, failVars, killed>>

-----------------------------------------------------------------------------
(* The main thread.                                                        *)

Accept(c) ==
  /\ pc[c] = "queued" /\ \A d \in Client : pc[d] # "accepted"
  /\ open' = open \union {<<"sock", c>>}
  /\ pc' = [pc EXCEPT ![c] = "accepted"]
  /\ UNCHANGED <<clientVars, taken, childVars, fed, told, failVars, killed>>

\* Every way a call of request c may fail.
Fail(c, call) ==
  /\ failures < MaxFailures /\ failures' = failures + 1
  /\ failed' = [failed EXCEPT ![c] = call]

CreateThread(c) ==
  /\ pc[c] = "accepted"
  /\ \/ /\ pc' = [pc EXCEPT ![c] = "line"]
        /\ UNCHANGED <<open, failVars>>
     \/ /\ Fail(c, "thread")
        /\ open' = open \ {<<"sock", c>>}
        /\ pc' = [pc EXCEPT ![c] = "done"]
  /\ UNCHANGED <<clientVars, taken, childVars, fed, told, killed>>

-----------------------------------------------------------------------------
(* A connection's thread: HandleSock up to the answer.                     *)

At(c, l) == pc[c] = l
Go(c, l) == pc' = [pc EXCEPT ![c] = l]

GetLine(c) ==
  /\ taken[c] < sent[c] /\ taken[c] < Byte - 1
  /\ taken' = [taken EXCEPT ![c] = @ + 1]

RequestLine(c) ==
  /\ At(c, "line") /\ GetLine(c)
  /\ Go(c, CASE kind[c] \in {"missing", "other"} -> "error"
             [] kind[c] \in {"page", "get"} -> "clean"
             [] OTHER -> "header")
  /\ UNCHANGED <<clientVars, open, childVars, fed, told, failVars, killed>>

\* A write to a client that is gone may raise SIGPIPE, which nobody handles:
\* whether it does depends on what has been written and acknowledged before.
Write(c) == killed' \in IF gone[c] THEN BOOLEAN ELSE {FALSE}

\* clean_hander: lines up to the empty one, then the status line.
Clean(c) ==
  /\ At(c, "clean") /\ GetLine(c)
  /\ IF taken'[c] = Byte - 1
     THEN Go(c, IF kind[c] = "page" THEN "page" ELSE "status")
     ELSE UNCHANGED pc
  /\ UNCHANGED <<clientVars, open, childVars, fed, told, failVars, killed>>

\* echo_html once the header is read; a file that cannot be opened is no page.
Page(c) ==
  /\ At(c, "page")
  /\ Write(c)
  /\ Go(c, "close")
  /\ UNCHANGED <<clientVars, taken, open, childVars, fed, told, failVars>>

\* echo_code.  After a path that does not exist clean_hander is called again,
\* and with a method that is not known the socket stays open.
ErrorClean(c) ==
  /\ At(c, "error") /\ GetLine(c)
  /\ IF taken'[c] = Byte - 1 THEN Go(c, "errorPage") ELSE UNCHANGED pc
  /\ UNCHANGED <<clientVars, open, childVars, fed, told, failVars, killed>>

ErrorPage(c) ==
  /\ At(c, "errorPage")
  /\ Write(c)
  /\ Go(c, IF kind[c] = "other" THEN "left" ELSE "cleanAgain")
  /\ UNCHANGED <<clientVars, taken, open, childVars, fed, told, failVars>>

\* The header of a POST: without a length echo_code looks for another header.
Header(c) ==
  /\ At(c, "header") /\ GetLine(c)
  /\ IF taken'[c] = Byte - 1
     THEN Go(c, IF kind[c] = "empty" THEN "cleanAgain" ELSE "status")
     ELSE UNCHANGED pc
  /\ UNCHANGED <<clientVars, open, childVars, fed, told, failVars, killed>>

-----------------------------------------------------------------------------
(* excu_cgi.  A call that fails makes it return, with what it has opened;  *)
(* HandleSock then closes the socket.                                      *)

Status(c) ==
  /\ At(c, "status")
  /\ Write(c)
  /\ Go(c, "pipeIn")
  /\ UNCHANGED <<clientVars, taken, open, childVars, fed, told, failVars>>

Pipe(c, ends, from, to) ==
  /\ At(c, from)
  /\ \/ /\ open' = open \union (ends \X {c})
        /\ Go(c, to)
        /\ UNCHANGED failVars
     \/ Fail(c, from) /\ Go(c, "close") /\ UNCHANGED open
  /\ UNCHANGED <<clientVars, taken, childVars, fed, told, killed>>

PipeIn(c) == Pipe(c, {"inR", "inW"}, "pipeIn", "pipeOut")
PipeOut(c) == Pipe(c, {"outR", "outW"}, "pipeOut", "fork")

ForkClosing(c, ends) ==
  /\ At(c, "fork")
  /\ \/ /\ child' = [child EXCEPT ![c] = "running"]
        /\ own' = [own EXCEPT ![c] = open \ (ends \X {c})]
        /\ Go(c, "closeInR")
        /\ UNCHANGED failVars
     \/ Fail(c, "fork") /\ Go(c, "close") /\ UNCHANGED <<child, own>>
  /\ UNCHANGED <<clientVars, taken, open, got, out, fed, told, killed>>

\* Faulty: the child closes the end it reads from.
ForkSwapped(c) == ForkClosing(c, {"inR", "outR"})

Fork(c) == ForkClosing(c, {"inW", "outR"})

CloseEnd(c, e, from, to) ==
  /\ At(c, from)
  /\ open' = open \ {<<e, c>>}
  /\ Go(c, to)
  /\ UNCHANGED <<clientVars, taken, childVars, fed, told, failVars, killed>>

CloseInR(c) == CloseEnd(c, "inR", "closeInR", "closeOutW")

\* Faulty: the server keeps the end the child writes to.
KeepOutW(c) == CloseEnd(c, "inR", "closeOutW", IF kind[c] = "post" THEN "feed" ELSE "relay")

CloseOutW(c) == CloseEnd(c, "outW", "closeOutW", IF kind[c] = "post" THEN "feed" ELSE "relay")

\* One byte from the client to the program; at the end of the input recv
\* leaves the byte as it was, and that one is written again.
FeedUpTo(c, n) ==
  /\ At(c, "feed") /\ fed[c] < n
  /\ \/ /\ taken[c] < sent[c]
        /\ taken' = [taken EXCEPT ![c] = @ + 1]
     \/ /\ gone[c] /\ UNCHANGED taken
  /\ IF Held("inR", c)
     THEN fed' = [fed EXCEPT ![c] = @ + 1] /\ UNCHANGED killed
     ELSE killed' = TRUE /\ UNCHANGED fed
  /\ IF fed'[c] = n THEN Go(c, "relay") ELSE UNCHANGED pc
  /\ UNCHANGED <<clientVars, open, childVars, told, failVars>>

Feed(c) == FeedUpTo(c, Length)

\* read from the program and send: until nobody holds the other end.
RelayEnding(c, ended) ==
  /\ At(c, "relay")
  /\ \/ /\ out[c]
        /\ out' = [out EXCEPT ![c] = FALSE]
        /\ told' = [told EXCEPT ![c] = TRUE]
        /\ Write(c)
        /\ UNCHANGED pc
     \/ /\ ~out[c] /\ ended
        /\ Go(c, "closeInW")
        /\ UNCHANGED <<out, told, killed>>
  /\ UNCHANGED <<clientVars, taken, open, child, own, got, fed, failVars>>

\* Faulty: an empty pipe is taken for its end.
RelayOnce(c) == RelayEnding(c, TRUE)

Relay(c) == RelayEnding(c, ~Held("outW", c))

CloseInW(c) == CloseEnd(c, "inW", "closeInW", "closeOutR")

\* Faulty: the pipe of the output is closed once only (no line 292).
KeepOutR(c) == CloseEnd(c, "inW", "closeOutR", "wait")

CloseOutR(c) == CloseEnd(c, "outR", "closeOutR", "wait")

Waitpid(c) ==
  /\ At(c, "wait") /\ child[c] = "exited"
  /\ child' = [child EXCEPT ![c] = "reaped"]
  /\ Go(c, "close")
  /\ UNCHANGED <<clientVars, taken, open, own, got, out, fed, told, failVars, killed>>

Close(c) == CloseEnd(c, "sock", "close", "done")

-----------------------------------------------------------------------------
(* CGI processes: they read what was announced, and what they print leaves *)
(* the buffer of stdout when they exit.                                    *)

Needs(c) == IF kind[c] = "post" THEN Length ELSE 0

ChildRead(c) ==
  /\ child[c] = "running" /\ got[c] < Needs(c) /\ got[c] < fed[c]
  /\ got' = [got EXCEPT ![c] = @ + 1]
  /\ UNCHANGED <<clientVars, pc, taken, open, child, own, out, fed, told, failVars, killed>>

Exit(c) ==
  /\ child' = [child EXCEPT ![c] = "exited"]
  /\ own' = [own EXCEPT ![c] = {}]
  /\ out' = [out EXCEPT ![c] = TRUE]
  /\ UNCHANGED <<clientVars, pc, taken, open, got, fed, told, killed>>

ChildExit(c) ==
  /\ child[c] = "running" /\ got[c] = Needs(c)
  /\ Exit(c)
  /\ UNCHANGED failVars

\* execl fails (lines 270-273), or the program ends early.
ChildGivesUp(c) ==
  /\ child[c] = "running" /\ got[c] < Needs(c)
  /\ Exit(c)
  /\ failures < MaxFailures /\ failures' = failures + 1 /\ UNCHANGED failed

-----------------------------------------------------------------------------
Thread(c) ==
  \/ RequestLine(c) \/ Clean(c) \/ Page(c) \/ ErrorClean(c) \/ ErrorPage(c) \/ Header(c)
  \/ Status(c) \/ PipeIn(c) \/ PipeOut(c) \/ Fork(c) \/ CloseInR(c) \/ CloseOutW(c)
  \/ Feed(c) \/ Relay(c) \/ CloseInW(c) \/ CloseOutR(c) \/ Waitpid(c) \/ Close(c)
Main(c) == Accept(c) \/ CreateThread(c)
Program(c) == ChildRead(c) \/ ChildExit(c)
Peer(c) == Connect(c) \/ Send(c) \/ Leave(c)

Next ==
  ~killed /\ \E c \in Client :
    Thread(c) \/ Main(c) \/ Program(c) \/ ChildGivesUp(c) \/ Peer(c)

Spec == Init /\ [][Next]_vars

\* Threads and programs are scheduled; nothing is asked of the clients.
FairSpec ==
  Spec /\ \A c \in Client : /\ WF_vars(~killed /\ Thread(c))
                            /\ WF_vars(~killed /\ Program(c))

-----------------------------------------------------------------------------
(* Properties.                                                             *)

HttpTypeOK ==
  /\ kind \in [Client -> Kind]
  /\ sent \in [Client -> Nat] /\ gone \in [Client -> BOOLEAN]
  /\ pc \in [Client -> {"off", "queued", "accepted", "line", "clean", "page", "error",
                        "errorPage", "cleanAgain", "left", "header", "status", "pipeIn",
                        "pipeOut", "fork", "closeInR", "closeOutW", "feed", "relay",
                        "closeInW", "closeOutR", "wait", "close", "done"}]
  /\ taken \in [Client -> Nat] /\ \A c \in Client : taken[c] <= sent[c] /\ sent[c] <= Total(c)
  /\ open \subseteq End \X Client
  /\ child \in [Client -> {"none", "running", "exited", "reaped"}]
  /\ own \in [Client -> SUBSET (End \X Client)]
  /\ fed \in [Client -> 0 .. Length] /\ got \in [Client -> 0 .. Length]
  /\ out \in [Client -> BOOLEAN] /\ told \in [Client -> BOOLEAN]
  /\ failures \in 0 .. MaxFailures /\ killed \in BOOLEAN
  /\ failed \in [Client -> {"none", "thread", "pipeIn", "pipeOut", "fork"}]

\* What a finished request leaves in the server's descriptor table: the pipes
\* it had opened when its own second pipe or its own fork failed (lines 236
\* and 241), the socket when its method is not known (line 350), and nothing
\* else, whatever becomes of other requests.
LeavesWhatFailed ==
  \A c \in Client : pc[c] \in {"done", "left"} =>
    {e \in End : <<e, c>> \in open} =
      (IF kind[c] = "other" /\ failed[c] # "thread" THEN {"sock"} ELSE {})
        \union (IF failed[c] \in {"pipeOut", "fork"} THEN {"inR", "inW"} ELSE {})
        \union (IF failed[c] = "fork" THEN {"outR", "outW"} ELSE {})

\* The loop of line 288 ends only when the program has exited and its whole
\* output has been sent: the server has closed its own copy of the end the
\* program writes to, and nobody who reads one request's pipe frees another's.
WholeOutput ==
  \A c \in Client :
    pc[c] \in {"closeInW", "closeOutR", "wait"} =>
      child[c] = "exited" /\ told[c] /\ ~out[c]

\* What a request owes the server and its client, whatever the others do.
RequestSafe == LeavesWhatFailed /\ WholeOutput

\* Seen from outside, a request for a program is a call that is begun, fed,
\* told and over in that order, each once (CgiCall), whatever the descriptors
\* that other requests' programs hold (lines 240-295).
Asks == [c \in Client |-> Needs(c)]
Phase == [c \in Client |-> IF child[c] = "exited" /\ told[c] THEN "told" ELSE child[c]]
Closed == {c \in Client : pc[c] = "done"}
Cgi == INSTANCE CgiCall WITH
  asks <- Asks, phase <- Phase, given <- fed, eaten <- got, closed <- Closed
CallsInOrder == Cgi!Spec

\* Only a client that left early or a program that did not read its input can
\* make the server write where nobody reads (SIGPIPE): no order of forks and
\* closes of other requests does.
KilledFromOutside ==
  killed => \E c \in Client : gone[c] \/ (child[c] = "exited" /\ got[c] < Needs(c))

\* A client that falls silent in the middle of its body keeps its program
\* waiting, and that program's copies of the descriptors of others open.
Starved(c) == At(c, "feed") /\ taken[c] = sent[c] /\ ~gone[c]
KeptBy(e, c) == \E d \in Client : Starved(d) /\ <<e, c>> \in own[d]

\* A request for which a program was started is finished (lines 276-293),
\* unless its own client is silent, or a starved program holds the end its
\* output is written to: one forked between lines 236 and 277 of its thread.
ProgramsFinish ==
  <>killed \/
    \A c \in Client :
      <>[](Starved(c) \/ KeptBy("outW", c)) \/ (child[c] = "running" ~> pc[c] = "done")

\* The client of a request whose socket was closed (line 412, main.c:40) sees
\* the end of its response, unless a starved program holds a copy of the
\* socket.  After line 350 the server itself keeps it: LeavesWhatFailed.
EndSeen ==
  <>killed \/
    \A c \in Client : <>[]KeptBy("sock", c) \/ (pc[c] = "done" ~> ~Held("sock", c))

\* A request with a program ends, for the server and for its client.
RequestsEnd == ProgramsFinish /\ EndSeen
=============================================================================
