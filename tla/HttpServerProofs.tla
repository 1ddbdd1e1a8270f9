-------------------------- MODULE HttpServerProofs --------------------------
(* Proofs about HttpServer, for any number of connections.  What is needed *)
(* of one connection speaks of nothing that another one's steps change:    *)
(* its place, its program and the descriptors that carry its name.         *)
EXTENDS HttpServer, TLAPS

Serving == {"accepted", "line", "clean", "page", "error", "errorPage", "cleanAgain", "left",
            "header", "status", "pipeIn"}
Piped == {"pipeOut", "fork"}
Forked == {"closeInR", "closeOutW", "feed", "relay", "closeInW", "closeOutR", "wait"}
Closing == {"close", "done"}
PipeEnd == End \ {"sock"}

\* Which descriptors of connection c the server has, place by place; a call
\* that has failed decides which are left behind.
TableOf(c) ==
  /\ pc[c] \in {"off", "queued"} => \A e \in End : <<e, c>> \notin open
  /\ pc[c] \in Serving => \A e \in PipeEnd : <<e, c>> \notin open
  /\ pc[c] = "pipeOut" => <<"outR", c>> \notin open /\ <<"outW", c>> \notin open
  /\ pc[c] = "fork" => <<"outR", c>> \in open /\ <<"outW", c>> \in open
  /\ pc[c] \in Piped => <<"inR", c>> \in open /\ <<"inW", c>> \in open
  /\ pc[c] \in Forked \ {"closeInR"} => <<"inR", c>> \notin open
  /\ pc[c] \in Forked \ {"closeInR", "closeOutW"} => <<"outW", c>> \notin open
  /\ pc[c] \in {"closeOutR", "wait"} => <<"inW", c>> \notin open
  /\ pc[c] = "wait" => <<"outR", c>> \notin open
  /\ pc[c] \in Closing =>
       /\ <<"inR", c>> \in open <=> failed[c] \in {"pipeOut", "fork"}
       /\ <<"inW", c>> \in open <=> failed[c] \in {"pipeOut", "fork"}
       /\ <<"outR", c>> \in open <=> failed[c] = "fork"
       /\ <<"outW", c>> \in open <=> failed[c] = "fork"
  /\ pc[c] \notin Closing => failed[c] = "none"
  /\ pc[c] = "done" => <<"sock", c>> \notin open

\* How far a request with an unknown method gets: not to line 412.
UnknownOf(c) ==
  /\ pc[c] \in {"accepted", "line", "error", "errorPage", "left"} => <<"sock", c>> \in open
  /\ pc[c] = "left" => kind[c] = "other"
  /\ kind[c] = "other" =>
       \/ pc[c] \in {"off", "queued", "accepted", "line", "error", "errorPage", "left"}
       \/ pc[c] = "done" /\ failed[c] = "thread"

\* What its program is doing, and that it holds its ends of the pipes.
ProgramOf(c) ==
  /\ pc[c] \in {"off", "queued"} \union Serving \union Piped => child[c] = "none"
  /\ pc[c] \in Forked => child[c] \in {"running", "exited"}
  /\ pc[c] \in Closing => child[c] \in {"none", "reaped"}
  /\ child[c] = "running" => <<"inR", c>> \in own[c] /\ <<"outW", c>> \in own[c]
  /\ child[c] \in {"none", "running"} => ~out[c]
  /\ child[c] = "exited" => out[c] \/ told[c]
  /\ pc[c] \in {"closeInW", "closeOutR", "wait"} => child[c] = "exited" /\ told[c] /\ ~out[c]
  /\ pc[c] = "feed" => kind[c] = "post"
  /\ got[c] <= fed[c]

HttpInv ==
  /\ HttpTypeOK
  /\ \A c \in Client : TableOf(c) /\ UnknownOf(c) /\ ProgramOf(c)
  /\ KilledFromOutside

\* Nothing of connection d has changed.
Untouched(d) ==
  /\ kind'[d] = kind[d] /\ pc'[d] = pc[d] /\ child'[d] = child[d] /\ own'[d] = own[d]
  /\ fed'[d] = fed[d] /\ got'[d] = got[d] /\ out'[d] = out[d] /\ told'[d] = told[d]
  /\ \A e \in End : <<e, d>> \in open' <=> <<e, d>> \in open
  /\ failed'[d] = failed[d]

-----------------------------------------------------------------------------
LEMMA UntouchedKeeps ==
  ASSUME NEW d \in Client, Untouched(d), TableOf(d), UnknownOf(d), ProgramOf(d)
  PROVE  TableOf(d)' /\ UnknownOf(d)' /\ ProgramOf(d)'
  <1>1. {"sock", "inR", "inW", "outR", "outW"} = End /\ PipeEnd \subseteq End
    BY DEF End, PipeEnd
  <1>2. TableOf(d)'
    BY <1>1 DEF Untouched, TableOf
  <1>3. UnknownOf(d)'
    BY <1>1 DEF Untouched, UnknownOf
  <1>4. ProgramOf(d)'
    BY DEF Untouched, ProgramOf
  <1> QED
    BY <1>2, <1>3, <1>4

\* The steps of a connection, its program and its client.
StepOf(c) == Thread(c) \/ Main(c) \/ Program(c) \/ ChildGivesUp(c) \/ Peer(c)

\* A step of a thread goes somewhere or stays where it is.
LEMMA GoesOn ==
  ASSUME NEW c \in Client, Thread(c)
  PROVE  UNCHANGED pc \/ \E l : Go(c, l)
  BY Zenon DEF Thread, RequestLine, Clean, Page, ErrorClean, ErrorPage, Header, Status, Pipe, PipeIn,
     PipeOut, Fork, ForkClosing, CloseEnd, CloseInR, CloseOutW, Feed, FeedUpTo, Relay, RelayEnding,
     CloseInW, CloseOutR, Waitpid, Close

LEMMA OthersUntouched ==
  ASSUME HttpTypeOK, NEW c \in Client, StepOf(c), NEW d \in Client, d # c
  PROVE  Untouched(d)
  <1>1. CASE Thread(c)
    <2>1. pc'[d] = pc[d]
      <3>1. \A l : [pc EXCEPT ![c] = l][d] = pc[d]
        BY DEF HttpTypeOK
      <3> QED
        BY <1>1, <3>1, GoesOn DEF Go
    <2>2. UNCHANGED <<kind, got>>
      BY <1>1 DEF Thread, RequestLine, Clean, Page, ErrorClean, ErrorPage, Header, Status, Pipe, PipeIn,
         PipeOut, Fork, ForkClosing, CloseEnd, CloseInR, CloseOutW, Feed, FeedUpTo, Relay, RelayEnding,
         CloseInW, CloseOutR, Waitpid, Close, clientVars, childVars
    <2>3. failed'[d] = failed[d]
      BY <1>1 DEF Thread, RequestLine, Clean, Page, ErrorClean, ErrorPage, Header, Status, Pipe, PipeIn,
         PipeOut, Fork, ForkClosing, CloseEnd, CloseInR, CloseOutW, Feed, FeedUpTo, Relay, RelayEnding,
         CloseInW, CloseOutR, Waitpid, Close, Fail, failVars, HttpTypeOK
    <2>4. fed'[d] = fed[d]
      <3>1. CASE Feed(c)
        BY <3>1 DEF Feed, FeedUpTo, HttpTypeOK
      <3> QED
        BY <1>1, <3>1 DEF Thread, RequestLine, Clean, Page, ErrorClean, ErrorPage, Header, Status, Pipe,
         PipeIn, PipeOut, Fork, ForkClosing, CloseEnd, CloseInR, CloseOutW, Relay, RelayEnding,
         CloseInW, CloseOutR, Waitpid, Close
    <2>5. child'[d] = child[d]
      BY <1>1 DEF Thread, RequestLine, Clean, Page, ErrorClean, ErrorPage, Header, Status, Pipe, PipeIn,
         PipeOut, Fork, ForkClosing, CloseEnd, CloseInR, CloseOutW, Feed, FeedUpTo, Relay, RelayEnding,
         CloseInW, CloseOutR, Waitpid, Close, childVars, HttpTypeOK
    <2>6. own'[d] = own[d]
      BY <1>1 DEF Thread, RequestLine, Clean, Page, ErrorClean, ErrorPage, Header, Status, Pipe, PipeIn,
         PipeOut, Fork, ForkClosing, CloseEnd, CloseInR, CloseOutW, Feed, FeedUpTo, Relay, RelayEnding,
         CloseInW, CloseOutR, Waitpid, Close, childVars, HttpTypeOK
    <2>7. out'[d] = out[d] /\ told'[d] = told[d]
      <3>1. CASE Relay(c)
        BY <3>1, Zenon DEF Relay, RelayEnding, HttpTypeOK
      <3> QED
        BY <1>1, <3>1, Zenon DEF Thread, RequestLine, Clean, Page, ErrorClean, ErrorPage, Header, Status,
         Pipe, PipeIn, PipeOut, Fork, ForkClosing, CloseEnd, CloseInR, CloseOutW, Feed, FeedUpTo,
         CloseInW, CloseOutR, Waitpid, Close, childVars
    <2>8. \A e \in End : <<e, d>> \in open' <=> <<e, d>> \in open
      <3>1. CASE PipeIn(c) \/ PipeOut(c)
        BY <3>1 DEF PipeIn, PipeOut, Pipe
      <3>2. CASE CloseInR(c) \/ CloseOutW(c) \/ CloseInW(c) \/ CloseOutR(c) \/ Close(c)
        BY <3>2 DEF CloseInR, CloseOutW, CloseInW, CloseOutR, Close, CloseEnd
      <3> QED
        BY <1>1, <3>1, <3>2 DEF Thread, RequestLine, Clean, Page, ErrorClean, ErrorPage, Header, Status,
         Fork, ForkClosing, Feed, FeedUpTo, Relay, RelayEnding, Waitpid
    <2> QED
      BY <2>1, <2>2, <2>3, <2>4, <2>5, <2>6, <2>7, <2>8, Zenon DEF Untouched
  <1>2. CASE Main(c)
    BY <1>2 DEF Main, Accept, CreateThread, Fail, HttpTypeOK, Untouched, clientVars, childVars, failVars
  <1>3. CASE Program(c) \/ ChildGivesUp(c)
    <2>1. out'[d] = out[d]
      BY <1>3, Zenon DEF Program, ChildGivesUp, ChildRead, ChildExit, Exit, HttpTypeOK
    <2>2. /\ UNCHANGED <<kind, pc, fed, told, open>>
          /\ UNCHANGED failed
      BY <1>3, Zenon DEF Program, ChildGivesUp, ChildRead, ChildExit, Exit, failVars, clientVars
    <2>3. child'[d] = child[d] /\ own'[d] = own[d] /\ got'[d] = got[d]
      BY <1>3 DEF Program, ChildGivesUp, ChildRead, ChildExit, Exit, HttpTypeOK
    <2> QED
      BY <2>1, <2>2, <2>3 DEF Untouched
  <1>4. CASE Peer(c)
    BY <1>4 DEF Peer, Connect, Send, Leave, HttpTypeOK, Untouched, clientVars, childVars, failVars
  <1> QED
    BY <1>1, <1>2, <1>3, <1>4 DEF StepOf

-----------------------------------------------------------------------------
(* Types.                                                                  *)

Place == {"off", "queued"} \union Serving \union Piped \union Forked \union Closing

LEMMA PlaceKept ==
  ASSUME HttpTypeOK, NEW c \in Client, StepOf(c)
  PROVE  pc' \in [Client -> Place]
  <1>0. pc \in [Client -> Place]
    BY DEF HttpTypeOK, Place, Serving, Piped, Forked, Closing
  <1>1. UNCHANGED pc \/ \E l \in Place : Go(c, l)
    <2>1. CASE RequestLine(c)
      BY <2>1, Zenon DEF RequestLine, Place, Serving
    <2>2. CASE Clean(c) \/ ErrorClean(c) \/ Header(c)
      BY <2>2, Zenon DEF Clean, ErrorClean, Header, Place, Serving
    <2>3. CASE Page(c) \/ ErrorPage(c) \/ Status(c) \/ Waitpid(c)
      BY <2>3, Zenon DEF Page, ErrorPage, Status, Waitpid, Place, Serving, Closing
    <2>4. CASE PipeIn(c) \/ PipeOut(c) \/ Fork(c)
      BY <2>4, Zenon DEF PipeIn, PipeOut, Fork, Pipe, ForkClosing, Place, Piped, Forked, Closing
    <2>5. CASE CloseInR(c) \/ CloseOutW(c) \/ CloseInW(c) \/ CloseOutR(c) \/ Close(c)
      BY <2>5, Zenon DEF CloseInR, CloseOutW, CloseInW, CloseOutR, Close, CloseEnd, Place, Forked, Closing
    <2>6. CASE Feed(c) \/ Relay(c)
      BY <2>6, Zenon DEF Feed, FeedUpTo, Relay, RelayEnding, Place, Forked
    <2>7. CASE Main(c)
      BY <2>7, Zenon DEF Main, Accept, CreateThread, Go, Place, Serving, Closing
    <2>8. CASE Program(c) \/ ChildGivesUp(c)
      BY <2>8, Zenon DEF Program, ChildGivesUp, ChildRead, ChildExit, Exit
    <2>9. CASE Peer(c)
      BY <2>9, Zenon DEF Peer, Connect, Send, Leave, Go, Place
    <2> QED
      BY <2>1, <2>2, <2>3, <2>4, <2>5, <2>6, <2>7, <2>8, <2>9 DEF StepOf, Thread
  <1> QED
    BY <1>0, <1>1 DEF Go

LEMMA RequestKept ==
  ASSUME HttpTypeOK, NEW c \in Client, StepOf(c)
  PROVE  /\ kind' \in [Client -> Kind]
         /\ sent' \in [Client -> Nat] /\ taken' \in [Client -> Nat]
         /\ \A d \in Client : taken'[d] <= sent'[d] /\ sent'[d] <= Total(d)'
  <1>1. kind' = kind
    BY DEF StepOf, Thread, Main, Program, ChildGivesUp, Peer, RequestLine, Clean, Page, ErrorClean,
       ErrorPage, Header, Status, Pipe, PipeIn, PipeOut, Fork, ForkClosing, CloseEnd, CloseInR,
       CloseOutW, Feed, FeedUpTo, Relay, RelayEnding, CloseInW, CloseOutR, Waitpid, Close, ChildRead,
       ChildExit, Exit, Connect, Send, Leave, Accept, CreateThread, clientVars
  <1>2. \/ UNCHANGED <<sent, taken>>
        \/ sent' = sent /\ taken[c] < sent[c] /\ taken' = [taken EXCEPT ![c] = taken[c] + 1]
        \/ taken' = taken /\ sent[c] < Total(c) /\ sent' = [sent EXCEPT ![c] = sent[c] + 1]
    BY DEF StepOf, Thread, Main, Program, ChildGivesUp, Peer, RequestLine, Clean, Page, ErrorClean,
       ErrorPage, Header, Status, Pipe, PipeIn, PipeOut, Fork, ForkClosing, CloseEnd, CloseInR,
       CloseOutW, Feed, FeedUpTo, Relay, RelayEnding, CloseInW, CloseOutR, Waitpid, Close, ChildRead,
       ChildExit, Exit, Connect, Send, Leave, Accept, CreateThread, clientVars, GetLine
  <1>3. \A d \in Client : Total(d) \in Nat /\ Total(d)' = Total(d)
    BY <1>1, HttpAssumption DEF Total
  <1> QED
    BY <1>1, <1>2, <1>3 DEF HttpTypeOK

LEMMA TableKept ==
  ASSUME HttpTypeOK, NEW c \in Client, StepOf(c)
  PROVE  /\ open' \subseteq End \X Client
         /\ own' \in [Client -> SUBSET (End \X Client)]
  <1>1. open' \subseteq End \X Client
    <2>1. CASE PipeIn(c) \/ PipeOut(c)
      BY <2>1 DEF PipeIn, PipeOut, Pipe, End, HttpTypeOK
    <2>2. CASE CloseInR(c) \/ CloseOutW(c) \/ CloseInW(c) \/ CloseOutR(c) \/ Close(c)
      BY <2>2 DEF CloseInR, CloseOutW, CloseInW, CloseOutR, Close, CloseEnd, HttpTypeOK
    <2>3. CASE Main(c)
      BY <2>3 DEF Main, Accept, CreateThread, End, HttpTypeOK
    <2>4. CASE Program(c) \/ ChildGivesUp(c) \/ Peer(c)
      BY <2>4 DEF Program, ChildGivesUp, ChildRead, ChildExit, Exit, Peer, Connect, Send, Leave, HttpTypeOK
    <2> QED
      BY <2>1, <2>2, <2>3, <2>4 DEF StepOf, Thread, RequestLine, Clean, Page, ErrorClean, ErrorPage,
       Header, Status, Fork, ForkClosing, Feed, FeedUpTo, Relay, RelayEnding, Waitpid, HttpTypeOK
  <1>2. own' \in [Client -> SUBSET (End \X Client)]
    <2>1. CASE Fork(c)
      <3>1. PICK S \in SUBSET (End \X Client) : own' = own \/ own' = [own EXCEPT ![c] = S]
        BY <2>1 DEF Fork, ForkClosing, HttpTypeOK
      <3> QED
        BY <3>1 DEF HttpTypeOK
    <2>2. CASE Program(c) \/ ChildGivesUp(c)
      BY <2>2 DEF Program, ChildGivesUp, ChildRead, ChildExit, Exit, HttpTypeOK
    <2>3. CASE Main(c) \/ Peer(c)
      BY <2>3 DEF Main, Accept, CreateThread, Peer, Connect, Send, Leave, childVars, HttpTypeOK
    <2> QED
      BY <2>1, <2>2, <2>3 DEF StepOf, Thread, RequestLine, Clean, Page, ErrorClean, ErrorPage, Header,
       Status, Pipe, PipeIn, PipeOut, CloseEnd, CloseInR, CloseOutW, Feed, FeedUpTo, Relay,
       RelayEnding, CloseInW, CloseOutR, Waitpid, Close, childVars, HttpTypeOK
  <1> QED
    BY <1>1, <1>2

LEMMA CountsKept ==
  ASSUME HttpTypeOK, NEW c \in Client, StepOf(c)
  PROVE  /\ fed' \in [Client -> 0 .. Length] /\ got' \in [Client -> 0 .. Length]
         /\ failures' \in 0 .. MaxFailures
         /\ failed' \in [Client -> {"none", "thread", "pipeIn", "pipeOut", "fork"}]
  <1>1. fed' = fed \/ (fed[c] < Length /\ fed' = [fed EXCEPT ![c] = fed[c] + 1])
    BY DEF StepOf, Thread, Main, Program, ChildGivesUp, Peer, RequestLine, Clean, Page, ErrorClean,
       ErrorPage, Header, Status, Pipe, PipeIn, PipeOut, Fork, ForkClosing, CloseEnd, CloseInR,
       CloseOutW, Feed, FeedUpTo, Relay, RelayEnding, CloseInW, CloseOutR, Waitpid, Close, ChildRead,
       ChildExit, Exit, Connect, Send, Leave, Accept, CreateThread
  <1>2. got' = got \/ (got[c] < Length /\ got' = [got EXCEPT ![c] = got[c] + 1])
    <2>1. CASE ChildRead(c)
      BY <2>1, HttpAssumption DEF ChildRead, Needs, HttpTypeOK
    <2> QED
      BY <2>1 DEF StepOf, Thread, Main, Program, ChildGivesUp, Peer, RequestLine, Clean, Page, ErrorClean,
       ErrorPage, Header, Status, Pipe, PipeIn, PipeOut, Fork, ForkClosing, CloseEnd, CloseInR,
       CloseOutW, Feed, FeedUpTo, Relay, RelayEnding, CloseInW, CloseOutR, Waitpid, Close,
       ChildExit, Exit, Connect, Send, Leave, Accept, CreateThread, childVars
  <1>3. failures' = failures \/ (failures < MaxFailures /\ failures' = failures + 1)
    BY DEF StepOf, Thread, Main, Program, ChildGivesUp, Peer, RequestLine, Clean, Page, ErrorClean,
       ErrorPage, Header, Status, Pipe, PipeIn, PipeOut, Fork, ForkClosing, CloseEnd, CloseInR,
       CloseOutW, Feed, FeedUpTo, Relay, RelayEnding, CloseInW, CloseOutR, Waitpid, Close, ChildRead,
       ChildExit, Exit, Connect, Send, Leave, Accept, CreateThread, Fail, failVars
  <1>4. \/ failed' = failed
        \/ \E x \in {"thread", "pipeIn", "pipeOut", "fork"} : failed' = [failed EXCEPT ![c] = x]
    BY Zenon DEF StepOf, Thread, Main, Program, ChildGivesUp, Peer, RequestLine, Clean, Page, ErrorClean,
       ErrorPage, Header, Status, Pipe, PipeIn, PipeOut, Fork, ForkClosing, CloseEnd, CloseInR,
       CloseOutW, Feed, FeedUpTo, Relay, RelayEnding, CloseInW, CloseOutR, Waitpid, Close, ChildRead,
       ChildExit, Exit, Connect, Send, Leave, Accept, CreateThread, Fail, failVars
  <1>5. failed' \in [Client -> {"none", "thread", "pipeIn", "pipeOut", "fork"}]
    BY <1>4 DEF HttpTypeOK
  <1> QED
    BY <1>1, <1>2, <1>3, <1>5, HttpAssumption DEF HttpTypeOK

LEMMA StatesKept ==
  ASSUME HttpTypeOK, NEW c \in Client, StepOf(c)
  PROVE  /\ child' \in [Client -> {"none", "running", "exited", "reaped"}]
         /\ gone' \in [Client -> BOOLEAN]
         /\ out' \in [Client -> BOOLEAN] /\ told' \in [Client -> BOOLEAN]
         /\ killed' \in BOOLEAN
  <1>1. \/ child' = child
        \/ \E x \in {"running", "exited", "reaped"} : child' = [child EXCEPT ![c] = x]
    BY Zenon DEF StepOf, Thread, Main, Program, ChildGivesUp, Peer, RequestLine, Clean, Page, ErrorClean,
       ErrorPage, Header, Status, Pipe, PipeIn, PipeOut, Fork, ForkClosing, CloseEnd, CloseInR,
       CloseOutW, Feed, FeedUpTo, Relay, RelayEnding, CloseInW, CloseOutR, Waitpid, Close, ChildRead,
       ChildExit, Exit, Connect, Send, Leave, Accept, CreateThread, childVars
  <1>2. gone' = gone \/ gone' = [gone EXCEPT ![c] = TRUE]
    BY Zenon DEF StepOf, Thread, Main, Program, ChildGivesUp, Peer, RequestLine, Clean, Page, ErrorClean,
       ErrorPage, Header, Status, Pipe, PipeIn, PipeOut, Fork, ForkClosing, CloseEnd, CloseInR,
       CloseOutW, Feed, FeedUpTo, Relay, RelayEnding, CloseInW, CloseOutR, Waitpid, Close, ChildRead,
       ChildExit, Exit, Connect, Send, Leave, Accept, CreateThread, clientVars
  <1>3. out' = out \/ out' = [out EXCEPT ![c] = TRUE] \/ out' = [out EXCEPT ![c] = FALSE]
    BY Zenon DEF StepOf, Thread, Main, Program, ChildGivesUp, Peer, RequestLine, Clean, Page, ErrorClean,
       ErrorPage, Header, Status, Pipe, PipeIn, PipeOut, Fork, ForkClosing, CloseEnd, CloseInR,
       CloseOutW, Feed, FeedUpTo, Relay, RelayEnding, CloseInW, CloseOutR, Waitpid, Close, ChildRead,
       ChildExit, Exit, Connect, Send, Leave, Accept, CreateThread, childVars
  <1>4. told' = told \/ told' = [told EXCEPT ![c] = TRUE]
    BY Zenon DEF StepOf, Thread, Main, Program, ChildGivesUp, Peer, RequestLine, Clean, Page, ErrorClean,
       ErrorPage, Header, Status, Pipe, PipeIn, PipeOut, Fork, ForkClosing, CloseEnd, CloseInR,
       CloseOutW, Feed, FeedUpTo, Relay, RelayEnding, CloseInW, CloseOutR, Waitpid, Close, ChildRead,
       ChildExit, Exit, Connect, Send, Leave, Accept, CreateThread
  <1>5. killed' \in BOOLEAN
    <2>1. \/ killed' = killed \/ killed' = TRUE
          \/ killed' \in IF gone[c] THEN BOOLEAN ELSE {FALSE}
      BY Zenon DEF StepOf, Thread, Main, Program, ChildGivesUp, Peer, RequestLine, Clean, Page, ErrorClean,
       ErrorPage, Header, Status, Pipe, PipeIn, PipeOut, Fork, ForkClosing, CloseEnd, CloseInR,
       CloseOutW, Feed, FeedUpTo, Relay, RelayEnding, CloseInW, CloseOutR, Waitpid, Close, ChildRead,
       ChildExit, Exit, Connect, Send, Leave, Accept, CreateThread, Write
    <2> QED
      BY <2>1, Zenon DEF HttpTypeOK
  <1>6. /\ child \in [Client -> {"none", "running", "exited", "reaped"}]
        /\ gone \in [Client -> BOOLEAN]
        /\ out \in [Client -> BOOLEAN] /\ told \in [Client -> BOOLEAN]
    BY DEF HttpTypeOK
  <1>7. \A f \in [Client -> BOOLEAN] :
          [f EXCEPT ![c] = TRUE] \in [Client -> BOOLEAN] /\ [f EXCEPT ![c] = FALSE] \in [Client -> BOOLEAN]
    OBVIOUS
  <1>8. child' \in [Client -> {"none", "running", "exited", "reaped"}]
    BY <1>1, <1>6
  <1> QED
    BY <1>2, <1>3, <1>4, <1>5, <1>6, <1>7, <1>8, Zenon

LEMMA HttpTypes ==
  ASSUME HttpTypeOK, NEW c \in Client, StepOf(c)
  PROVE  HttpTypeOK'
  <1>1. pc' \in [Client -> Place]
    BY PlaceKept
  <1> QED
    BY <1>1, RequestKept, TableKept, CountsKept, StatesKept
    DEF HttpTypeOK, Place, Serving, Piped, Forked, Closing

-----------------------------------------------------------------------------
(* What a connection's own steps keep.                                     *)

\* The steps that change neither descriptors nor the program: those up to the
\* pipes, of the main thread too.
LEMMA ServingKeeps ==
  ASSUME HttpTypeOK, NEW c \in Client, TableOf(c), UnknownOf(c), ProgramOf(c),
         \/ RequestLine(c) \/ Clean(c) \/ Page(c) \/ ErrorClean(c) \/ ErrorPage(c)
         \/ Header(c) \/ Status(c) \/ Main(c) \/ Peer(c)
  PROVE  TableOf(c)' /\ UnknownOf(c)' /\ ProgramOf(c)'
  <1>1. UNCHANGED <<kind, child, own, got, out, fed, told>>
    BY DEF RequestLine, Clean, Page, ErrorClean, ErrorPage, Header, Status, Main, Accept, CreateThread,
       Peer, Connect, Send, Leave, clientVars, childVars
  <1>2. pc \in [Client -> Place]
    BY DEF HttpTypeOK, Place, Serving, Piped, Forked, Closing
  <1>3. CASE Accept(c)
    <2>1. /\ pc[c] = "queued" /\ pc'[c] = "accepted" /\ failed' = failed
          /\ <<"sock", c>> \in open'
          /\ \A e \in PipeEnd : <<e, c>> \in open' <=> <<e, c>> \in open
      BY <1>2, <1>3 DEF Accept, failVars, PipeEnd, End
    <2> QED
      BY <1>1, <2>1 DEF TableOf, UnknownOf, ProgramOf, Serving, Piped, Forked, Closing, PipeEnd, End
  <1>4. CASE CreateThread(c)
    <2>1. pc[c] = "accepted" /\ \A e \in PipeEnd : <<e, c>> \in open' <=> <<e, c>> \in open
      BY <1>4 DEF CreateThread, PipeEnd, End
    <2>2. \/ pc'[c] = "line" /\ failed' = failed /\ open' = open
          \/ pc'[c] = "done" /\ failed'[c] = "thread" /\ <<"sock", c>> \notin open'
      BY <1>2, <1>4 DEF CreateThread, Fail, failVars, HttpTypeOK
    <2> QED
      BY <1>1, <2>1, <2>2 DEF TableOf, UnknownOf, ProgramOf, Serving, Piped, Forked, Closing, PipeEnd, End
  <1>5. CASE Peer(c)
    <2>1. UNCHANGED <<open, failed>> /\ (pc'[c] = pc[c] \/ (pc[c] = "off" /\ pc'[c] = "queued"))
      BY <1>2, <1>5 DEF Peer, Connect, Send, Leave, failVars
    <2> QED
      BY <1>1, <2>1 DEF TableOf, UnknownOf, ProgramOf, Serving, Piped, Forked, Closing
  <1>6. CASE ~Main(c) /\ ~Peer(c)
    <2>1. UNCHANGED <<open, failed>>
      BY <1>6 DEF RequestLine, Clean, Page, ErrorClean, ErrorPage, Header, Status, failVars
    <2>2. pc[c] \in Serving
      BY <1>6 DEF RequestLine, Clean, Page, ErrorClean, ErrorPage, Header, Status, At, Serving
    <2>3. pc'[c] \in Serving \/ pc'[c] = "close"
      <3>1. UNCHANGED pc \/ \E l \in Serving \union {"close"} : Go(c, l)
        BY <1>6, Zenon DEF RequestLine, Clean, Page, ErrorClean, ErrorPage, Header, Status, Serving
      <3> QED
        BY <1>2, <2>2, <3>1 DEF Go
    <2>4. \/ pc'[c] = pc[c]
          \/ pc[c] = "line" /\ kind[c] = "other" /\ pc'[c] = "error"
          \/ pc[c] = "line" /\ kind[c] # "other" /\ pc'[c] \in {"error", "clean", "header"}
          \/ pc[c] = "error" /\ pc'[c] = "errorPage"
          \/ pc[c] = "errorPage" /\ pc'[c] = IF kind[c] = "other" THEN "left" ELSE "cleanAgain"
          \/ /\ pc[c] \in {"clean", "page", "header", "status"}
             /\ pc'[c] \in {"page", "status", "close", "cleanAgain", "pipeIn"}
      BY <1>2, <1>6, <2>2
      DEF RequestLine, Clean, Page, ErrorClean, ErrorPage, Header, Status, At, Go, Kind, HttpTypeOK
    <2>5. TableOf(c)' /\ ProgramOf(c)'
      BY <1>1, <2>1, <2>2, <2>3 DEF TableOf, ProgramOf, Serving, Piped, Forked, Closing, PipeEnd, End
    <2>6. UnknownOf(c)'
      BY <1>1, <2>1, <2>4 DEF UnknownOf
    <2> QED
      BY <2>5, <2>6
  <1> QED
    BY <1>3, <1>4, <1>5, <1>6 DEF Main

LEMMA PipingKeeps ==
  ASSUME HttpTypeOK, NEW c \in Client, TableOf(c), UnknownOf(c), ProgramOf(c),
         PipeIn(c) \/ PipeOut(c) \/ Fork(c)
  PROVE  TableOf(c)' /\ UnknownOf(c)' /\ ProgramOf(c)'
  <1>1. UNCHANGED <<kind, got, out, fed, told>>
    BY DEF PipeIn, PipeOut, Fork, Pipe, ForkClosing, clientVars, childVars
  <1>2. pc \in [Client -> Place] /\ child \in [Client -> {"none", "running", "exited", "reaped"}]
    BY DEF HttpTypeOK, Place, Serving, Piped, Forked, Closing
  <1>3. failed \in [Client -> {"none", "thread", "pipeIn", "pipeOut", "fork"}]
    BY DEF HttpTypeOK
  <1>4. child[c] = "none"
    BY DEF PipeIn, PipeOut, Fork, Pipe, ForkClosing, At, ProgramOf, Serving, Piped
  <1>5. CASE pc'[c] = "close" /\ failed'[c] = pc[c] /\ UNCHANGED <<child, own, open>>
    <2>1. pc[c] \in {"pipeIn", "pipeOut", "fork"}
      BY DEF PipeIn, PipeOut, Fork, Pipe, ForkClosing, At
    <2> QED
      BY <1>1, <1>4, <1>5, <2>1
      DEF TableOf, UnknownOf, ProgramOf, Serving, Piped, Forked, Closing, PipeEnd, End
  <1>6. CASE PipeIn(c)
    <2>1. pc[c] = "pipeIn" /\ UNCHANGED <<child, own>>
      BY <1>6 DEF PipeIn, Pipe, At, childVars
    <2>2. \/ pc'[c] = "close" /\ failed'[c] = pc[c] /\ UNCHANGED open
          \/ pc'[c] = "pipeOut" /\ failed' = failed /\ open' = open \union ({"inR", "inW"} \X {c})
      BY <1>2, <1>3, <1>6 DEF PipeIn, Pipe, At, Go, Fail, failVars
    <2>3. \A e \in PipeEnd : <<e, c>> \notin open
      BY <2>1 DEF TableOf, Serving
    <2> QED
      BY <1>1, <1>5, <2>1, <2>2, <2>3
      DEF TableOf, UnknownOf, ProgramOf, Serving, Piped, Forked, Closing, PipeEnd, End
  <1>7. CASE PipeOut(c)
    <2>1. pc[c] = "pipeOut" /\ UNCHANGED <<child, own>>
      BY <1>7 DEF PipeOut, Pipe, At, childVars
    <2>2. \/ pc'[c] = "close" /\ failed'[c] = pc[c] /\ UNCHANGED open
          \/ pc'[c] = "fork" /\ failed' = failed /\ open' = open \union ({"outR", "outW"} \X {c})
      BY <1>2, <1>3, <1>7 DEF PipeOut, Pipe, At, Go, Fail, failVars
    <2> QED
      BY <1>1, <1>5, <2>1, <2>2 DEF TableOf, UnknownOf, ProgramOf, Serving, Piped, Forked, Closing
  <1>8. CASE Fork(c)
    <2>1. pc[c] = "fork" /\ UNCHANGED open
      BY <1>8 DEF Fork, ForkClosing, At
    <2>2. \/ pc'[c] = "close" /\ failed'[c] = pc[c] /\ UNCHANGED <<child, own>>
          \/ pc'[c] = "closeInR" /\ failed' = failed /\ child'[c] = "running" /\ own'[c] = open \ ({"inW", "outR"} \X {c})
      BY <1>2, <1>3, <1>8 DEF Fork, ForkClosing, At, Go, Fail, failVars, HttpTypeOK
    <2>3. <<"inR", c>> \in open /\ <<"outW", c>> \in open
      BY <2>1 DEF TableOf, Piped
    <2>4. child'[c] = "running" =>
            child'[c] = "running" /\ <<"inR", c>> \in own'[c] /\ <<"outW", c>> \in own'[c]
      BY <1>4, <2>2, <2>3
    <2> QED
      BY <1>1, <1>4, <1>5, <2>1, <2>2, <2>4 DEF TableOf, UnknownOf, ProgramOf, Serving, Piped, Forked, Closing
  <1> QED
    BY <1>6, <1>7, <1>8

LEMMA ClosingKeeps ==
  ASSUME HttpTypeOK, NEW c \in Client, TableOf(c), UnknownOf(c), ProgramOf(c),
         CloseInR(c) \/ CloseOutW(c) \/ CloseInW(c) \/ CloseOutR(c) \/ Close(c)
  PROVE  TableOf(c)' /\ UnknownOf(c)' /\ ProgramOf(c)'
  <1>1. UNCHANGED <<kind, child, own, got, out, fed, told, failed>>
    BY DEF CloseInR, CloseOutW, CloseInW, CloseOutR, Close, CloseEnd, clientVars, childVars, failVars
  <1>2. pc \in [Client -> Place]
    BY DEF HttpTypeOK, Place, Serving, Piped, Forked, Closing
  <1>3. \/ /\ pc[c] = "closeInR" /\ pc'[c] = "closeOutW" /\ open' = open \ {<<"inR", c>>}
        \/ /\ pc[c] = "closeOutW" /\ open' = open \ {<<"outW", c>>}
           /\ pc'[c] = IF kind[c] = "post" THEN "feed" ELSE "relay"
        \/ /\ pc[c] = "closeInW" /\ pc'[c] = "closeOutR" /\ open' = open \ {<<"inW", c>>}
        \/ /\ pc[c] = "closeOutR" /\ pc'[c] = "wait" /\ open' = open \ {<<"outR", c>>}
        \/ /\ pc[c] = "close" /\ pc'[c] = "done" /\ open' = open \ {<<"sock", c>>}
    BY <1>2 DEF CloseInR, CloseOutW, CloseInW, CloseOutR, Close, CloseEnd, At, Go
  <1> QED
    BY <1>1, <1>3 DEF TableOf, UnknownOf, ProgramOf, Serving, Piped, Forked, Closing

LEMMA ServingProgramKeeps ==
  ASSUME HttpTypeOK, NEW c \in Client, TableOf(c), UnknownOf(c), ProgramOf(c),
         Feed(c) \/ Relay(c) \/ Waitpid(c) \/ Program(c) \/ ChildGivesUp(c)
  PROVE  TableOf(c)' /\ UnknownOf(c)' /\ ProgramOf(c)'
  <1>0. /\ pc \in [Client -> Place] /\ Length \in Nat
        /\ child \in [Client -> {"none", "running", "exited", "reaped"}]
        /\ fed[c] \in Nat /\ got[c] \in Nat /\ fed \in [Client -> 0 .. Length] /\ got \in [Client -> 0 .. Length]
        /\ End = {"sock", "inR", "inW", "outR", "outW"} /\ PipeEnd = {"inR", "inW", "outR", "outW"}
    BY HttpAssumption DEF HttpTypeOK, Place, Serving, Piped, Forked, Closing, PipeEnd, End
  <1>1. open' = open /\ kind' = kind
    BY DEF Feed, FeedUpTo, Relay, RelayEnding, Waitpid, Program, ChildGivesUp, ChildRead, ChildExit,
       Exit, clientVars
  <1>2. CASE Feed(c)
    <2>1. /\ pc[c] = "feed" /\ pc'[c] \in {"feed", "relay"}
          /\ UNCHANGED <<child, own, got, out, told, failed>>
          /\ fed'[c] = fed[c] \/ fed'[c] = fed[c] + 1
      BY <1>0, <1>2 DEF Feed, FeedUpTo, At, Go, childVars, failVars
    <2> QED
      BY <1>0, <1>1, <2>1 DEF TableOf, UnknownOf, ProgramOf, Serving, Piped, Forked, Closing
  <1>3. CASE Relay(c)
    <2>1. pc[c] = "relay" /\ UNCHANGED <<child, own, got, fed, failed>>
      BY <1>3 DEF Relay, RelayEnding, At, failVars
    <2>2. \/ pc'[c] = "relay" /\ out[c] /\ ~out'[c] /\ told'[c]
          \/ pc'[c] = "closeInW" /\ ~out[c] /\ ~Held("outW", c) /\ UNCHANGED <<out, told>>
      <3>1. CASE UNCHANGED pc
        BY <1>3, <2>1, <3>1, Zenon DEF Relay, RelayEnding, HttpTypeOK, Go
      <3>2. CASE Go(c, "closeInW")
        <4>1. pc'[c] = "closeInW"
          BY <1>0, <3>2 DEF Go
        <4> QED
          BY <1>3, <2>1, <4>1, Zenon DEF Relay, RelayEnding
      <3> QED
        BY <1>3, <3>1, <3>2, Zenon DEF Relay, RelayEnding
    <2>3. CASE pc'[c] = "relay" /\ out[c] /\ ~out'[c] /\ told'[c]
      BY <1>0, <1>1, <2>1, <2>3 DEF TableOf, UnknownOf, ProgramOf, Serving, Piped, Forked, Closing
    <2>4. CASE pc'[c] = "closeInW" /\ ~out[c] /\ ~Held("outW", c) /\ UNCHANGED <<out, told>>
      <3>1. child[c] = "exited"
        BY <2>1, <2>4 DEF Held, ProgramOf, Forked
      <3>2. told[c]
        BY <2>4, <3>1 DEF ProgramOf
      <3>3. ProgramOf(c)'
        BY <1>0, <1>1, <2>1, <2>4, <3>1, <3>2 DEF ProgramOf, Serving, Piped, Forked, Closing
      <3>4. TableOf(c)'
        BY <1>0, <1>1, <2>1, <2>4 DEF TableOf, Serving, Piped, Forked, Closing
      <3>5. UnknownOf(c)'
        BY <1>1, <2>1, <2>4 DEF UnknownOf
      <3> QED
        BY <3>3, <3>4, <3>5
    <2> QED
      BY <2>2, <2>3, <2>4
  <1>4. CASE Waitpid(c)
    <2>1. /\ pc[c] = "wait" /\ pc'[c] = "close" /\ child'[c] = "reaped"
          /\ UNCHANGED <<own, got, out, told, fed, failed>>
      BY <1>0, <1>4 DEF Waitpid, At, Go, failVars
    <2> QED
      BY <1>0, <1>1, <2>1 DEF TableOf, UnknownOf, ProgramOf, Serving, Piped, Forked, Closing
  <1>5. CASE ChildRead(c)
    <2>1. UNCHANGED <<pc, child, own, out, fed, told, failed>> /\ got'[c] = got[c] + 1 /\ got[c] < fed[c]
      BY <1>0, <1>5 DEF ChildRead, failVars
    <2> QED
      BY <1>0, <1>1, <2>1 DEF TableOf, UnknownOf, ProgramOf, Serving, Piped, Forked, Closing
  <1>6. CASE ChildExit(c) \/ ChildGivesUp(c)
    <2>1. /\ UNCHANGED <<pc, got, fed, told>> /\ child[c] = "running" /\ child'[c] = "exited"
          /\ UNCHANGED failed
      BY <1>0, <1>6 DEF ChildExit, ChildGivesUp, Exit, failVars
    <2>2. out'[c] = TRUE
      BY <1>6 DEF ChildExit, ChildGivesUp, Exit, HttpTypeOK
    <2>3. pc[c] \in Forked /\ pc[c] \notin {"closeInW", "closeOutR", "wait"}
      BY <1>0, <2>1 DEF ProgramOf, Place
    <2> QED
      BY <1>0, <1>1, <2>1, <2>2, <2>3 DEF TableOf, UnknownOf, ProgramOf, Serving, Piped, Forked, Closing
  <1> QED
    BY <1>2, <1>3, <1>4, <1>5, <1>6 DEF Program

\* A step that raises SIGPIPE: it answers a client that is gone, or it feeds a
\* program that is; nobody who has left comes back.
LEMMA KilledKept ==
  ASSUME HttpTypeOK, NEW c \in Client, StepOf(c), TableOf(c), ProgramOf(c), ~killed
  PROVE  KilledFromOutside'
  <1>1. CASE Page(c) \/ ErrorPage(c) \/ Status(c) \/ Relay(c)
    <2>1. gone' = gone /\ (killed' => gone[c])
      <3>1. ASSUME Write(c) \/ UNCHANGED killed PROVE killed' => gone[c]
        <4>1. killed' \in (IF gone[c] THEN BOOLEAN ELSE {FALSE}) \/ killed' = killed
          BY <3>1, Zenon DEF Write
        <4> QED
          BY <4>1, Zenon
      <3>2. gone' = gone /\ (Write(c) \/ UNCHANGED killed)
        BY <1>1, Zenon DEF Page, ErrorPage, Status, Relay, RelayEnding, clientVars
      <3> QED
        BY <3>1, <3>2
    <2>2. killed' => gone'[c]
      BY <2>1
    <2> QED
      BY <2>2, Zenon DEF KilledFromOutside
  <1>2. CASE Feed(c)
    <2>1. /\ At(c, "feed") /\ UNCHANGED <<kind, child, got>> /\ fed[c] < Length
          /\ killed' => ~Held("inR", c)
      BY <1>2 DEF Feed, FeedUpTo, clientVars, childVars
    <2>2. ASSUME killed' PROVE child'[c] = "exited" /\ got'[c] < Needs(c)'
      <3>1. child[c] = "exited"
        BY <2>1, <2>2 DEF Held, ProgramOf, At, Forked
      <3>2. Needs(c)' = Length
        BY <2>1 DEF Needs, ProgramOf, At
      <3>3. got[c] < Length
        BY <2>1, HttpAssumption DEF ProgramOf, HttpTypeOK
      <3> QED
        BY <2>1, <3>1, <3>2, <3>3
    <2> QED
      BY <2>2 DEF KilledFromOutside
  <1>3. CASE ~(Page(c) \/ ErrorPage(c) \/ Status(c) \/ Relay(c) \/ Feed(c))
    <2>1. killed' = killed
      BY <1>3 DEF StepOf, Thread, Main, Program, ChildGivesUp, Peer, RequestLine, Clean, ErrorClean,
         Header, Pipe, PipeIn, PipeOut, Fork, ForkClosing, CloseEnd, CloseInR, CloseOutW, CloseInW,
         CloseOutR, Waitpid, Close, ChildRead, ChildExit, Exit, Connect, Send, Leave, Accept,
         CreateThread
    <2> QED
      BY <2>1 DEF KilledFromOutside
  <1> QED
    BY <1>1, <1>2, <1>3

-----------------------------------------------------------------------------
(* The invariant.                                                          *)

LEMMA HttpInit == Init => HttpInv
  <1> SUFFICES ASSUME Init PROVE HttpInv
    OBVIOUS
  <1>1. HttpTypeOK
    <2>1. \A c \in Client : 0 <= Total(c)
      BY HttpAssumption DEF Total
    <2>2. taken \in [Client -> Nat] /\ \A c \in Client : taken[c] <= sent[c] /\ sent[c] <= Total(c)
      BY <2>1 DEF Init
    <2>3. /\ out \in [Client -> BOOLEAN] /\ told \in [Client -> BOOLEAN]
          /\ gone \in [Client -> BOOLEAN] /\ killed \in BOOLEAN
      BY DEF Init
    <2> QED
      BY <2>2, <2>3, HttpAssumption DEF Init, HttpTypeOK
  <1>2. ASSUME NEW c \in Client PROVE TableOf(c) /\ UnknownOf(c) /\ ProgramOf(c)
    BY DEF Init, TableOf, UnknownOf, ProgramOf, Serving, Piped, Forked, Closing
  <1>3. KilledFromOutside
    BY DEF Init, KilledFromOutside
  <1> QED
    BY <1>1, <1>2, <1>3 DEF HttpInv

LEMMA HttpStep == HttpInv /\ [Next]_vars => HttpInv'
  <1> SUFFICES ASSUME HttpInv, [Next]_vars PROVE HttpInv'
    OBVIOUS
  <1>1. CASE UNCHANGED vars
    <2>1. HttpTypeOK'
      BY <1>1 DEF vars, clientVars, childVars, failVars, HttpInv, HttpTypeOK, Total
    <2>2. ASSUME NEW c \in Client PROVE TableOf(c)' /\ UnknownOf(c)' /\ ProgramOf(c)'
      <3>1. Untouched(c)
        BY <1>1 DEF vars, clientVars, childVars, failVars, Untouched
      <3> QED
        BY <3>1, UntouchedKeeps DEF HttpInv
    <2>3. KilledFromOutside'
      BY <1>1 DEF vars, clientVars, childVars, failVars, HttpInv, KilledFromOutside, Needs
    <2> QED
      BY <2>1, <2>2, <2>3 DEF HttpInv
  <1>2. CASE Next
    <2>1. ~killed
      BY <1>2 DEF Next
    <2>2. PICK c \in Client : StepOf(c)
      BY <1>2 DEF Next, StepOf
    <2>3. HttpTypeOK'
      BY <2>2, HttpTypes DEF HttpInv
    <2>4. KilledFromOutside'
      BY <2>1, <2>2, KilledKept DEF HttpInv
    <2>5. ASSUME NEW d \in Client PROVE TableOf(d)' /\ UnknownOf(d)' /\ ProgramOf(d)'
      <3>1. CASE d = c
        BY <2>2, <3>1, ServingKeeps, PipingKeeps, ClosingKeeps, ServingProgramKeeps
        DEF HttpInv, StepOf, Thread
      <3>2. CASE d # c
        BY <2>2, <3>2, OthersUntouched, UntouchedKeeps DEF HttpInv
      <3> QED
        BY <3>1, <3>2
    <2> QED
      BY <2>3, <2>4, <2>5 DEF HttpInv
  <1> QED
    BY <1>1, <1>2

LEMMA HttpInvariance == Spec => []HttpInv
  BY HttpInit, HttpStep, PTL DEF Spec

\* The state is of its type: nothing is fed beyond the announced length
\* (line 284), and no thread reads what has not been sent.
THEOREM HttpTypesCorrect == Spec => []HttpTypeOK
  <1>1. HttpInv => HttpTypeOK
    BY DEF HttpInv
  <1> QED
    BY <1>1, HttpInvariance, PTL

\* When a request is finished (lines 350 and 412, main.c:40) the server has of
\* it exactly the socket that line 350 leaves open and the pipes opened before
\* its own second pipe or fork failed (lines 236 and 241), whatever other
\* threads fork, close or fail at meanwhile.
THEOREM OnlyWhatFailedIsLeft == Spec => []LeavesWhatFailed
  <1>1. HttpInv => LeavesWhatFailed
    <2> SUFFICES ASSUME HttpInv, NEW c \in Client, pc[c] \in {"done", "left"}
                 PROVE  {e \in End : <<e, c>> \in open} =
                          (IF kind[c] = "other" /\ failed[c] # "thread" THEN {"sock"} ELSE {})
                            \union (IF failed[c] \in {"pipeOut", "fork"} THEN {"inR", "inW"} ELSE {})
                            \union (IF failed[c] = "fork" THEN {"outR", "outW"} ELSE {})
      BY DEF LeavesWhatFailed
    <2>1. TableOf(c) /\ UnknownOf(c)
      BY DEF HttpInv
    <2>2. <<"sock", c>> \in open <=> kind[c] = "other" /\ failed[c] # "thread"
      BY <2>1 DEF TableOf, UnknownOf, Closing
    <2>3. /\ <<"inR", c>> \in open <=> failed[c] \in {"pipeOut", "fork"}
          /\ <<"inW", c>> \in open <=> failed[c] \in {"pipeOut", "fork"}
          /\ <<"outR", c>> \in open <=> failed[c] = "fork"
          /\ <<"outW", c>> \in open <=> failed[c] = "fork"
      BY <2>1 DEF TableOf, Serving, Closing, PipeEnd, End
    <2> QED
      BY <2>2, <2>3 DEF End
  <1> QED
    BY <1>1, HttpInvariance, PTL

\* The loop that relays the output (line 288) ends only after the program has
\* exited and everything it printed has been sent to the client, whatever the
\* other threads fork and close meanwhile.
THEOREM OutputIsWhole == Spec => []WholeOutput
  <1>1. HttpInv => WholeOutput
    BY DEF HttpInv, WholeOutput, ProgramOf
  <1> QED
    BY <1>1, HttpInvariance, PTL

\* SIGPIPE ends the server only when a client has closed its end or a program
\* has ended without reading its input (line 285).
THEOREM KilledOnlyFromOutside == Spec => []KilledFromOutside
  <1>1. HttpInv => KilledFromOutside
    BY DEF HttpInv
  <1> QED
    BY <1>1, HttpInvariance, PTL

\* The two together: what a finished request leaves open is what it owes to
\* line 350 or to a call of its own that failed, and none is finished before
\* its program is, with its whole output sent.
THEOREM RequestsAreSafe == Spec => []RequestSafe
  BY OnlyWhatFailedIsLeft, OutputIsWhole, PTL DEF RequestSafe

-----------------------------------------------------------------------------
(* The refinement of CgiCall.                                              *)

\* In which order one request's program is started, fed and told about.
OrderOf(c) ==
  /\ told[c] => child[c] \in {"exited", "reaped"}
  /\ kind[c] # "post" => fed[c] = 0
  /\ pc[c] \in {"closeInR", "closeOutW", "feed"} => ~told[c]
  /\ pc[c] \in {"relay", "closeInW", "closeOutR", "wait"} => fed[c] = Needs(c)

Ordered == \A c \in Client : OrderOf(c)

LEMMA OrderOthers ==
  ASSUME NEW d \in Client, Untouched(d), OrderOf(d)
  PROVE  OrderOf(d)'
  BY DEF Untouched, OrderOf, Needs

\* What is announced stays announced.
LEMMA AsksSame ==
  ASSUME NEW c \in Client, StepOf(c)
  PROVE  kind' = kind /\ Asks' = Asks
  <1>1. kind' = kind
    BY DEF StepOf, Thread, Main, Program, ChildGivesUp, Peer, RequestLine, Clean, Page, ErrorClean,
       ErrorPage, Header, Status, Pipe, PipeIn, PipeOut, Fork, ForkClosing, CloseEnd, CloseInR,
       CloseOutW, Feed, FeedUpTo, Relay, RelayEnding, CloseInW, CloseOutR, Waitpid, Close, ChildRead,
       ChildExit, Exit, Connect, Send, Leave, Accept, CreateThread, clientVars
  <1> QED
    BY <1>1 DEF Asks, Needs

\* When only connection c moves, only its phase does.
LEMMA PhaseMoves ==
  ASSUME NEW c \in Client, \A d \in Client \ {c} : child'[d] = child[d] /\ told'[d] = told[d],
         NEW q, (IF child'[c] = "exited" /\ told'[c] THEN "told" ELSE child'[c]) = q
  PROVE  Phase' = [Phase EXCEPT ![c] = q]
  <1>1. \A d \in Client : Phase'[d] = [Phase EXCEPT ![c] = q][d]
    BY DEF Phase
  <1> QED
    BY <1>1 DEF Phase

LEMMA ClosedMoves ==
  ASSUME NEW c \in Client, \A d \in Client \ {c} : pc'[d] = pc[d]
  PROVE  /\ (pc[c] = "done" <=> pc'[c] = "done") => Closed' = Closed
         /\ pc[c] # "done" /\ pc'[c] = "done" => Closed' = Closed \union {c}
  BY DEF Closed

\* A step that neither starts, feeds, ends, tells nor reaps a program, and
\* does not close the connection, is none of the call's.
LEMMA QuietCall ==
  ASSUME HttpTypeOK, NEW c \in Client, StepOf(c), OrderOf(c),
         UNCHANGED <<child, told, fed, got>>,
         pc'[c] = pc[c] \/ (pc[c] # "done" /\ pc'[c] # "done"),
         pc'[c] = pc[c] \/ pc'[c] \notin {"closeInR", "closeOutW", "feed", "relay", "closeInW", "closeOutR", "wait"}
  PROVE  OrderOf(c)' /\ UNCHANGED Cgi!callVars
  <1>1. kind' = kind /\ Asks' = Asks
    BY AsksSame
  <1>2. \A d \in Client \ {c} : pc'[d] = pc[d]
    BY OthersUntouched DEF Untouched
  <1>3. Closed' = Closed
    BY <1>2, ClosedMoves
  <1>4. Phase' = Phase
    BY DEF Phase
  <1>5. OrderOf(c)'
    BY <1>1 DEF OrderOf, Needs
  <1> QED
    BY <1>1, <1>3, <1>4, <1>5 DEF Cgi!callVars

\* Up to the pipes, and once the answer is given, no call takes a step.
LEMMA ServingCall ==
  ASSUME HttpTypeOK, NEW c \in Client, StepOf(c), TableOf(c), ProgramOf(c), OrderOf(c),
         \/ RequestLine(c) \/ Clean(c) \/ Page(c) \/ ErrorClean(c) \/ ErrorPage(c)
         \/ Header(c) \/ Status(c) \/ PipeIn(c) \/ PipeOut(c) \/ Accept(c) \/ Peer(c)
  PROVE  OrderOf(c)' /\ UNCHANGED Cgi!callVars
  <1>1. UNCHANGED <<child, told, fed, got>>
    BY DEF RequestLine, Clean, Page, ErrorClean, ErrorPage, Header, Status, Pipe, PipeIn, PipeOut,
       Accept, Peer, Connect, Send, Leave, childVars
  <1>2. pc \in [Client -> Place]
    BY DEF HttpTypeOK, Place, Serving, Piped, Forked, Closing
  <1>3. CASE Accept(c) \/ Peer(c)
    <2>1. pc'[c] = pc[c] \/ (pc[c] \in {"off", "queued"} /\ pc'[c] \in {"queued", "accepted"})
      BY <1>2, <1>3 DEF Accept, Peer, Connect, Send, Leave
    <2> QED
      BY <1>1, <2>1, QuietCall
  <1>4. CASE ~Accept(c) /\ ~Peer(c)
    <2>1. pc[c] # "done"
      BY <1>4 DEF RequestLine, Clean, Page, ErrorClean, ErrorPage, Header, Status, Pipe, PipeIn,
         PipeOut, At
    <2>2. UNCHANGED pc \/ \E l \in Serving \union Piped \union {"close"} : Go(c, l)
      BY <1>4, Zenon DEF RequestLine, Clean, Page, ErrorClean, ErrorPage, Header, Status, Pipe, PipeIn,
         PipeOut, Serving, Piped
    <2>3. pc'[c] = pc[c] \/ pc'[c] \in Serving \union Piped \union {"close"}
      BY <1>2, <2>2 DEF Go
    <2> QED
      BY <1>1, <2>1, <2>3, QuietCall DEF Serving, Piped
  <1> QED
    BY <1>3, <1>4

\* fork starts the program; when it fails there is no call.
LEMMA ForkCall ==
  ASSUME HttpTypeOK, NEW c \in Client, StepOf(c), TableOf(c), ProgramOf(c), OrderOf(c), Fork(c)
  PROVE  OrderOf(c)' /\ (Cgi!Begin(c) \/ UNCHANGED Cgi!callVars)
  <1>1. /\ UNCHANGED <<kind, told, fed, got>> /\ Asks' = Asks
        /\ \A d \in Client \ {c} : pc'[d] = pc[d] /\ child'[d] = child[d]
    BY AsksSame, OthersUntouched DEF Untouched, Fork, ForkClosing
  <1>2. pc \in [Client -> Place] /\ child \in [Client -> {"none", "running", "exited", "reaped"}]
    BY DEF HttpTypeOK, Place, Serving, Piped, Forked, Closing
  <1>3. pc[c] = "fork" /\ child[c] = "none" /\ ~told[c]
    BY DEF Fork, ForkClosing, At, ProgramOf, Piped, OrderOf
  <1>4. CASE child'[c] = "running" /\ pc'[c] = "closeInR"
    <2>1. Closed' = Closed /\ c \notin Closed
      BY <1>1, <1>3, <1>4, ClosedMoves DEF Closed
    <2>2. Phase' = [Phase EXCEPT ![c] = "running"]
      BY <1>1, <1>4, PhaseMoves
    <2>3. Phase[c] = "none"
      BY <1>3 DEF Phase
    <2>4. OrderOf(c)'
      BY <1>1, <1>3, <1>4 DEF OrderOf, Needs
    <2> QED
      BY <1>1, <2>1, <2>2, <2>3, <2>4 DEF Cgi!Begin, Cgi!Move
  <1>5. CASE child' = child /\ pc'[c] = "close"
    BY <1>1, <1>3, <1>5, QuietCall
  <1>6. \/ child'[c] = "running" /\ pc'[c] = "closeInR"
        \/ child' = child /\ pc'[c] = "close"
    BY <1>2 DEF Fork, ForkClosing, Go
  <1> QED
    BY <1>4, <1>5, <1>6

\* The server's own ends of the pipes are closed between the phases of a call:
\* the body is only fed to a program, and only of a POST.
LEMMA EndsCall ==
  ASSUME HttpTypeOK, NEW c \in Client, StepOf(c), ProgramOf(c), OrderOf(c),
         CloseInR(c) \/ CloseOutW(c) \/ CloseInW(c) \/ CloseOutR(c)
  PROVE  OrderOf(c)' /\ UNCHANGED Cgi!callVars
  <1>1. /\ UNCHANGED <<kind, child, told, fed, got>> /\ Asks' = Asks
        /\ \A d \in Client \ {c} : pc'[d] = pc[d]
    BY AsksSame, OthersUntouched
    DEF Untouched, CloseInR, CloseOutW, CloseInW, CloseOutR, CloseEnd, clientVars, childVars
  <1>2. pc \in [Client -> Place]
    BY DEF HttpTypeOK, Place, Serving, Piped, Forked, Closing
  <1>3. \/ pc[c] = "closeInR" /\ pc'[c] = "closeOutW"
        \/ pc[c] = "closeOutW" /\ pc'[c] = IF kind[c] = "post" THEN "feed" ELSE "relay"
        \/ pc[c] = "closeInW" /\ pc'[c] = "closeOutR"
        \/ pc[c] = "closeOutR" /\ pc'[c] = "wait"
    BY <1>2 DEF CloseInR, CloseOutW, CloseInW, CloseOutR, CloseEnd, At, Go
  <1>4. OrderOf(c)'
    BY <1>1, <1>3 DEF OrderOf, Needs
  <1>5. Closed' = Closed
    BY <1>1, <1>3, ClosedMoves
  <1>6. Phase' = Phase
    BY <1>1 DEF Phase
  <1> QED
    BY <1>1, <1>4, <1>5, <1>6 DEF Cgi!callVars

\* A byte of the body reaches the pipe, or the server is killed by it.
LEMMA FeedCall ==
  ASSUME HttpTypeOK, NEW c \in Client, StepOf(c), ProgramOf(c), OrderOf(c), Feed(c)
  PROVE  OrderOf(c)' /\ (Cgi!Give(c) \/ UNCHANGED Cgi!callVars)
  <1>1. /\ UNCHANGED <<kind, child, told, got>> /\ Asks' = Asks
        /\ \A d \in Client \ {c} : pc'[d] = pc[d]
    BY AsksSame, OthersUntouched DEF Untouched, Feed, FeedUpTo, childVars
  <1>2. pc \in [Client -> Place] /\ fed \in [Client -> 0 .. Length] /\ Length \in Nat
    BY HttpAssumption DEF HttpTypeOK, Place, Serving, Piped, Forked, Closing
  <1>3. /\ pc[c] = "feed" /\ fed[c] < Length /\ kind[c] = "post"
        /\ child[c] \in {"running", "exited"} /\ ~told[c]
    BY DEF Feed, FeedUpTo, At, ProgramOf, Forked, OrderOf
  <1>4. /\ fed' = [fed EXCEPT ![c] = fed[c] + 1] \/ fed' = fed
        /\ pc'[c] = "feed" \/ (pc'[c] = "relay" /\ fed'[c] = Length)
    BY <1>2, <1>3 DEF Feed, FeedUpTo, Go
  <1>5. OrderOf(c)'
    BY <1>1, <1>3, <1>4 DEF OrderOf, Needs
  <1>6. Closed' = Closed
    BY <1>1, <1>3, <1>4, ClosedMoves
  <1>7. Phase' = Phase /\ Phase[c] \in {"running", "exited"} /\ Asks[c] = Length
    BY <1>1, <1>3 DEF Phase, Asks, Needs
  <1> QED
    BY <1>1, <1>3, <1>4, <1>5, <1>6, <1>7 DEF Cgi!Give, Cgi!callVars

\* What is relayed is the output of a program that has ended, after the whole
\* body; the end of the output is nothing that a client sees.
LEMMA RelayCall ==
  ASSUME HttpTypeOK, NEW c \in Client, StepOf(c), ProgramOf(c), OrderOf(c), Relay(c)
  PROVE  OrderOf(c)' /\ (Cgi!Tell(c) \/ UNCHANGED Cgi!callVars)
  <1>1. /\ UNCHANGED <<kind, child, fed, got>> /\ Asks' = Asks
        /\ \A d \in Client \ {c} : pc'[d] = pc[d] /\ child'[d] = child[d] /\ told'[d] = told[d]
    BY AsksSame, OthersUntouched DEF Untouched, Relay, RelayEnding
  <1>2. pc[c] = "relay" /\ fed[c] = Needs(c) /\ child[c] \in {"running", "exited"}
    BY DEF Relay, RelayEnding, At, OrderOf, ProgramOf, Forked
  <1>3. pc'[c] \in {"relay", "closeInW"}
    BY <1>2 DEF Relay, RelayEnding, Go, HttpTypeOK
  <1>4. told' = told \/ (out[c] /\ told' = [told EXCEPT ![c] = TRUE])
    BY DEF Relay, RelayEnding
  <1>5. Closed' = Closed
    BY <1>1, <1>2, <1>3, ClosedMoves
  <1>6. CASE told' = told
    <2>1. OrderOf(c)'
      BY <1>1, <1>2, <1>3, <1>6 DEF OrderOf, Needs
    <2>2. Phase' = Phase
      BY <1>1, <1>6 DEF Phase
    <2> QED
      BY <1>1, <1>5, <2>1, <2>2 DEF Cgi!callVars
  <1>7. CASE out[c] /\ ~told[c] /\ told' = [told EXCEPT ![c] = TRUE]
    <2>1. child[c] = "exited"
      BY <1>2, <1>7 DEF ProgramOf
    <2>2. told'[c]
      BY <1>7, Zenon DEF HttpTypeOK
    <2>3. OrderOf(c)'
      BY <1>1, <1>2, <1>3, <2>1 DEF OrderOf, Needs
    <2>4. Phase[c] = "exited"
      BY <1>7, <2>1 DEF Phase
    <2>5. Phase' = [Phase EXCEPT ![c] = "told"]
      BY <1>1, <2>1, <2>2, PhaseMoves
    <2>6. fed[c] = Asks[c]
      BY <1>2 DEF Asks
    <2> QED
      BY <1>1, <1>5, <2>3, <2>4, <2>5, <2>6 DEF Cgi!Tell, Cgi!Move
  <1>8. CASE told[c] /\ told' = [told EXCEPT ![c] = TRUE]
    <2>1. told' = told
      BY <1>8, Zenon DEF HttpTypeOK
    <2> QED
      BY <1>6, <2>1
  <1> QED
    BY <1>4, <1>6, <1>7, <1>8

\* waitpid finds a program whose output was told.
LEMMA WaitCall ==
  ASSUME HttpTypeOK, NEW c \in Client, StepOf(c), ProgramOf(c), OrderOf(c), Waitpid(c)
  PROVE  OrderOf(c)' /\ Cgi!Reap(c)
  <1>1. /\ UNCHANGED <<kind, told, fed, got>> /\ Asks' = Asks
        /\ \A d \in Client \ {c} : pc'[d] = pc[d] /\ child'[d] = child[d]
    BY AsksSame, OthersUntouched DEF Untouched, Waitpid
  <1>2. pc \in [Client -> Place] /\ child \in [Client -> {"none", "running", "exited", "reaped"}]
    BY DEF HttpTypeOK, Place, Serving, Piped, Forked, Closing
  <1>3. pc[c] = "wait" /\ pc'[c] = "close" /\ child[c] = "exited" /\ child'[c] = "reaped"
    BY <1>2 DEF Waitpid, At, Go
  <1>4. told[c]
    BY <1>3 DEF ProgramOf
  <1>5. Closed' = Closed
    BY <1>1, <1>3, ClosedMoves
  <1>6. Phase[c] = "told"
    BY <1>3, <1>4 DEF Phase
  <1>7. Phase' = [Phase EXCEPT ![c] = "reaped"]
    BY <1>1, <1>3, PhaseMoves
  <1>8. OrderOf(c)'
    BY <1>1, <1>3 DEF OrderOf, Needs
  <1> QED
    BY <1>1, <1>5, <1>6, <1>7, <1>8 DEF Cgi!Reap, Cgi!Move

\* The program's own steps.
LEMMA ProgramCall ==
  ASSUME HttpTypeOK, NEW c \in Client, StepOf(c), ProgramOf(c), OrderOf(c),
         Program(c) \/ ChildGivesUp(c)
  PROVE  OrderOf(c)' /\ (Cgi!Take(c) \/ Cgi!End(c))
  <1>1. /\ UNCHANGED <<kind, pc, told, fed>> /\ Asks' = Asks /\ child[c] = "running" /\ ~told[c]
        /\ \A d \in Client \ {c} : child'[d] = child[d]
    BY AsksSame, OthersUntouched
    DEF Untouched, Program, ChildGivesUp, ChildRead, ChildExit, Exit, OrderOf
  <1>2. Closed' = Closed /\ Phase[c] = "running"
    BY <1>1 DEF Closed, Phase
  <1>3. CASE ChildRead(c)
    <2>1. child' = child /\ got[c] < fed[c] /\ got' = [got EXCEPT ![c] = got[c] + 1]
      BY <1>3 DEF ChildRead
    <2>2. Phase' = Phase
      BY <1>1, <2>1 DEF Phase
    <2>3. OrderOf(c)'
      BY <1>1, <2>1 DEF OrderOf, Needs
    <2> QED
      BY <1>1, <1>2, <2>1, <2>2, <2>3 DEF Cgi!Take
  <1>4. CASE ChildExit(c) \/ ChildGivesUp(c)
    <2>1. got' = got /\ child'[c] = "exited"
      BY <1>4 DEF ChildExit, ChildGivesUp, Exit, HttpTypeOK
    <2>2. Phase' = [Phase EXCEPT ![c] = "exited"]
      BY <1>1, <2>1, PhaseMoves
    <2>3. OrderOf(c)'
      BY <1>1, <2>1 DEF OrderOf, Needs
    <2> QED
      BY <1>1, <1>2, <2>1, <2>2, <2>3 DEF Cgi!End, Cgi!Move
  <1> QED
    BY <1>3, <1>4 DEF Program

\* A connection is closed by its thread, or by the main thread when there is
\* none: no program is under way.
LEMMA CloseCall ==
  ASSUME HttpTypeOK, NEW c \in Client, StepOf(c), ProgramOf(c), OrderOf(c),
         Close(c) \/ CreateThread(c)
  PROVE  OrderOf(c)' /\ (Cgi!Close(c) \/ UNCHANGED Cgi!callVars)
  <1>1. /\ UNCHANGED <<kind, child, told, fed, got>> /\ Asks' = Asks
        /\ \A d \in Client \ {c} : pc'[d] = pc[d]
    BY AsksSame, OthersUntouched DEF Untouched, Close, CloseEnd, CreateThread, clientVars, childVars
  <1>2. pc \in [Client -> Place]
    BY DEF HttpTypeOK, Place, Serving, Piped, Forked, Closing
  <1>3. /\ pc[c] = "close" \/ pc[c] = "accepted"
        /\ pc'[c] = "done" \/ (pc[c] = "accepted" /\ pc'[c] = "line")
    BY <1>2 DEF Close, CloseEnd, CreateThread, At, Go
  <1>4. CASE pc'[c] = "done"
    <2>1. child[c] \in {"none", "reaped"}
      BY <1>3 DEF ProgramOf, Serving, Closing
    <2>2. Phase' = Phase /\ Phase[c] \in {"none", "reaped"}
      BY <1>1, <2>1 DEF Phase
    <2>3. Closed' = Closed \union {c} /\ c \notin Closed
      BY <1>1, <1>3, <1>4, ClosedMoves DEF Closed
    <2>4. OrderOf(c)'
      BY <1>1, <1>4 DEF OrderOf, Needs
    <2> QED
      BY <1>1, <2>2, <2>3, <2>4 DEF Cgi!Close
  <1>5. CASE pc[c] = "accepted" /\ pc'[c] = "line"
    BY <1>1, <1>5, QuietCall
  <1> QED
    BY <1>3, <1>4, <1>5

-----------------------------------------------------------------------------
LEMMA CallInit == Init => Ordered /\ Cgi!Init
  <1> SUFFICES ASSUME Init PROVE Ordered /\ Cgi!Init
    OBVIOUS
  <1>1. \A c \in Client : OrderOf(c)
    BY DEF Init, OrderOf
  <1>2. Asks \in [Client -> {0, Length}]
    BY DEF Asks, Needs
  <1>3. Phase = [c \in Client |-> "none"]
    BY DEF Init, Phase
  <1>4. Closed = {}
    BY DEF Init, Closed
  <1> QED
    BY <1>1, <1>2, <1>3, <1>4 DEF Init, Ordered, Cgi!Init

LEMMA CallStep ==
  ASSUME HttpInv, Ordered, [Next]_vars
  PROVE  Ordered' /\ [Cgi!Next]_(Cgi!callVars)
  <1>1. CASE UNCHANGED vars
    <2>1. UNCHANGED <<kind, pc, child, told, fed, got>>
      BY <1>1 DEF vars, clientVars, childVars
    <2> QED
      BY <2>1 DEF Ordered, OrderOf, Needs, Cgi!callVars, Asks, Phase, Closed
  <1>2. CASE Next
    <2>1. PICK c \in Client : StepOf(c)
      BY <1>2 DEF Next, StepOf
    <2>2. HttpTypeOK /\ TableOf(c) /\ ProgramOf(c) /\ OrderOf(c)
      BY DEF HttpInv, Ordered
    <2>3. OrderOf(c)' /\ [Cgi!Next]_(Cgi!callVars)
      <3>1. CASE \/ RequestLine(c) \/ Clean(c) \/ Page(c) \/ ErrorClean(c) \/ ErrorPage(c)
                 \/ Header(c) \/ Status(c) \/ PipeIn(c) \/ PipeOut(c) \/ Accept(c) \/ Peer(c)
        BY <2>1, <2>2, <3>1, ServingCall
      <3>2. CASE CloseInR(c) \/ CloseOutW(c) \/ CloseInW(c) \/ CloseOutR(c)
        BY <2>1, <2>2, <3>2, EndsCall
      <3>3. CASE Fork(c)
        BY <2>1, <2>2, <3>3, ForkCall DEF Cgi!Next
      <3>4. CASE Feed(c)
        BY <2>1, <2>2, <3>4, FeedCall DEF Cgi!Next
      <3>5. CASE Relay(c)
        BY <2>1, <2>2, <3>5, RelayCall DEF Cgi!Next
      <3>6. CASE Waitpid(c)
        BY <2>1, <2>2, <3>6, WaitCall DEF Cgi!Next
      <3>7. CASE Program(c) \/ ChildGivesUp(c)
        BY <2>1, <2>2, <3>7, ProgramCall DEF Cgi!Next
      <3>8. CASE Close(c) \/ CreateThread(c)
        BY <2>1, <2>2, <3>8, CloseCall DEF Cgi!Next
      <3> QED
        BY <2>1, <3>1, <3>2, <3>3, <3>4, <3>5, <3>6, <3>7, <3>8 DEF StepOf, Thread, Main
    <2>4. ASSUME NEW d \in Client, d # c PROVE OrderOf(d)'
      BY <2>1, <2>2, <2>4, OthersUntouched, OrderOthers DEF Ordered
    <2> QED
      BY <2>3, <2>4 DEF Ordered
  <1> QED
    BY <1>1, <1>2

\* The HTTP server implements CgiCall: for any number of connections, bodies of
\* any length and any failing calls, each program is started at most once, is
\* given no more than was announced, is told about only when it has ended and
\* all of the body was given, and its connection stays open until it is reaped.
THEOREM CgiRefinement == Spec => CallsInOrder
  <1>1. Init => HttpInv /\ Ordered /\ Cgi!Init
    BY HttpInit, CallInit
  <1>2. HttpInv /\ Ordered /\ [Next]_vars => HttpInv' /\ Ordered' /\ [Cgi!Next]_(Cgi!callVars)
    BY HttpStep, CallStep
  <1> QED
    BY <1>1, <1>2, PTL DEF Spec, CallsInOrder, Cgi!Spec

=============================================================================
