----------------------------- MODULE MCServers ------------------------------
(* The small TCP servers for TLC: `program' chooses one of them at the start. *)
EXTENDS EpollServer, EventServer, EchoClient, LineServer, TLC

CONSTANTS a, b
Sends == a :> 3 @@ b :> 1

Init == EpollInit /\ EventInit /\ EchoInit /\ LineInit

\* A step of one of them leaves the variables of the others alone.
Epoll == program = "epoll" /\ UNCHANGED <<eventVars, threadVars, clientVars, lineVars>>
Libevent == program = "libevent" /\ UNCHANGED <<epollVars, threadVars, clientVars, lineVars>>
Threads ==
  /\ program \in {"pthread", "echo"}
  /\ UNCHANGED <<epollVars, eventVars, lineVars, clientVars>>
Echo == program = "echo" /\ UNCHANGED <<epollVars, eventVars, lineVars>>
Line == program \in Lines /\ UNCHANGED <<epollVars, eventVars, threadVars, clientVars>>

Main ==
  \/ Epoll /\ EpollStep
  \/ Libevent /\ EventStep
  \/ Threads /\ TsMain
  \/ Line /\ LineMain

Serve(c) == Threads /\ HandleClient(c)
Hear(c) == Echo /\ Hears(c)

\* More than a buffer holds comes to tserver.c from the clients of "echo" only.
User(c) ==
  \/ Epoll /\ EpollClient(c)
  \/ Libevent /\ EventClient(c)
  \/ program = "pthread" /\ Threads /\ ThreadClient(c) /\ sent'[c] <= BufLen
  \/ Echo /\ Types(c)
  \/ Line /\ LineUser(c)

Next == Main \/ \E c \in Client : Serve(c) \/ Hear(c) \/ User(c)

allVars == <<sockVars, epollVars, eventVars, threadVars, clientVars, lineVars>>

\* The thread of a server takes its next step when it can, and so does each
\* thread of tserver.c; clients wait and leave as they like, but the clients of
\* "echo" read what has come.
Fairness ==
  WF_allVars(Main) /\ \A c \in Client : WF_allVars(Serve(c)) /\ WF_allVars(Hear(c))

Spec == Init /\ [][Next]_allVars /\ Fairness
=============================================================================
