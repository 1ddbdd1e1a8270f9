----------------------------- MODULE WeatherShow -----------------------------
(***************************************************************************)
(* weather_show.cpp: the program of the weather server that starts a push. *)
(* It forks, the child becomes ShowWeather.py, and it ends without waiting *)
(* for the child (lines 28-32 are a comment).                              *)
(*                                                                         *)
(* What either process prints goes to one pipe, from which the server      *)
(* reads the page until nobody holds the other end.  A line is buffered    *)
(* until the next endl, and fork copies what is in the buffer: "Begin      *)
(* Push" (line 20) is printed by both processes.                           *)
(*                                                                         *)
(* The server has written the whole body to the other pipe when it starts  *)
(* to read the page, and keeps that pipe open until it has read all of it. *)
(* A body fits into post_data.                                             *)
(***************************************************************************)
EXTENDS Naturals, Sequences, FiniteSets

CONSTANT MaxBody   \* bound: Content-Length of a POST

ASSUME WeatherShowAssumption == MaxBody \in Nat

VARIABLES
  show,      \* where main is
  method,    \* of the request; "none" when REQUEST_METHOD is not set
  clength,   \* Content-Length
  body,      \* how much of the body main has read
  child,     \* the forked process
  printed,   \* what either process has in the buffer of its stdout
  pipe,      \* what the server has not read yet
  page,      \* what it has read
  seen       \* it has seen the end of the page

showVars == <<show, method, clength, body, child, printed, pipe, page, seen>>

ShowInit ==
  /\ show = "start" /\ method \in {"GET", "POST", "none"}
  /\ clength \in 0 .. MaxBody /\ body = 0
  /\ child = "none"
  /\ printed = [p \in {"main", "child"} |-> <<>>]
  /\ pipe = <<>> /\ page = <<>> /\ seen = FALSE

\* Process p prints the texts and an endl, or ends.
Flush(p, texts) ==
  /\ pipe' = pipe \o printed[p] \o texts
  /\ printed' = [printed EXCEPT ![p] = <<>>]

\* main up to the body.
ReadHead ==
  /\ show = "start"
  /\ \/ /\ method = "GET"
        /\ printed' = [printed EXCEPT !["main"] = <<"head", "method">>]
        /\ show' = "show" /\ UNCHANGED pipe
     \/ method = "POST" /\ Flush("main", <<"head", "method", "length">>) /\ show' = "body"
     \/ method = "none" /\ Flush("main", <<"head", "method error">>) /\ show' = "exited"
  /\ UNCHANGED <<method, clength, body, child, page, seen>>

\* Faulty: i <= clength.
ReadBodyOneMore ==
  /\ show = "body" /\ body < clength
  /\ body' = body + 1
  /\ UNCHANGED <<show, method, clength, child, printed, pipe, page, seen>>

\* A byte, or all of them have been read.
ReadBody ==
  /\ show = "body"
  /\ IF body < clength
     THEN body' = body + 1 /\ UNCHANGED show
     ELSE show' = "show" /\ UNCHANGED body
  /\ UNCHANGED <<method, clength, child, printed, pipe, page, seen>>

\* Faulty: no endl behind the argument.
ShowWeatherNoEndl ==
  /\ show = "show"
  /\ printed' = [printed EXCEPT !["main"] = @ \o <<"arg", "Begin Push">>]
  /\ show' = "fork"
  /\ UNCHANGED <<method, clength, body, child, pipe, page, seen>>

ShowWeather ==
  /\ show = "show"
  /\ pipe' = pipe \o printed["main"] \o <<"arg">>
  /\ printed' = [printed EXCEPT !["main"] = <<"Begin Push">>]
  /\ show' = "fork"
  /\ UNCHANGED <<method, clength, body, child, page, seen>>

\* fork, which may fail: nobody looks.
ForkPush ==
  /\ show = "fork"
  /\ \/ child' = "born" /\ printed' = [printed EXCEPT !["child"] = printed["main"]]
     \/ UNCHANGED <<child, printed>>
  /\ show' = "error"
  /\ UNCHANGED <<method, clength, body, pipe, page, seen>>

\* main says so whether or not execl has failed, and leaves.
SayError ==
  /\ show = "error" /\ Flush("main", <<"exec error">>)
  /\ show' = "end"
  /\ UNCHANGED <<method, clength, body, child, page, seen>>

ShowEnds ==
  /\ show = "end" /\ Flush("main", <<"tail">>)
  /\ show' = "exited"
  /\ UNCHANGED <<method, clength, body, child, page, seen>>

-----------------------------------------------------------------------------
(* The child, and the server.                                              *)

BeginExecl ==
  /\ child = "born" /\ Flush("child", <<"Begin execl">>)
  /\ child' = "execl"
  /\ UNCHANGED <<show, method, clength, body, page, seen>>

Execl ==
  /\ child = "execl"
  /\ \/ child' = "push" /\ UNCHANGED <<pipe, printed>>
     \/ child' = "exited" /\ Flush("child", <<"execl error">>)
  /\ UNCHANGED <<show, method, clength, body, page, seen>>

\* ShowWeather.py ends, after a mail or without one.
PushEnds ==
  /\ child = "push" /\ Flush("child", <<"pushed">>)
  /\ child' = "exited"
  /\ UNCHANGED <<show, method, clength, body, page, seen>>

ReadPage ==
  /\ pipe # <<>>
  /\ page' = Append(page, Head(pipe)) /\ pipe' = Tail(pipe)
  /\ UNCHANGED <<show, method, clength, body, child, printed, seen>>

\* read returns 0 when both processes have ended.
PageEnds ==
  /\ pipe = <<>> /\ show = "exited" /\ child \in {"none", "exited"} /\ ~seen
  /\ seen' = TRUE
  /\ UNCHANGED <<show, method, clength, body, child, printed, pipe, page>>

ShowNext ==
  \/ ReadHead \/ ReadBody \/ ShowWeather \/ ForkPush \/ SayError \/ ShowEnds
  \/ BeginExecl \/ Execl \/ PushEnds \/ ReadPage \/ PageEnds

ShowSpec == ShowInit /\ [][ShowNext]_showVars

-----------------------------------------------------------------------------
(* Properties.                                                             *)

\* However the two processes print into each other's text, fork doubles no line
\* but "Begin Push", which main leaves in its buffer (line 20); the endl of line
\* 19 is what keeps the head of the page out of the copy.
PrintedOnce ==
  LET said == page \o pipe
      Times(i) == Cardinality({j \in DOMAIN said : said[j] = said[i]})
  IN \A i \in DOMAIN said :
       Times(i) = 1 \/ (said[i] = "Begin Push" /\ Times(i) = 2 /\ child # "none")

\* The child holds the pipe to the server as well: a page that has ended holds
\* what the push has printed, though main did not wait for it (lines 28-32).
PageHoldsPush ==
  seen /\ child # "none" => \E i \in DOMAIN page : page[i] \in {"pushed", "execl error"}

\* The page holds what main and the push print, each line once but for one.
PageSafe == PrintedOnce /\ PageHoldsPush

\* Every page ends when its push does.  main must not ask for more than the
\* body: the server, which waits for the end of the page, keeps the pipe of the
\* body open (lines 288-291 of httpd.c).
PageComes == show # "start" ~> seen
=============================================================================
