------------------------------ MODULE CgiCall -------------------------------
(***************************************************************************)
(* What the HTTP server promises of a request for a program, with no       *)
(* descriptor, pipe, fork or thread in sight: the program is started at    *)
(* most once; it takes only what it was given, in the measure the request  *)
(* announced; its output is told only after it has ended and all of that   *)
(* was given; it is over only after its output was told; and a connection  *)
(* is not closed in between.  HttpServer is shown to implement it.         *)
(***************************************************************************)
EXTENDS Naturals

CONSTANTS
  Client,     \* one request each
  Length      \* the largest body announced

VARIABLES
  asks,       \* the body each request announces to its program
  phase,      \* "none", "running", "exited", "told" or "reaped"
  given,      \* how much of the body the program was given
  eaten,      \* how much of it the program has taken
  closed      \* the connections that the server has closed

callVars == <<asks, phase, given, eaten, closed>>

Init ==
  /\ asks \in [Client -> {0, Length}]
  /\ phase = [c \in Client |-> "none"]
  /\ given = [c \in Client |-> 0] /\ eaten = [c \in Client |-> 0]
  /\ closed = {}

Move(c, from, to) ==
  /\ phase[c] \in from
  /\ phase' = [phase EXCEPT ![c] = to]
  /\ UNCHANGED <<asks, given, eaten, closed>>

Begin(c) == c \notin closed /\ Move(c, {"none"}, "running")

\* What is given to a program that has ended is lost.
Give(c) ==
  /\ phase[c] \in {"running", "exited"} /\ given[c] < asks[c]
  /\ given' = [given EXCEPT ![c] = @ + 1]
  /\ UNCHANGED <<asks, phase, eaten, closed>>

Take(c) ==
  /\ phase[c] = "running" /\ eaten[c] < given[c]
  /\ eaten' = [eaten EXCEPT ![c] = @ + 1]
  /\ UNCHANGED <<asks, phase, given, closed>>

\* A program ends when it likes.
End(c) == Move(c, {"running"}, "exited")

Tell(c) == given[c] = asks[c] /\ Move(c, {"exited"}, "told")

Reap(c) == Move(c, {"told"}, "reaped")

Close(c) ==
  /\ phase[c] \in {"none", "reaped"} /\ c \notin closed
  /\ closed' = closed \union {c}
  /\ UNCHANGED <<asks, phase, given, eaten>>

Next ==
  \E c \in Client :
    Begin(c) \/ Give(c) \/ Take(c) \/ End(c) \/ Tell(c) \/ Reap(c) \/ Close(c)

Spec == Init /\ [][Next]_callVars
=============================================================================
