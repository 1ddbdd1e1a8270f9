----------------------------- MODULE FirstCome ------------------------------
(***************************************************************************)
(* What a server that people come to talk to promises them, with no        *)
(* descriptor, event or thread in sight: those who wait are taken in the   *)
(* order in which they came, or turned away; whoever is inside is heard a  *)
(* buffer at a time, never more than was said and nothing twice; and       *)
(* nobody is seen out who has not been heard to the end.  All the servers  *)
(* that extend Sockets.tla are shown to implement this specification.      *)
(***************************************************************************)
EXTENDS Integers, Sequences

CONSTANTS
  Client,     \* who may come, each once
  BufLen,     \* how much is heard at once, at least 1
  MaxSends    \* how much each of them may say

VARIABLES
  queue,      \* those who wait, in the order in which they came
  place,      \* "away", "queued", "inside", "left" or "refused"
  said,       \* how much each has said
  heard       \* how much of it the server has heard

doorVars == <<queue, place, said, heard>>

Init ==
  /\ queue = <<>>
  /\ place = [c \in Client |-> "away"]
  /\ said = [c \in Client |-> 0]
  /\ heard = [c \in Client |-> 0]

Arrive(c) ==
  /\ place[c] = "away"
  /\ place' = [place EXCEPT ![c] = "queued"]
  /\ queue' = Append(queue, c)
  /\ UNCHANGED <<said, heard>>

\* Whose turn it is comes in, or is turned away.
TakeNext(there) ==
  /\ queue # <<>>
  /\ place' = [place EXCEPT ![Head(queue)] = there]
  /\ queue' = Tail(queue)
  /\ UNCHANGED <<said, heard>>

Admit == TakeNext("inside")
Refuse == TakeNext("refused")

\* Who has left says nothing any more; who waits, or was refused and has not
\* noticed, may speak.
Speak(c) ==
  /\ place[c] \in {"queued", "inside", "refused"}
  /\ \E n \in said[c] + 1 .. MaxSends[c] : said' = [said EXCEPT ![c] = n]
  /\ UNCHANGED <<queue, place, heard>>

Hear(c) ==
  /\ place[c] = "inside"
  /\ \E n \in heard[c] + 1 .. said[c] :
       n <= heard[c] + BufLen /\ heard' = [heard EXCEPT ![c] = n]
  /\ UNCHANGED <<queue, place, said>>

Leave(c) ==
  /\ place[c] = "inside" /\ heard[c] = said[c]
  /\ place' = [place EXCEPT ![c] = "left"]
  /\ UNCHANGED <<queue, said, heard>>

Next ==
  \/ Admit \/ Refuse
  \/ \E c \in Client : Arrive(c) \/ Speak(c) \/ Hear(c) \/ Leave(c)

Spec == Init /\ [][Next]_doorVars
=============================================================================
