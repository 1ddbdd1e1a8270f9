-------------------------- MODULE PollServerProofs --------------------------
(***************************************************************************)
(* Proofs about PollServer, for any set of clients, any USER_LIMIT and any *)
(* number of descriptors.  RoomInv is the inductive invariant: that        *)
(* swapping entries keeps them distinct needs descriptors and clients to   *)
(* be paired one to one, that needs the connections waiting for accept to  *)
(* be at nobody's descriptor, and the absence of SIGPIPE needs all of it.  *)
(* TextInv, on top of it, says of each entry what its events promise: a    *)
(* POLLOUT asked for is a text owed, and a POLLIN seen is a text unread.   *)
(***************************************************************************)
EXTENDS PollServer, SequenceTheorems, FiniteSetTheorems, TLAPS

Entries == [fd : Fd, out : BOOLEAN, re : Revs]
Open == {f \in Fd : peer[f] # None}

LEMMA QuietType == Quiet \in Revs
  BY DEF Quiet, Revs

LEMMA OpenFinite == IsFiniteSet(Open) /\ Cardinality(Open) \in Nat
<1>1. Open \subseteq Fd /\ IsFiniteSet(Fd)
  BY PollServerAssumption DEF Open
<1> QED
  BY <1>1, FS_Subset, FS_CardinalityType

\* One more open descriptor, and one less.
LEMMA OpenOne ==
  ASSUME NEW f \in Fd, peer[f] = None, peer' = [peer EXCEPT ![f] = peer'[f]],
         peer'[f] # None, peer \in [Fd -> Client \union {None}]
  PROVE  Cardinality({g \in Fd : peer'[g] # None}) = Cardinality(Open) + 1
<1>1. {g \in Fd : peer'[g] # None} = Open \union {f} /\ f \notin Open
  BY DEF Open
<1> QED
  BY <1>1, OpenFinite, FS_AddElement

LEMMA CloseOne ==
  ASSUME NEW f \in Fd, peer[f] # None, peer' = [peer EXCEPT ![f] = None],
         peer \in [Fd -> Client \union {None}]
  PROVE  Cardinality({g \in Fd : peer'[g] # None}) = Cardinality(Open) - 1
<1>1. {g \in Fd : peer'[g] # None} = Open \ {f} /\ f \in Open
  BY DEF Open
<1> QED
  BY <1>1, OpenFinite, FS_RemoveElement

\* A sequence built entry by entry.
LEMMA EntriesSeq ==
  ASSUME NEW n \in Nat, NEW s, DOMAIN s = 1 .. n, s = [j \in 1 .. n |-> s[j]],
         \A j \in 1 .. n : s[j] \in Entries
  PROVE  s \in Seq(Entries) /\ Len(s) = n
<1>1. s \in [1 .. n -> Entries]
  OBVIOUS
<1> QED
  BY <1>1

LEMMA RoomInitInv == Init => RoomInv
<1> SUFFICES ASSUME Init PROVE RoomInv
  OBVIOUS
<1> USE PollServerAssumption DEF Init, user_count
<1>1. PollTypeOK
  <2>1. fds \in Seq([fd : Fd, out : BOOLEAN, re : Revs]) /\ backlog \in Seq(Client)
    OBVIOUS
  <2>2. /\ user_count <= UserLimit /\ i \in 0 .. UserLimit + 1
        /\ sent \in 0 .. MaxLines /\ failures \in 0 .. MaxFailures
    OBVIOUS
  <2>4. listening \in BOOLEAN /\ killed \in BOOLEAN
    BY Zenon
  <2>3. /\ pending \subseteq Fd
        /\ peer \in [Fd -> Client \union {None}]
        /\ state \in [Client -> States]
        /\ sockerr \in [Client -> {"none", "reset", "pipe"}]
    BY DEF States
  <2> QED
    BY <2>1, <2>2, <2>3, <2>4 DEF PollTypeOK
<1>2. {f \in Fd : peer[f] # None} = {}
  OBVIOUS
<1>3. Connected
  <2>1. user_count = 0
    OBVIOUS
  <2>2. Cardinality({f \in Fd : peer[f] # None}) = user_count + failures
    <3>1. Cardinality({}) = 0 /\ failures = 0
      BY FS_EmptySet
    <3> HIDE DEF Init, user_count
    <3> QED
      BY <1>2, <2>1, <3>1
  <2>3. /\ \A j, k \in 1 .. user_count : FALSE
        /\ i <= user_count + 1
    BY <2>1
  <2>4. \A f \in Fd : peer[f] = None
    OBVIOUS
  <2> HIDE DEF Init, user_count
  <2>5. /\ \A j, k \in 1 .. user_count : j # k => fds[j].fd # fds[k].fd
        /\ \A k \in 1 .. user_count : At(k) # None
    BY <2>3
  <2>6. /\ \A f, g \in Fd : (f # g /\ peer[f] # None) => peer[f] # peer[g]
        /\ \A f \in Fd : peer[f] # None => state[peer[f]] # "off"
    BY <2>4
  <2> QED
    BY <2>2, <2>3, <2>5, <2>6 DEF Connected
<1>4. Waiting /\ ResetsAreSeen
  BY DEF Waiting, ResetsAreSeen
<1> QED
  BY <1>1, <1>3, <1>4 DEF RoomInv

\* What RoomInv says of one entry.
LEMMA EntryFacts ==
  ASSUME RoomInv
  PROVE  /\ user_count \in Nat
         /\ fds \in Seq(Entries)
         /\ \A k \in 1 .. user_count :
              /\ fds[k] \in Entries /\ fds[k].fd \in Fd /\ fds[k].re \in Revs
              /\ fds[k].out \in BOOLEAN
              /\ At(k) \in Client
              /\ state[At(k)] # "off"
              /\ \A m \in 1 .. Len(backlog) : backlog[m] # At(k)
         /\ \A j, k \in 1 .. user_count : j # k => At(j) # At(k)
<1>0. fds \in Seq(Entries)
  BY DEF RoomInv, PollTypeOK, Entries
<1>1. /\ user_count \in Nat
      /\ \A k \in 1 .. user_count : fds[k] \in Entries
  BY <1>0, ElementOfSeq DEF user_count
<1>2. \A k \in 1 .. user_count :
         fds[k].fd \in Fd /\ fds[k].re \in Revs /\ fds[k].out \in BOOLEAN
  BY <1>1 DEF Entries
<1> USE DEF RoomInv, PollTypeOK, Connected, Waiting, At
<1>3. \A k \in 1 .. user_count : At(k) \in Client /\ state[At(k)] # "off"
  BY <1>2
<1>4. \A k \in 1 .. user_count : \A m \in 1 .. Len(backlog) : backlog[m] # At(k)
  BY <1>2
<1>5. \A j, k \in 1 .. user_count : j # k => At(j) # At(k)
  BY <1>2
<1> QED
  BY <1>0, <1>1, <1>2, <1>3, <1>4, <1>5

-----------------------------------------------------------------------------
(* Steps of the clients.                                                   *)

LEMMA ConnectInv == ASSUME RoomInv, NEW c \in Client, Connect(c) PROVE RoomInv'
<1> USE PollServerAssumption DEF RoomInv, Connect, user_count, At, Gone
<1>1. PollTypeOK'
  BY DEF PollTypeOK, States
<1>2. Connected'
  BY EntryFacts DEF Connected, PollTypeOK
<1>3. Waiting'
  <2>1. /\ Len(backlog') = Len(backlog) + 1 /\ Len(backlog) \in Nat
        /\ backlog'[Len(backlog) + 1] = c
        /\ \A m \in 1 .. Len(backlog) : backlog'[m] = backlog[m]
    BY DEF PollTypeOK
  <2>2. \A m \in 1 .. Len(backlog) : backlog[m] # c
    BY DEF Waiting
  <2>3. \A f \in Fd : peer[f] # c
    BY DEF Connected, PollTypeOK
  <2>4. state'[c] = "on" /\ \A d \in Client : d # c => state'[d] = state[d]
    BY DEF PollTypeOK
  <2>5. Len(backlog') \in Nat
    BY <2>1
  <2>6. \A m, n \in 1 .. Len(backlog') : m # n => backlog'[m] # backlog'[n]
    BY <2>1, <2>2 DEF Waiting
  <2>7. ASSUME NEW m \in 1 .. Len(backlog')
        PROVE  /\ state'[backlog'[m]] # "off"
               /\ \A f \in Fd : peer'[f] # backlog'[m]
               /\ state'[backlog'[m]] = "rst" => sockerr'[backlog'[m]] = "reset"
    <3>1. CASE m = Len(backlog) + 1
      BY <2>1, <2>3, <2>4, <3>1
    <3>2. CASE m \in 1 .. Len(backlog)
      <4>1. backlog'[m] = backlog[m] /\ backlog[m] # c /\ backlog[m] \in Client
        BY <2>1, <2>2, <3>2, ElementOfSeq DEF PollTypeOK
      <4> QED
        BY <2>4, <3>2, <4>1 DEF Waiting
    <3> QED
      BY <2>1, <3>1, <3>2
  <2> QED
    BY <2>6, <2>7 DEF Waiting
<1>4. ResetsAreSeen'
  <2>1. \A k \in 1 .. user_count : At(k) \in Client
    BY EntryFacts
  <2> QED
    BY <2>1 DEF ResetsAreSeen, PollTypeOK
<1> QED
  BY <1>1, <1>2, <1>3, <1>4

LEMMA SayInv == ASSUME RoomInv, NEW c \in Client, Say(c) PROVE RoomInv'
<1> USE PollServerAssumption DEF RoomInv, Say, user_count, At, Gone
<1>1. PollTypeOK'
  BY DEF PollTypeOK
<1>2. Connected' /\ Waiting' /\ ResetsAreSeen'
  BY DEF Connected, Waiting, ResetsAreSeen
<1> QED
  BY <1>1, <1>2

LEMMA LeaveInv == ASSUME RoomInv, NEW c \in Client, Leave(c) PROVE RoomInv'
<1> USE PollServerAssumption DEF RoomInv, Leave, user_count, At, Gone
<1>0. /\ \A d \in Client : d # c => state'[d] = state[d] /\ sockerr'[d] = sockerr[d]
      /\ state'[c] # "off"
      /\ state'[c] = "rst" => sockerr'[c] = "reset"
  BY DEF PollTypeOK
<1>1. PollTypeOK'
  BY DEF PollTypeOK, States
<1>2. Connected'
  BY <1>0 DEF Connected, PollTypeOK
<1>3. Waiting'
  BY <1>0 DEF Waiting, PollTypeOK
<1>4. ResetsAreSeen'
  <2>1. \A k \in 1 .. user_count : At(k) \in Client
    BY EntryFacts
  <2> QED
    BY <1>0, <2>1 DEF ResetsAreSeen
<1> QED
  BY <1>1, <1>2, <1>3, <1>4

-----------------------------------------------------------------------------
(* Steps of the server that leave the entries where they are.              *)

\* The entries' descriptors and their ends are the same after the step.
LEMMA SameEnds ==
  ASSUME RoomInv, fds' \in Seq(Entries), Len(fds') = Len(fds), peer' = peer,
         \A k \in 1 .. Len(fds) : fds'[k].fd = fds[k].fd
  PROVE  /\ user_count' = user_count
         /\ \A k \in 1 .. user_count : At(k)' = At(k)
  BY DEF user_count, At

\* Connected and Waiting do not depend on the events, nor on the errors of
\* the clients of the room.
LEMMA EndsStay ==
  ASSUME RoomInv, fds' \in Seq(Entries), Len(fds') = Len(fds), peer' = peer,
         \A k \in 1 .. Len(fds) : fds'[k].fd = fds[k].fd,
         failures' = failures, i' <= user_count + 1,
         \A c \in Client : state[c] # "off" => state'[c] # "off"
  PROVE  Connected'
<1>1. user_count' = user_count /\ \A k \in 1 .. user_count : At(k)' = At(k)
  BY SameEnds
<1>2. \A f \in Fd : peer[f] # None => peer[f] \in Client
  BY DEF RoomInv, PollTypeOK
<1>3. \A k \in 1 .. user_count : fds'[k].fd = fds[k].fd
  BY DEF user_count
<1> QED
  BY <1>1, <1>2, <1>3 DEF RoomInv, Connected

LEMMA PollInv == ASSUME RoomInv, Poll PROVE RoomInv'
<1> USE DEF Poll
<1>0. /\ user_count \in Nat
      /\ \A k \in 1 .. user_count :
           fds[k] \in Entries /\ fds[k].fd \in Fd /\ fds[k].out \in BOOLEAN
  BY EntryFacts
<1>1. ASSUME NEW k \in 1 .. user_count PROVE Revents(k) \in Revs
  BY <1>0 DEF Revents, Revs, Gone
<1>2. ASSUME NEW k \in 1 .. user_count
      PROVE  /\ fds'[k] \in Entries /\ fds'[k].fd = fds[k].fd
             /\ fds'[k].re = Revents(k)
  BY <1>0, <1>1 DEF Entries
<1>3. fds' \in Seq(Entries) /\ Len(fds') = user_count
  BY <1>0, <1>2, EntriesSeq
<1>4. user_count' = user_count /\ \A k \in 1 .. user_count : At(k)' = At(k)
  BY <1>2, <1>3, SameEnds DEF user_count
<1>5. PollTypeOK'
  <2>1. fds' \in Seq([fd : Fd, out : BOOLEAN, re : Revs]) /\ i' \in 0 .. UserLimit + 1
    BY <1>3, PollServerAssumption DEF Entries
  <2>2. listening' \in BOOLEAN
    OBVIOUS
  <2> QED
    BY <1>4, <2>1, <2>2 DEF RoomInv, PollTypeOK, kernelVars
<1>6. Connected'
  <2>1. /\ i' <= user_count + 1 /\ failures' = failures /\ peer' = peer
        /\ \A c \in Client : state[c] # "off" => state'[c] # "off"
    BY <1>0 DEF kernelVars
  <2>2. Len(fds') = Len(fds) /\ \A k \in 1 .. Len(fds) : fds'[k].fd = fds[k].fd
    BY <1>2, <1>3 DEF user_count
  <2> HIDE DEF Poll
  <2> QED
    BY <1>3, <2>1, <2>2, EndsStay, Zenon
<1>7. Waiting'
  BY DEF RoomInv, Waiting, kernelVars
<1>8. ResetsAreSeen'
  <2>1. ASSUME NEW k \in 1 .. user_count, state[At(k)] = "rst" PROVE fds'[k].re.hup
    <3>1. Gone(At(k))
      BY <2>1 DEF Gone
    <3>2. Revents(k).hup = Gone(At(k))
      BY DEF Revents
    <3> QED
      BY <1>2, <3>1, <3>2, Zenon
  <2> QED
    BY <1>4, <2>1 DEF RoomInv, ResetsAreSeen, kernelVars
<1> QED
  BY <1>5, <1>6, <1>7, <1>8 DEF RoomInv

LEMMA RefuseInv == ASSUME RoomInv, Refuse PROVE RoomInv'
<1> USE DEF Refuse, user_count, At
<1>0. PICK c \in Client : c = Head(backlog)
  BY DEF RoomInv, PollTypeOK
<1>1. /\ Len(backlog) \in Nat /\ Len(backlog) >= 1 /\ c = backlog[1]
      /\ backlog' \in Seq(Client) /\ Len(backlog') = Len(backlog) - 1
      /\ \A m \in 1 .. Len(backlog') : backlog'[m] = backlog[m + 1]
  BY <1>0 DEF RoomInv, PollTypeOK
<1>2. /\ state'[c] = "refused"
      /\ \A d \in Client : d # c => state'[d] = state[d] /\ sockerr'[d] = sockerr[d]
  BY <1>0 DEF RoomInv, PollTypeOK
<1>3. PollTypeOK'
  BY <1>0, <1>1, PollServerAssumption DEF RoomInv, PollTypeOK, States
<1>4. Connected'
  BY <1>2, EntryFacts DEF RoomInv, Connected, PollTypeOK
<1>5. Waiting'
  <2>1. ASSUME NEW m \in 1 .. Len(backlog')
        PROVE  /\ m + 1 \in 1 .. Len(backlog) /\ backlog'[m] = backlog[m + 1]
               /\ backlog'[m] \in Client /\ backlog'[m] # c
    BY <1>1, ElementOfSeq DEF RoomInv, Waiting
  <2>2. \A m, n \in 1 .. Len(backlog') : m # n => backlog'[m] # backlog'[n]
    BY <1>1, <2>1 DEF RoomInv, Waiting
  <2>3. ASSUME NEW m \in 1 .. Len(backlog')
        PROVE  /\ state'[backlog'[m]] # "off"
               /\ \A f \in Fd : peer'[f] # backlog'[m]
               /\ state'[backlog'[m]] = "rst" => sockerr'[backlog'[m]] = "reset"
    BY <1>2, <2>1 DEF RoomInv, Waiting
  <2> QED
    BY <2>2, <2>3 DEF Waiting
<1>6. ResetsAreSeen'
  <2>1. \A k \in 1 .. user_count : At(k) \in Client /\ At(k) # c
    BY <1>1, EntryFacts
  <2> QED
    BY <1>2, <2>1 DEF RoomInv, ResetsAreSeen
<1> QED
  BY <1>3, <1>4, <1>5, <1>6 DEF RoomInv

LEMMA NotListeningInv == ASSUME RoomInv, NotListening PROVE RoomInv'
<1> USE DEF NotListening, kernelVars, historyVars, RoomInv
<1>1. user_count \in Nat /\ user_count' = user_count
  BY EntryFacts DEF user_count
<1>2. PollTypeOK'
  BY <1>1, PollServerAssumption DEF PollTypeOK
<1>3. Connected' /\ Waiting'
  BY <1>1 DEF Connected, Waiting, At
<1>4. ResetsAreSeen'
  BY <1>1 DEF ResetsAreSeen, At
<1> QED
  BY <1>2, <1>3, <1>4

\* A step of entry k that only moves the loop on.
LEMMA SkipInv ==
  ASSUME RoomInv, NEW k \in 1 .. user_count, Skip(k)
  PROVE  RoomInv'
<1> USE DEF Skip, Handling, kernelVars, historyVars, RoomInv
<1>1. user_count \in Nat /\ user_count' = user_count /\ i = k /\ i' = k + 1
  BY EntryFacts DEF user_count
<1>2. PollTypeOK'
  BY <1>1, PollServerAssumption DEF PollTypeOK
<1>3. Connected' /\ Waiting'
  BY <1>1 DEF Connected, Waiting, At
<1>4. ResetsAreSeen'
  BY <1>1 DEF ResetsAreSeen, At
<1> QED
  BY <1>2, <1>3, <1>4

LEMMA HandleErrInv ==
  ASSUME RoomInv, NEW k \in 1 .. user_count, HandleErr(k)
  PROVE  RoomInv'
<1> USE DEF HandleErr, Handling, historyVars, RoomInv
<1>1. user_count \in Nat /\ user_count' = user_count /\ i = k /\ i' = k + 1
  BY EntryFacts DEF user_count
<1>2. PollTypeOK'
  <2>1. i' \in 0 .. UserLimit + 1
    BY <1>1, PollServerAssumption DEF PollTypeOK
  <2>2. sockerr' \in [Client -> {"none", "reset", "pipe"}]
    BY DEF PollTypeOK
  <2> QED
    BY <1>1, <2>1, <2>2 DEF PollTypeOK
<1>3. Connected'
  BY <1>1 DEF Connected, At
<1>4. \A c \in Client : c # At(k) => sockerr'[c] = sockerr[c]
  BY DEF PollTypeOK
<1>5. Waiting'
  <2>1. \A m \in 1 .. Len(backlog) : backlog[m] \in Client /\ backlog[m] # At(k)
    BY EntryFacts, ElementOfSeq DEF PollTypeOK
  <2> QED
    BY <1>4, <2>1 DEF Waiting
<1>6. ResetsAreSeen'
  <2>1. \A j \in 1 .. user_count : j # k => At(j) \in Client /\ At(j) # At(k)
    BY EntryFacts
  <2>2. \A j \in 1 .. user_count : At(j)' = At(j)
    BY DEF At
  <2> QED
    BY <1>1, <1>4, <2>1, <2>2 DEF ResetsAreSeen
<1> QED
  BY <1>2, <1>3, <1>5, <1>6

\* A write: the connection that answers with a reset is entry k's, and the
\* loop leaves k.  A signal would need a reset poll has not seen.
LEMMA HandleOutInv ==
  ASSUME RoomInv, NEW k \in 1 .. user_count, HandleOut(k)
  PROVE  RoomInv'
<1> DEFINE c == At(k)
<1> USE DEF RoomInv
<1>1. /\ user_count \in Nat /\ i = k /\ i' = k + 1 /\ c \in Client
      /\ ~fds[k].re.hup /\ peer' = peer /\ backlog' = backlog /\ failures' = failures
      /\ fds' = [fds EXCEPT ![k].out = TRUE]
  BY EntryFacts DEF HandleOut, WritesOut, Handling
<1>2. /\ fds' \in Seq(Entries) /\ Len(fds') = Len(fds)
      /\ \A j \in 1 .. user_count : fds'[j].fd = fds[j].fd /\ fds'[j].re = fds[j].re
  <2>1. fds \in Seq(Entries) /\ [fds[k] EXCEPT !.out = TRUE] \in Entries
    BY EntryFacts DEF Entries
  <2>2. fds' \in Seq(Entries) /\ Len(fds') = Len(fds)
    BY <1>1, <2>1 DEF user_count
  <2>3. ASSUME NEW j \in 1 .. user_count
        PROVE  fds'[j].fd = fds[j].fd /\ fds'[j].re = fds[j].re
    <3>1. CASE j = k
      <4>1. fds \in [1 .. user_count -> Entries]
        BY <2>1 DEF user_count
      <4>2. fds'[k] = [fds[k] EXCEPT !.out = TRUE]
        <5> HIDE DEF RoomInv
        <5> QED
          BY <1>1, <4>1
      <4> QED
        BY <3>1, <4>2, EntryFacts DEF Entries
    <3>2. CASE j # k
      BY <1>1, <2>1, <3>2 DEF user_count
    <3> QED
      BY <3>1, <3>2
  <2> QED
    BY <2>2, <2>3
<1>3. user_count' = user_count /\ \A j \in 1 .. user_count : At(j)' = At(j)
  BY <1>1, <1>2 DEF user_count, At
<1>4. /\ state' \in [Client -> States]
      /\ sockerr' \in [Client -> {"none", "reset", "pipe"}]
      /\ \A d \in Client : d # c => state'[d] = state[d] /\ sockerr'[d] = sockerr[d]
      /\ state'[c] # "off"
  BY <1>1, EntryFacts DEF HandleOut, PollTypeOK, States
<1>5. killed' = FALSE
  <2>1. state[c] = "rst" => sockerr[c] = "reset"
    BY <1>1 DEF ResetsAreSeen
  <2>2. killed = FALSE
    BY DEF ResetsAreSeen, PollTypeOK
  <2> QED
    BY <2>1, <2>2 DEF HandleOut
<1>6. PollTypeOK'
  <2>1. fds' \in Seq([fd : Fd, out : BOOLEAN, re : Revs]) /\ pending' \subseteq Fd
    BY <1>2 DEF Entries, HandleOut, PollTypeOK
  <2>2. i' \in 0 .. UserLimit + 1 /\ user_count' <= UserLimit
    BY <1>1, <1>3, PollServerAssumption DEF PollTypeOK
  <2> QED
    BY <1>1, <1>4, <1>5, <2>1, <2>2 DEF PollTypeOK, HandleOut
<1>7. Connected'
  <2>1. \A d \in Client : state[d] # "off" => state'[d] # "off"
    BY <1>4
  <2>2. \A j \in 1 .. Len(fds) : fds'[j].fd = fds[j].fd
    BY <1>2 DEF user_count
  <2> HIDE DEF RoomInv
  <2> QED
    BY <1>1, <1>2, <2>1, <2>2, EndsStay
<1>8. Waiting'
  <2>1. \A m \in 1 .. Len(backlog) : backlog[m] \in Client /\ backlog[m] # c
    BY EntryFacts, ElementOfSeq DEF PollTypeOK
  <2> QED
    BY <1>1, <1>4, <2>1 DEF Waiting
<1>9. ResetsAreSeen'
  <2>1. \A j \in 1 .. user_count : j # k => At(j) \in Client /\ At(j) # c
    BY EntryFacts
  <2> QED
    BY <1>1, <1>2, <1>3, <1>4, <1>5, <2>1 DEF ResetsAreSeen
<1> QED
  BY <1>6, <1>7, <1>8, <1>9

-----------------------------------------------------------------------------
(* Steps that add, remove or forward to entries.                           *)

LEMMA ForwardInv ==
  ASSUME RoomInv, NEW k \in 1 .. user_count, Forward(k)
  PROVE  RoomInv'
<1> USE DEF RoomInv
<1>1. /\ user_count \in Nat /\ i = k /\ i' = k + 1
      /\ peer' = peer /\ backlog' = backlog /\ failures' = failures
      /\ state' = state /\ sockerr' = sockerr /\ killed' = killed
      /\ fds' = [j \in 1 .. user_count |->
                   [fds[j] EXCEPT !.out = @ \/ (TRUE /\ j \in (1 .. user_count) \ {k})]]
  BY EntryFacts DEF Forward, ForwardTo, HasInput, Handling
<1>2. ASSUME NEW j \in 1 .. user_count
      PROVE  /\ fds'[j] \in Entries
             /\ fds'[j].fd = fds[j].fd /\ fds'[j].re = fds[j].re
  BY <1>1, EntryFacts DEF Entries
<1>3. /\ fds' \in Seq(Entries) /\ Len(fds') = user_count
  BY <1>1, <1>2, EntriesSeq
<1>4. user_count' = user_count /\ \A j \in 1 .. user_count : At(j)' = At(j)
  BY <1>1, <1>2, <1>3 DEF user_count, At
<1>5. PollTypeOK'
  <2>1. fds' \in Seq([fd : Fd, out : BOOLEAN, re : Revs])
    BY <1>3 DEF Entries
  <2>2. i' \in 0 .. UserLimit + 1
    BY <1>1, PollServerAssumption DEF PollTypeOK
  <2>3. pending' \subseteq Fd
    BY EntryFacts DEF PollTypeOK, Forward, ForwardTo
  <2>4. listening' = listening /\ sent' = sent
    BY DEF Forward, ForwardTo
  <2> QED
    BY <1>1, <1>4, <2>1, <2>2, <2>3, <2>4 DEF PollTypeOK
<1>6. Connected'
  <2>1. Len(fds') = Len(fds) /\ \A j \in 1 .. Len(fds) : fds'[j].fd = fds[j].fd
    BY <1>2, <1>3 DEF user_count
  <2> HIDE DEF RoomInv
  <2> QED
    BY <1>1, <1>3, <2>1, EndsStay
<1>7. Waiting'
  BY <1>1 DEF Waiting
<1>8. ResetsAreSeen'
  <2>1. ASSUME NEW j \in 1 .. user_count, j >= i',
               state[At(j)] = "rst", sockerr[At(j)] # "reset"
        PROVE  fds'[j].re.hup
    <3>1. fds[j].re.hup
      BY <1>1, <2>1 DEF ResetsAreSeen
    <3> QED
      BY <1>2, <3>1, Zenon
  <2> QED
    BY <1>1, <1>4, <2>1 DEF ResetsAreSeen
<1> QED
  BY <1>5, <1>6, <1>7, <1>8

\* What removing entry k leaves: one entry less, each of them one that was
\* there and is not k, no two of them the same.
LEMMA DropFacts ==
  ASSUME RoomInv, NEW k \in 1 .. user_count, DropEntry(k)
  PROVE  /\ user_count - 1 \in Nat
         /\ fds' \in Seq(Entries) /\ user_count' = user_count - 1
         /\ pending' \subseteq Fd
         /\ \A j \in 1 .. user_count - 1 :
              LET from == IF j = k THEN user_count ELSE j
              IN  from \in (1 .. user_count) \ {k} /\ fds'[j] = fds[from]
<1>1. /\ fds' = [j \in 1 .. user_count - 1 |-> IF j = k THEN fds[user_count] ELSE fds[j]]
      /\ user_count \in Nat /\ user_count - 1 \in Nat
      /\ user_count \in 1 .. user_count
  BY EntryFacts DEF DropEntry, CopyLast
<1>2. ASSUME NEW j \in 1 .. user_count - 1
      PROVE  LET from == IF j = k THEN user_count ELSE j
             IN  from \in (1 .. user_count) \ {k} /\ fds'[j] = fds[from]
  BY <1>1
<1>3. fds' \in Seq(Entries) /\ Len(fds') = user_count - 1
  <2>1. \A j \in 1 .. user_count - 1 : fds'[j] \in Entries
    BY <1>1, <1>2, EntryFacts
  <2> QED
    BY <1>1, <2>1, EntriesSeq
<1>4. pending' \subseteq Fd
  BY EntryFacts DEF DropEntry, CopyLast, RoomInv, PollTypeOK
<1> QED
  BY <1>1, <1>2, <1>3, <1>4 DEF user_count

\* The entries left keep their clients, whether or not k's descriptor closes.
LEMMA DropEnds ==
  ASSUME RoomInv, NEW k \in 1 .. user_count, DropEntry(k),
         \A f \in Fd : f # fds[k].fd => peer'[f] = peer[f]
  PROVE  /\ \A j \in 1 .. user_count' :
              LET from == IF j = k THEN user_count ELSE j
              IN  /\ from \in (1 .. user_count) \ {k}
                  /\ fds'[j] = fds[from] /\ At(j)' = At(from)
                  /\ At(j)' \in Client /\ At(j)' # At(k)
         /\ \A j, m \in 1 .. user_count' : j # m => fds'[j].fd # fds'[m].fd
<1>1. ASSUME NEW j \in 1 .. user_count'
      PROVE  LET from == IF j = k THEN user_count ELSE j
             IN  /\ from \in (1 .. user_count) \ {k}
                 /\ fds'[j] = fds[from] /\ At(j)' = At(from)
                 /\ At(j)' \in Client /\ At(j)' # At(k)
  <2> DEFINE from == IF j = k THEN user_count ELSE j
  <2>1. from \in (1 .. user_count) \ {k} /\ fds'[j] = fds[from]
    BY DropFacts
  <2>2. fds[from].fd \in Fd /\ fds[from].fd # fds[k].fd
    BY <2>1, EntryFacts DEF RoomInv, Connected
  <2>3. At(from) \in Client /\ At(from) # At(k)
    BY <2>1, EntryFacts
  <2> QED
    BY <2>1, <2>2, <2>3 DEF At
<1>2. ASSUME NEW j \in 1 .. user_count', NEW m \in 1 .. user_count', j # m
      PROVE  fds'[j].fd # fds'[m].fd
  <2> DEFINE a == IF j = k THEN user_count ELSE j
             b == IF m = k THEN user_count ELSE m
  <2>1. /\ a \in 1 .. user_count /\ b \in 1 .. user_count
        /\ fds'[j] = fds[a] /\ fds'[m] = fds[b]
    BY <1>1
  <2>2. a # b
    BY <1>2, DropFacts
  <2> QED
    BY <2>1, <2>2 DEF RoomInv, Connected
<1> QED
  BY <1>1, <1>2

LEMMA DropResets ==
  ASSUME RoomInv, NEW k \in 1 .. user_count, DropEntry(k), Handling(k),
         \A f \in Fd : f # fds[k].fd => peer'[f] = peer[f],
         state' = state, killed' = killed,
         \A c \in Client : c # At(k) => sockerr'[c] = sockerr[c]
  PROVE  ResetsAreSeen'
<1>1. i = k /\ i' = k /\ user_count \in Nat /\ user_count' = user_count - 1
  BY EntryFacts, DropFacts DEF Handling, DropEntry, CopyLast
<1>2. ASSUME NEW j \in 1 .. user_count', j >= i',
             state'[At(j)'] = "rst", sockerr'[At(j)'] # "reset"
      PROVE  fds'[j].re.hup
  <2> DEFINE from == IF j = k THEN user_count ELSE j
  <2>1. /\ from \in (1 .. user_count) \ {k} /\ fds'[j] = fds[from]
        /\ At(j)' = At(from) /\ At(from) \in Client /\ At(from) # At(k)
    BY DropEnds
  <2>2. from >= i
    BY <1>1, <1>2
  <2>3. fds[from].re.hup
    BY <1>2, <2>1, <2>2 DEF RoomInv, ResetsAreSeen
  <2> QED
    BY <2>1, <2>3, Zenon
<1>3. ~killed'
  BY DEF RoomInv, ResetsAreSeen
<1> QED
  BY <1>2, <1>3 DEF ResetsAreSeen

LEMMA HandleHupInv ==
  ASSUME RoomInv, NEW k \in 1 .. user_count, HandleHup(k)
  PROVE  RoomInv'
<1> DEFINE f0 == fds[k].fd
           c == At(k)
<1>1. /\ DropEntry(k) /\ Handling(k) /\ i' = k /\ i = k
      /\ peer' = [peer EXCEPT ![f0] = None] /\ state' = state /\ killed' = killed
      /\ backlog' = backlog /\ failures' = failures
      /\ sockerr' = [sockerr EXCEPT ![c] = "none"]
  BY DEF HandleHup, DropEntry, CopyLast, Handling
<1>2. /\ f0 \in Fd /\ c \in Client /\ peer[f0] = c /\ peer[f0] # None
      /\ peer \in [Fd -> Client \union {None}]
      /\ sockerr \in [Client -> {"none", "reset", "pipe"}]
  BY EntryFacts DEF RoomInv, PollTypeOK, Connected, At
<1>3. /\ \A f \in Fd : f # f0 => peer'[f] = peer[f]
      /\ peer'[f0] = None /\ peer' \in [Fd -> Client \union {None}]
      /\ \A d \in Client : d # c => sockerr'[d] = sockerr[d]
      /\ sockerr' \in [Client -> {"none", "reset", "pipe"}]
  BY <1>1, <1>2
<1>4. /\ user_count \in Nat /\ user_count' = user_count - 1 /\ user_count' \in Nat
      /\ fds' \in Seq(Entries) /\ pending' \subseteq Fd
  BY <1>1, EntryFacts, DropFacts
<1>5. PollTypeOK'
  <2>1. fds' \in Seq([fd : Fd, out : BOOLEAN, re : Revs])
    BY <1>4 DEF Entries
  <2>2. i' \in 0 .. UserLimit + 1 /\ user_count' <= UserLimit
    BY <1>1, <1>4, PollServerAssumption DEF RoomInv, PollTypeOK
  <2>3. listening' = listening /\ sent' = sent
    BY DEF HandleHup
  <2> QED
    BY <1>1, <1>3, <1>4, <2>1, <2>2, <2>3 DEF RoomInv, PollTypeOK
<1>6. Connected'
  <2>1. Cardinality({f \in Fd : peer'[f] # None}) = Cardinality(Open) - 1
    BY <1>1, <1>2, CloseOne
  <2>2. Cardinality(Open) = user_count + failures /\ failures \in Nat
    BY PollServerAssumption DEF RoomInv, Connected, Open, PollTypeOK
  <2>3. Cardinality({f \in Fd : peer'[f] # None}) = user_count' + failures'
    BY <1>1, <1>4, <2>1, <2>2
  <2>4. /\ \A j, m \in 1 .. user_count' : j # m => fds'[j].fd # fds'[m].fd
        /\ \A j \in 1 .. user_count' : At(j)' \in Client
    BY <1>1, <1>3, DropEnds
  <2>5. \A f, g \in Fd : (f # g /\ peer'[f] # None) => peer'[f] # peer'[g]
    BY <1>3 DEF RoomInv, Connected
  <2>6. \A f \in Fd : peer'[f] # None => state'[peer'[f]] # "off"
    BY <1>1, <1>3 DEF RoomInv, Connected
  <2>7. i' <= user_count' + 1
    BY <1>1, <1>4
  <2>8. \A j \in 1 .. user_count' : At(j)' # None
    BY <2>4, PollServerAssumption
  <2> QED
    BY <2>3, <2>4, <2>5, <2>6, <2>7, <2>8 DEF Connected
<1>7. Waiting'
  <2>1. \A m \in 1 .. Len(backlog) :
          backlog[m] \in Client /\ backlog[m] # c /\ backlog[m] # None
    BY EntryFacts, ElementOfSeq, PollServerAssumption DEF RoomInv, PollTypeOK
  <2> QED
    BY <1>1, <1>3, <2>1 DEF RoomInv, Waiting
<1>8. ResetsAreSeen'
  BY <1>1, <1>3, DropResets
<1> QED
  BY <1>5, <1>6, <1>7, <1>8 DEF RoomInv

LEMMA ReadFailsInv ==
  ASSUME RoomInv, NEW k \in 1 .. user_count, ReadFails(k)
  PROVE  RoomInv'
<1>1. /\ DropEntry(k) /\ Handling(k) /\ i' = k /\ i = k
      /\ peer' = peer /\ state' = state /\ killed' = killed /\ sockerr' = sockerr
      /\ backlog' = backlog /\ failures' = failures + 1 /\ failures < MaxFailures
  BY DEF ReadFails, HasInput, DropEntry, CopyLast, Handling, kernelVars
<1>2. /\ user_count \in Nat /\ user_count' = user_count - 1 /\ user_count' \in Nat
      /\ fds' \in Seq(Entries) /\ pending' \subseteq Fd
  BY <1>1, EntryFacts, DropFacts
<1>3. PollTypeOK'
  <2>1. fds' \in Seq([fd : Fd, out : BOOLEAN, re : Revs])
    BY <1>2 DEF Entries
  <2>2. i' \in 0 .. UserLimit + 1 /\ user_count' <= UserLimit
    BY <1>1, <1>2, PollServerAssumption DEF RoomInv, PollTypeOK
  <2>3. listening' = listening /\ sent' = sent
    BY DEF ReadFails, kernelVars
  <2>4. failures' \in 0 .. MaxFailures
    BY <1>1, PollServerAssumption DEF RoomInv, PollTypeOK
  <2> QED
    BY <1>1, <1>2, <2>1, <2>2, <2>3, <2>4 DEF RoomInv, PollTypeOK
<1>4. Connected'
  <2>1. failures \in Nat
    BY PollServerAssumption DEF RoomInv, PollTypeOK
  <2>2. user_count' + failures' = user_count + failures
    BY <1>1, <1>2, <2>1
  <2>3. Cardinality({f \in Fd : peer'[f] # None}) = user_count' + failures'
    BY <1>1, <2>2 DEF RoomInv, Connected
  <2>4. /\ \A j, m \in 1 .. user_count' : j # m => fds'[j].fd # fds'[m].fd
        /\ \A j \in 1 .. user_count' : At(j)' \in Client
    BY <1>1, DropEnds
  <2>5. \A j \in 1 .. user_count' : At(j)' # None
    BY <2>4, PollServerAssumption
  <2>6. i' <= user_count' + 1
    BY <1>1, <1>2
  <2> QED
    BY <1>1, <2>3, <2>4, <2>5, <2>6 DEF RoomInv, Connected
<1>5. Waiting'
  BY <1>1 DEF RoomInv, Waiting
<1>6. ResetsAreSeen'
  BY <1>1, DropResets
<1> QED
  BY <1>3, <1>4, <1>5, <1>6 DEF RoomInv

LEMMA AcceptInv == ASSUME RoomInv, Accept PROVE RoomInv'
<1> DEFINE c == Head(backlog)
<1>0. PICK n \in Nat : n = user_count
  BY EntryFacts
<1>1. PICK f \in Fd :
        /\ peer[f] = None
        /\ peer' = [peer EXCEPT ![f] = c]
        /\ fds' = Append(fds, [fd |-> f, out |-> FALSE, re |-> Quiet])
  BY DEF Accept, TakeConnection, LowestFree
<1>2. /\ i = 0 /\ i' = 1 /\ n < UserLimit /\ backlog' = Tail(backlog)
      /\ state' = state /\ sockerr' = sockerr /\ failures' = failures
      /\ killed' = killed /\ listening' = listening /\ sent' = sent
      /\ pending' = pending /\ backlog # <<>>
  BY <1>0 DEF Accept, TakeConnection, historyVars
<1>3. /\ Len(backlog) \in Nat /\ Len(backlog) >= 1 /\ c = backlog[1] /\ c \in Client
      /\ backlog' \in Seq(Client) /\ Len(backlog') = Len(backlog) - 1
      /\ \A m \in 1 .. Len(backlog') : backlog'[m] = backlog[m + 1]
  BY <1>2 DEF RoomInv, PollTypeOK
<1>4. /\ peer \in [Fd -> Client \union {None}] /\ peer' \in [Fd -> Client \union {None}]
      /\ peer'[f] = c /\ c # None
      /\ \A g \in Fd : g # f => peer'[g] = peer[g]
      /\ \A g \in Fd : peer[g] # c
      /\ state[c] # "off" /\ (state[c] = "rst" => sockerr[c] = "reset")
  BY <1>1, <1>3, PollServerAssumption DEF RoomInv, PollTypeOK, Waiting
<1>5. /\ n \in Nat /\ fds' \in Seq(Entries) /\ user_count' = n + 1
      /\ fds'[n + 1].fd = f
      /\ \A k \in 1 .. n : fds'[k] = fds[k]
  <2>1. [fd |-> f, out |-> FALSE, re |-> Quiet] \in Entries
    BY QuietType DEF Entries
  <2>2. fds \in Seq(Entries)
    BY EntryFacts
  <2> QED
    BY <1>0, <1>1, <2>1, <2>2, AppendProperties DEF user_count
<1>6. ASSUME NEW k \in 1 .. n
      PROVE  /\ fds'[k].fd # f /\ At(k)' = At(k) /\ At(k) \in Client /\ At(k) # None
             /\ fds'[k].fd \in Fd
  <2>1. fds[k].fd \in Fd /\ At(k) \in Client /\ At(k) # None
    BY <1>0, EntryFacts DEF RoomInv, Connected
  <2>2. fds[k].fd # f
    BY <1>1, <2>1 DEF At
  <2> QED
    BY <1>4, <1>5, <2>1, <2>2 DEF At
<1>7. At(n + 1)' = c
  BY <1>4, <1>5 DEF At
<1>8. PollTypeOK'
  <2>1. fds' \in Seq([fd : Fd, out : BOOLEAN, re : Revs])
    BY <1>5 DEF Entries
  <2>2. i' \in 0 .. UserLimit + 1 /\ user_count' <= UserLimit
    BY <1>2, <1>5, PollServerAssumption DEF RoomInv, PollTypeOK
  <2> QED
    BY <1>2, <1>3, <1>4, <2>1, <2>2 DEF RoomInv, PollTypeOK
<1>9. Connected'
  <2>1. \A j, k \in 1 .. n + 1 : j # k => fds'[j].fd # fds'[k].fd
    BY <1>0, <1>5, <1>6 DEF RoomInv, Connected
  <2>2. \A k \in 1 .. n + 1 : At(k)' # None
    BY <1>4, <1>5, <1>6, <1>7
  <2>3. \A g, h \in Fd : (g # h /\ peer'[g] # None) => peer'[g] # peer'[h]
    BY <1>4 DEF RoomInv, Connected
  <2>4. \A g \in Fd : peer'[g] # None => state'[peer'[g]] # "off"
    BY <1>2, <1>4 DEF RoomInv, Connected
  <2>5. Cardinality({g \in Fd : peer'[g] # None}) = Cardinality(Open) + 1
    BY <1>1, <1>4, OpenOne
  <2>6. Cardinality(Open) = n + failures /\ failures \in Nat
    BY <1>0, PollServerAssumption DEF RoomInv, Connected, Open, PollTypeOK
  <2>7. Cardinality({g \in Fd : peer'[g] # None}) = user_count' + failures'
    BY <1>2, <1>5, <2>5, <2>6
  <2>8. i' <= user_count' + 1
    BY <1>2, <1>5
  <2> QED
    BY <1>5, <2>1, <2>2, <2>3, <2>4, <2>7, <2>8 DEF Connected
<1>10. Waiting'
  <2>1. ASSUME NEW m \in 1 .. Len(backlog')
        PROVE  /\ m + 1 \in 1 .. Len(backlog) /\ backlog'[m] = backlog[m + 1]
               /\ backlog'[m] # c
    BY <1>3 DEF RoomInv, Waiting
  <2>2. \A m, k \in 1 .. Len(backlog') : m # k => backlog'[m] # backlog'[k]
    BY <1>3, <2>1 DEF RoomInv, Waiting
  <2>3. ASSUME NEW m \in 1 .. Len(backlog')
        PROVE  /\ state'[backlog'[m]] # "off"
               /\ \A g \in Fd : peer'[g] # backlog'[m]
               /\ state'[backlog'[m]] = "rst" => sockerr'[backlog'[m]] = "reset"
    BY <1>2, <1>4, <2>1 DEF RoomInv, Waiting
  <2> QED
    BY <2>2, <2>3 DEF Waiting
<1>11. ResetsAreSeen'
  <2>1. ASSUME NEW k \in 1 .. n + 1, k >= i',
               state'[At(k)'] = "rst", sockerr'[At(k)'] # "reset"
        PROVE  fds'[k].re.hup
    <3>1. k \in 1 .. n
      BY <1>2, <1>4, <1>5, <1>7, <2>1
    <3>2. fds[k].re.hup
      BY <1>0, <1>2, <1>6, <2>1, <3>1 DEF RoomInv, ResetsAreSeen
    <3> QED
      BY <1>5, <3>1, <3>2, Zenon
  <2> QED
    BY <1>2, <1>5, <2>1 DEF RoomInv, ResetsAreSeen
<1> QED
  BY <1>8, <1>9, <1>10, <1>11 DEF RoomInv

-----------------------------------------------------------------------------
(* The theorems.                                                           *)

LEMMA RoomStepInv == RoomInv /\ [Next]_vars => RoomInv'
<1> SUFFICES ASSUME RoomInv, [Next]_vars PROVE RoomInv'
  OBVIOUS
<1>1. ASSUME NEW c \in Client, Connect(c) \/ Say(c) \/ Leave(c) PROVE RoomInv'
  BY <1>1, ConnectInv, SayInv, LeaveInv
<1>2. CASE Poll \/ Accept \/ Refuse \/ NotListening
  BY <1>2, PollInv, AcceptInv, RefuseInv, NotListeningInv
<1>3. ASSUME NEW k \in 1 .. user_count, Entry(k) PROVE RoomInv'
  BY <1>3, HandleErrInv, HandleHupInv, ReadFailsInv, ForwardInv, HandleOutInv, SkipInv
     DEF Entry
<1>4. CASE UNCHANGED vars
  <2>1. user_count' = user_count /\ \A k \in 1 .. user_count : At(k)' = At(k)
    BY <1>4 DEF vars, user_count, At
  <2>2. PollTypeOK' /\ Waiting'
    BY <1>4 DEF vars, kernelVars, historyVars, RoomInv, PollTypeOK, Waiting, user_count
  <2>3. Connected' /\ ResetsAreSeen'
    BY <1>4, <2>1 DEF vars, kernelVars, historyVars, RoomInv, Connected, ResetsAreSeen
  <2> QED
    BY <2>2, <2>3 DEF RoomInv
<1> QED
  BY <1>1, <1>2, <1>3, <1>4 DEF Next, Server, Clients

\* RoomInv holds in every state of every behaviour.
THEOREM RoomInvariance == Spec => []RoomInv
<1> QED
  BY RoomInitInv, RoomStepInv, PTL DEF Spec

\* The room's entries are its connections: lines 137-142, 159-163 and 173-176
\* of chat/server.c keep array, descriptors and clients one to one.
THEOREM EntriesAreConnections == Spec => [](PollTypeOK /\ RoomIsConnections)
<1>1. RoomInv => PollTypeOK /\ RoomIsConnections
  <2> SUFFICES ASSUME RoomInv PROVE PollTypeOK /\ RoomIsConnections
    OBVIOUS
  <2>1. None \notin Room
    BY DEF RoomInv, Connected, Room
  <2>2. \A j, k \in 1 .. user_count : j # k => fds[j].fd # fds[k].fd /\ At(j) # At(k)
    BY EntryFacts DEF RoomInv, Connected
  <2> QED
    BY <2>1, <2>2 DEF RoomInv, PollTypeOK, RoomIsConnections, Connected
<1> QED
  BY <1>1, RoomInvariance, PTL

\* No write of the server raises SIGPIPE, whatever clients do and whenever
\* they reset their connections.
THEOREM ServerSurvives == Spec => []NeverKilled
<1>1. RoomInv => NeverKilled
  BY DEF RoomInv, ResetsAreSeen, NeverKilled
<1> QED
  BY <1>1, RoomInvariance, PTL
-----------------------------------------------------------------------------
(* What the clients are shown.                                             *)

\* What a line, or what lies in main's frame, is made of.
Cell == (Client \X Nat) \union UNION {Range(t) : t \in StackContent}

TextTypes ==
  /\ tmpbuf \in Seq(Cell)
  /\ unread \in [Client -> Seq(Cell)]
  /\ owed \in [Client -> SUBSET Cell] /\ shown \in [Client -> SUBSET Cell]
  /\ latest.for \subseteq Client

LEMMA TextRange ==
  ASSUME NEW S, NEW s \in Seq(S)
  PROVE  /\ Range(s) \subseteq S
         /\ s # <<>> => Range(s) # {}
<1>1. ASSUME NEW x \in DOMAIN s PROVE s[x] \in S
  <2>1. x \in 1 .. Len(s)
    OBVIOUS
  <2> QED
    BY <2>1, ElementOfSeq
<1>2. Range(s) \subseteq S
  BY <1>1 DEF Range
<1>3. s # <<>> => Range(s) # {}
  <2> SUFFICES ASSUME s # <<>> PROVE s[1] \in Range(s)
    OBVIOUS
  <2>1. 1 \in DOMAIN s
    OBVIOUS
  <2> QED
    BY <2>1 DEF Range
<1> QED
  BY <1>2, <1>3

\* A text copied into tmpbuf is there, whatever else is.
LEMMA OverlayFacts ==
  ASSUME NEW S, NEW text \in Seq(S), NEW old \in Seq(S)
  PROVE  /\ Overlay(text, old) \in Seq(S)
         /\ Range(text) \subseteq Range(Overlay(text, old))
<1> DEFINE rest == SubSeq(old, Len(text) + 1, Len(old))
<1>1. Len(text) \in Nat /\ Len(old) \in Nat
  OBVIOUS
<1>2. \A x \in Len(text) + 1 .. Len(old) : old[x] \in S
  BY <1>1, ElementOfSeq
<1>3. rest \in Seq(S)
  BY <1>1, <1>2, SubSeqProperties
<1> HIDE DEF rest
<1>4. /\ text \o rest \in Seq(S)
      /\ Len(text \o rest) = Len(text) + Len(rest) /\ Len(rest) \in Nat
      /\ \A x \in 1 .. Len(text) : (text \o rest)[x] = text[x]
  BY <1>1, <1>3, ConcatProperties
<1>5. DOMAIN text = 1 .. Len(text) /\ DOMAIN (text \o rest) = 1 .. Len(text) + Len(rest)
  BY <1>4
<1>6. \A x \in DOMAIN text : x \in DOMAIN (text \o rest) /\ (text \o rest)[x] = text[x]
  BY <1>1, <1>4, <1>5
<1>7. Range(text) \subseteq Range(text \o rest)
  BY <1>6 DEF Range
<1> QED
  BY <1>4, <1>7 DEF Overlay, rest

LEMMA TextTypesInit == Init => TextTypes
<1> SUFFICES ASSUME Init PROVE TextTypes
  OBVIOUS
<1>1. tmpbuf \in Seq(Cell)
  <2>1. tmpbuf \in Seq(Range(tmpbuf)) /\ Range(tmpbuf) \subseteq Cell
    BY StackAssumption DEF Init, Cell
  <2>2. Len(tmpbuf) \in Nat /\ \A x \in 1 .. Len(tmpbuf) : tmpbuf[x] \in Cell
    BY <2>1, ElementOfSeq
  <2> QED
    BY <2>1, <2>2
<1>2. <<>> \in Seq(Cell)
  OBVIOUS
<1> QED
  BY <1>1, <1>2 DEF Init, TextTypes

\* The texts of an entry that is dropped go with it.
DropText(k) ==
  /\ owed' = [owed EXCEPT ![At(k)] = {}] /\ shown' = [shown EXCEPT ![At(k)] = {}]
  /\ tmpbuf' = tmpbuf /\ latest' = latest
  /\ unread' = unread \/ unread' = [unread EXCEPT ![At(k)] = <<>>]

LEMMA TextTypesStep ==
  ASSUME RoomInv, TextTypes, [Next]_vars
  PROVE  TextTypes'
<1> USE DEF TextTypes
<1>1. ASSUME NEW c \in Client, Connect(c) \/ Leave(c) PROVE TextTypes'
  BY <1>1 DEF Connect, Leave, historyVars
<1>2. ASSUME NEW c \in Client, Say(c) PROVE TextTypes'
  <2>1. <<c, sent + 1>> \in Cell
    BY PollServerAssumption DEF RoomInv, PollTypeOK, Cell
  <2>2. Append(unread[c], <<c, sent + 1>>) \in Seq(Cell)
    BY <2>1
  <2>3. unread' = [unread EXCEPT ![c] = Append(unread[c], <<c, sent + 1>>)]
    BY <1>2 DEF Say
  <2> QED
    BY <1>2, <2>2, <2>3 DEF Say, historyVars
<1>3. CASE Poll \/ Accept \/ NotListening \/ UNCHANGED vars
  BY <1>3 DEF Poll, Accept, TakeConnection, NotListening, kernelVars, historyVars, vars
<1>4. CASE Refuse
  <2>1. unread' = [unread EXCEPT ![Head(backlog)] = <<>>] /\ <<>> \in Seq(Cell)
    BY <1>4 DEF Refuse
  <2> QED
    BY <1>4, <2>1 DEF Refuse, historyVars
<1>5. ASSUME NEW k \in 1 .. user_count, HandleErr(k) \/ Skip(k) PROVE TextTypes'
  BY <1>5 DEF HandleErr, Skip, kernelVars, historyVars
<1>6. ASSUME NEW k \in 1 .. user_count, HandleHup(k) \/ ReadFails(k) PROVE TextTypes'
  <2>1. DropText(k) /\ <<>> \in Seq(Cell)
    BY <1>6 DEF HandleHup, ReadFails, DropEntry, CopyLast, DropText, kernelVars
  <2> QED
    BY <2>1 DEF DropText
<1>7. ASSUME NEW k \in 1 .. user_count, Forward(k) PROVE TextTypes'
  <2>1. PICK text \in Seq(Cell) : text = unread[At(k)]
    BY EntryFacts
  <2>2. Range(text) \subseteq Cell /\ Overlay(text, tmpbuf) \in Seq(Cell)
    BY TextRange, OverlayFacts
  <2>3. Room \ {At(k)} \subseteq Client /\ <<>> \in Seq(Cell)
    BY EntryFacts DEF Room
  <2>4. /\ unread' = [unread EXCEPT ![At(k)] = <<>>]
        /\ tmpbuf' = Overlay(text, tmpbuf) \/ tmpbuf' = tmpbuf
        /\ owed' = [c \in Client |-> IF c \in Room \ {At(k)} THEN owed[c] \union Range(text)
                                                             ELSE owed[c]]
        /\ latest' = [lines |-> Range(text), for |-> Room \ {At(k)}]
        /\ shown' = shown
    BY <1>7, <2>1, Zenon DEF Forward, ForwardTo
  <2> QED
    BY <2>2, <2>3, <2>4
<1>8. ASSUME NEW k \in 1 .. user_count, HandleOut(k) PROVE TextTypes'
  <2>1. Range(tmpbuf) \subseteq Cell
    BY TextRange
  <2>2. \/ shown' = shown
        \/ shown' = [shown EXCEPT ![At(k)] = shown[At(k)] \union Range(tmpbuf)]
    BY <1>8 DEF HandleOut
  <2>3. shown' \in [Client -> SUBSET Cell]
    BY <2>1, <2>2
  <2> QED
    BY <1>8, <2>3 DEF HandleOut
<1> QED
  BY <1>1, <1>2, <1>3, <1>4, <1>5, <1>6, <1>7, <1>8 DEF Next, Server, Clients, Entry
\* Of one entry: it asks for POLLOUT only if there is a text for it; input in
\* the snapshot and no hangup is input still unread; the latest text is
\* accounted for.
EntryInv(k) ==
  /\ fds[k].re.out => fds[k].out
  /\ fds[k].out => owed[At(k)] # {}
  /\ (k >= i /\ fds[k].re.in /\ ~fds[k].re.hup) => unread[At(k)] # <<>>
  /\ (At(k) \in latest.for /\ state[At(k)] = "on") =>
       latest.lines \subseteq
         shown[At(k)] \union (IF fds[k].fd \in pending THEN Range(tmpbuf) ELSE {})

TextInv ==
  /\ \A k \in 1 .. user_count : EntryInv(k)
  /\ \A c \in Client : shown[c] # {} => owed[c] # {}
  /\ \A c \in latest.for : state[c] # "off"
  /\ \A m \in 1 .. Len(backlog) : backlog[m] \notin latest.for

\* An entry whose record and client stay what they were.
LEMMA EntryStays ==
  ASSUME NEW j, NEW n, NEW c, EntryInv(n), fds'[j] = fds[n], At(n) = c, At(j)' = c,
         owed[c] \subseteq owed'[c], shown[c] \subseteq shown'[c],
         unread[c] # <<>> => unread'[c] # <<>>,
         fds[n].fd \in pending => fds[n].fd \in pending',
         tmpbuf' = tmpbuf, latest' = latest,
         state'[c] = "on" => state[c] = "on",
         j >= i' => n >= i
  PROVE  EntryInv(j)'
<1>1. fds'[j].re.out => fds'[j].out
  BY Zenon DEF EntryInv
<1>2. fds'[j].out => owed'[c] # {}
  <2>1. fds[n].out => owed[c] # {}
    BY Zenon DEF EntryInv
  <2> QED
    BY <2>1, Zenon
<1>3. (j >= i' /\ fds'[j].re.in /\ ~fds'[j].re.hup) => unread'[c] # <<>>
  <2>1. (n >= i /\ fds[n].re.in /\ ~fds[n].re.hup) => unread[c] # <<>>
    BY Zenon DEF EntryInv
  <2> QED
    BY <2>1, Zenon
<1>4. (c \in latest'.for /\ state'[c] = "on") =>
        latest'.lines \subseteq
          shown'[c] \union (IF fds'[j].fd \in pending' THEN Range(tmpbuf') ELSE {})
  <2>1. (c \in latest.for /\ state[c] = "on") =>
          latest.lines \subseteq
            shown[c] \union (IF fds[n].fd \in pending THEN Range(tmpbuf) ELSE {})
    BY Zenon DEF EntryInv
  <2> QED
    BY <2>1
<1> QED
  BY <1>1, <1>2, <1>3, <1>4, Zenon DEF EntryInv

\* A step that leaves every entry and the texts alone.
LEMMA AllStay ==
  ASSUME RoomInv, TextInv, fds' = fds, peer' = peer, i' >= i, i' \in Int, i \in Int,
         pending' = pending, tmpbuf' = tmpbuf, historyVars' = historyVars,
         \A c \in Client : (c \in Room /\ unread[c] # <<>>) => unread'[c] # <<>>,
         \A c \in Client : (c \in Room /\ state'[c] = "on") => state[c] = "on"
  PROVE  \A k \in 1 .. user_count' : EntryInv(k)'
<1> SUFFICES ASSUME NEW k \in 1 .. user_count' PROVE EntryInv(k)'
  OBVIOUS
<1>1. user_count' = user_count /\ k \in 1 .. user_count /\ k \in Int
  BY EntryFacts DEF user_count
<1>2. PICK c \in Client : c = At(k) /\ c \in Room
  BY <1>1, EntryFacts DEF Room
<1>3. At(k)' = c
  BY <1>2 DEF At
<1>4. EntryInv(k)
  BY <1>1 DEF TextInv
<1>5. /\ owed' = owed /\ shown' = shown /\ latest' = latest
      /\ (k >= i' => k >= i) /\ fds'[k] = fds[k]
      /\ (unread[c] # <<>> => unread'[c] # <<>>) /\ (state'[c] = "on" => state[c] = "on")
  BY <1>1, <1>2 DEF historyVars
<1> QED
  BY <1>2, <1>3, <1>4, <1>5, EntryStays
LEMMA ClientsTextInv ==
  ASSUME RoomInv, TextTypes, TextInv, NEW c \in Client, Connect(c) \/ Say(c) \/ Leave(c)
  PROVE  TextInv'
<1>1. /\ fds' = fds /\ peer' = peer /\ i' = i /\ pending' = pending /\ tmpbuf' = tmpbuf
      /\ historyVars' = historyVars /\ i \in Int
      /\ owed' = owed /\ shown' = shown /\ latest' = latest
  BY DEF Connect, Say, Leave, historyVars, RoomInv, PollTypeOK
<1>2. \A d \in Client : unread[d] # <<>> => unread'[d] # <<>>
  <2>1. CASE Say(c)
    <3>1. unread' = [unread EXCEPT ![c] = Append(unread[c], <<c, sent + 1>>)]
      BY <2>1 DEF Say
    <3>2. Append(unread[c], <<c, sent + 1>>) # <<>>
      <4>1. unread[c] \in Seq(Cell) /\ <<c, sent + 1>> \in Cell
        <5>1. unread[c] \in Seq(Cell)
          BY DEF TextTypes
        <5>2. <<c, sent + 1>> \in Client \X Nat
          BY PollServerAssumption DEF RoomInv, PollTypeOK
        <5> QED
          BY <5>1, <5>2 DEF Cell
      <4>2. Len(Append(unread[c], <<c, sent + 1>>)) = Len(unread[c]) + 1
            /\ Len(unread[c]) \in Nat /\ Len(<<>>) = 0
        BY <4>1
      <4> QED
        BY <4>2
    <3> QED
      BY <3>1, <3>2 DEF TextTypes
  <2>2. CASE Connect(c) \/ Leave(c)
    BY <2>2 DEF Connect, Leave
  <2> QED
    BY <2>1, <2>2
<1>3. \A d \in Client : state[d] # "off" => (state'[d] # "off"
                                             /\ (state'[d] = "on" => state[d] = "on"))
  BY DEF Connect, Say, Leave, RoomInv, PollTypeOK
<1>4. \A d \in Room : state[d] # "off"
  BY EntryFacts DEF Room
<1>5. \A k \in 1 .. user_count' : EntryInv(k)'
  <2>1. /\ i' >= i
        /\ \A d \in Client : (d \in Room /\ unread[d] # <<>>) => unread'[d] # <<>>
        /\ \A d \in Client : (d \in Room /\ state'[d] = "on") => state[d] = "on"
    BY <1>1, <1>2, <1>3, <1>4
  <2> QED
    BY <1>1, <2>1, AllStay
<1>6. \A d \in latest'.for : state'[d] # "off"
  BY <1>1, <1>3 DEF TextInv, TextTypes
<1>7. \A m \in 1 .. Len(backlog') : backlog'[m] \notin latest'.for
  <2>1. CASE Connect(c)
    <3>1. c \notin latest.for /\ backlog' = Append(backlog, c) /\ backlog \in Seq(Client)
      BY <2>1 DEF Connect, TextInv, RoomInv, PollTypeOK
    <3> QED
      BY <1>1, <3>1 DEF TextInv
  <2>2. CASE Say(c) \/ Leave(c)
    BY <1>1, <2>2 DEF Say, Leave, TextInv
  <2> QED
    BY <2>1, <2>2
<1>8. \A d \in Client : shown'[d] # {} => owed'[d] # {}
  BY <1>1 DEF TextInv
<1> QED
  BY <1>5, <1>6, <1>7, <1>8 DEF TextInv

\* Steps of the server that leave the entries alone.
LEMMA IdleTextInv ==
  ASSUME RoomInv, TextTypes, TextInv,
         Refuse \/ NotListening \/ UNCHANGED vars
           \/ \E k \in 1 .. user_count : HandleErr(k) \/ Skip(k)
  PROVE  TextInv'
<1>1. /\ fds' = fds /\ peer' = peer /\ pending' = pending /\ tmpbuf' = tmpbuf
      /\ historyVars' = historyVars
      /\ owed' = owed /\ shown' = shown /\ latest' = latest
  BY DEF Refuse, NotListening, HandleErr, Skip, historyVars, vars, kernelVars
<1>2. i \in Int /\ i' \in Int /\ i' >= i
  BY EntryFacts DEF Refuse, NotListening, HandleErr, Skip, Handling, vars, RoomInv, PollTypeOK
<1>3. /\ \A d \in Client : (d \in Room /\ unread[d] # <<>>) => unread'[d] # <<>>
      /\ \A d \in Client : state'[d] = state[d] \/ state'[d] = "refused"
      /\ \A m \in 1 .. Len(backlog') : \E n \in 1 .. Len(backlog) : backlog'[m] = backlog[n]
  <2>1. CASE Refuse
    <3>1. /\ backlog \in Seq(Client) /\ backlog # <<>> /\ backlog' = Tail(backlog)
          /\ unread' = [unread EXCEPT ![Head(backlog)] = <<>>]
          /\ state' = [state EXCEPT ![Head(backlog)] = "refused"]
          /\ Head(backlog) \in Client /\ Head(backlog) = backlog[1]
          /\ 1 \in 1 .. Len(backlog)
      BY <2>1 DEF Refuse, RoomInv, PollTypeOK
    <3>2. Head(backlog) \notin Room
      BY <3>1, EntryFacts DEF Room
    <3>3. \A m \in 1 .. Len(backlog') : m + 1 \in 1 .. Len(backlog)
                                        /\ backlog'[m] = backlog[m + 1]
      BY <3>1
    <3> QED
      BY <3>1, <3>2, <3>3 DEF TextTypes, RoomInv, PollTypeOK
  <2>2. CASE ~Refuse
    <3>1. unread' = unread /\ state' = state /\ backlog' = backlog
      BY <2>2 DEF NotListening, HandleErr, Skip, vars, kernelVars
    <3> QED
      BY <3>1
  <2> QED
    BY <2>1, <2>2
<1>4. \A k \in 1 .. user_count' : EntryInv(k)'
  <2>1. \A d \in Client : (d \in Room /\ state'[d] = "on") => state[d] = "on"
    BY <1>3
  <2> QED
    BY <1>1, <1>2, <1>3, <2>1, AllStay
<1>5. \A d \in latest'.for : state'[d] # "off"
  BY <1>1, <1>3 DEF TextInv, TextTypes
<1>6. \A m \in 1 .. Len(backlog') : backlog'[m] \notin latest'.for
  BY <1>1, <1>3 DEF TextInv
<1>7. \A d \in Client : shown'[d] # {} => owed'[d] # {}
  BY <1>1 DEF TextInv
<1> QED
  BY <1>4, <1>5, <1>6, <1>7 DEF TextInv

LEMMA PollTextInv == ASSUME RoomInv, TextTypes, TextInv, Poll PROVE TextInv'
<1>1. /\ peer' = peer /\ pending' = pending /\ tmpbuf' = tmpbuf
      /\ owed' = owed /\ shown' = shown /\ latest' = latest
      /\ unread' = unread /\ state' = state /\ backlog' = backlog
      /\ fds' = [k \in 1 .. user_count |-> [fds[k] EXCEPT !.re = Revents(k)]]
  BY DEF Poll, kernelVars, historyVars
<1>2. ASSUME NEW k \in 1 .. user_count
      PROVE  /\ fds'[k] \in Entries /\ fds'[k].fd = fds[k].fd /\ fds'[k].out = fds[k].out
             /\ fds'[k].re = Revents(k)
  <2>1. Revents(k) \in Revs /\ fds[k] \in Entries
    BY EntryFacts DEF Revents, Revs, Gone, Entries
  <2> QED
    BY <1>1, <2>1 DEF Entries
<1>3. user_count' = user_count
  BY <1>1, <1>2, EntriesSeq, EntryFacts DEF user_count
<1>4. ASSUME NEW k \in 1 .. user_count PROVE EntryInv(k)'
  <2>1. At(k)' = At(k) /\ EntryInv(k)
    BY <1>1, <1>2 DEF At, TextInv
  <2>2. fds'[k].re.out => fds'[k].out
    <3>1. Revents(k).out = fds[k].out
      BY DEF Revents
    <3> QED
      BY <1>2, <3>1, Zenon
  <2>3. fds'[k].out => owed'[At(k)'] # {}
    BY <1>1, <1>2, <2>1, Zenon DEF EntryInv
  <2>4. (fds'[k].re.in /\ ~fds'[k].re.hup) => unread'[At(k)'] # <<>>
    <3>1. /\ Revents(k).in = (unread[At(k)] # <<>> \/ Gone(At(k)))
          /\ Revents(k).hup = Gone(At(k))
      BY DEF Revents
    <3> QED
      BY <1>1, <1>2, <2>1, <3>1, Zenon
  <2>5. (At(k)' \in latest'.for /\ state'[At(k)'] = "on") =>
          latest'.lines \subseteq
            shown'[At(k)'] \union (IF fds'[k].fd \in pending' THEN Range(tmpbuf') ELSE {})
    BY <1>1, <1>2, <2>1 DEF EntryInv
  <2> QED
    BY <2>2, <2>3, <2>4, <2>5, Zenon DEF EntryInv
<1> QED
  BY <1>1, <1>3, <1>4 DEF TextInv

\* The new entry asks for nothing yet and nothing is known of its input.
LEMMA AcceptTextInv == ASSUME RoomInv, TextTypes, TextInv, Accept PROVE TextInv'
<1> DEFINE c == Head(backlog)
<1>0. PICK n \in Nat : n = user_count
  BY EntryFacts
<1>1. PICK f \in Fd :
        /\ peer[f] = None
        /\ peer' = [peer EXCEPT ![f] = c]
        /\ fds' = Append(fds, [fd |-> f, out |-> FALSE, re |-> Quiet])
  BY DEF Accept, TakeConnection, LowestFree
<1>2. /\ i = 0 /\ i' = 1 /\ backlog' = Tail(backlog) /\ backlog # <<>>
      /\ pending' = pending /\ tmpbuf' = tmpbuf /\ state' = state /\ unread' = unread
      /\ owed' = owed /\ shown' = shown /\ latest' = latest
  BY DEF Accept, TakeConnection, historyVars
<1>3. /\ c \in Client /\ c \notin latest.for
      /\ \A m \in 1 .. Len(backlog') : backlog'[m] \notin latest.for
  <2>1. /\ backlog \in Seq(Client) /\ Head(backlog) = backlog[1] /\ 1 \in 1 .. Len(backlog)
        /\ \A m \in 1 .. Len(backlog') :
             m + 1 \in 1 .. Len(backlog) /\ backlog'[m] = backlog[m + 1]
    BY <1>2 DEF RoomInv, PollTypeOK
  <2> QED
    BY <2>1, ElementOfSeq DEF TextInv
<1>4. /\ user_count' = n + 1 /\ fds'[n + 1] = [fd |-> f, out |-> FALSE, re |-> Quiet]
      /\ \A k \in 1 .. n : fds'[k] = fds[k]
  <2>1. [fd |-> f, out |-> FALSE, re |-> Quiet] \in Entries /\ fds \in Seq(Entries)
    BY QuietType, EntryFacts DEF Entries
  <2> QED
    BY <1>0, <1>1, <2>1, AppendProperties DEF user_count
<1>5. ASSUME NEW k \in 1 .. n PROVE EntryInv(k)'
  <2>1. PICK d \in Client : d = At(k)
    BY <1>0, EntryFacts
  <2>2. At(k)' = d /\ EntryInv(k)
    <3>1. fds[k].fd \in Fd /\ fds[k].fd # f
      BY <1>0, <1>1, <2>1, EntryFacts, PollServerAssumption DEF At
    <3> QED
      BY <1>0, <1>1, <1>4, <2>1, <3>1 DEF At, RoomInv, PollTypeOK, TextInv
  <2>3. k >= i' => k >= i
    BY <1>2
  <2> QED
    BY <1>2, <1>4, <2>1, <2>2, <2>3, EntryStays
<1>6. EntryInv(n + 1)'
  <2>1. At(n + 1)' = c
    <3>1. peer \in [Fd -> Client \union {None}]
      BY DEF RoomInv, PollTypeOK
    <3>2. peer'[f] = c
      BY <1>1, <3>1
    <3>3. fds'[n + 1].fd = f
      BY <1>4
    <3> QED
      BY <3>2, <3>3 DEF At
  <2>2. /\ ~fds'[n + 1].out /\ ~fds'[n + 1].re.in /\ ~fds'[n + 1].re.out
    <3>1. fds'[n + 1].out = FALSE /\ fds'[n + 1].re = Quiet
      BY <1>4
    <3>2. Quiet.in = FALSE /\ Quiet.out = FALSE
      BY DEF Quiet
    <3> QED
      BY <3>1, <3>2, Zenon
  <2>3. At(n + 1)' \notin latest'.for
    BY <1>2, <1>3, <2>1
  <2> QED
    BY <2>2, <2>3, Zenon DEF EntryInv
<1>7. \A k \in 1 .. user_count' : EntryInv(k)'
  <2> SUFFICES ASSUME NEW k \in 1 .. n + 1 PROVE EntryInv(k)'
    BY <1>4
  <2>1. k \in 1 .. n \/ k = n + 1
    OBVIOUS
  <2> QED
    BY <1>5, <1>6, <2>1
<1> QED
  BY <1>2, <1>3, <1>7 DEF TextInv

LEMMA DropTextInv ==
  ASSUME RoomInv, TextTypes, TextInv,
         NEW k \in 1 .. user_count, HandleHup(k) \/ ReadFails(k)
  PROVE  TextInv'
<1>1. /\ DropEntry(k) /\ i = k /\ i' = k /\ state' = state /\ backlog' = backlog
      /\ DropText(k)
      /\ pending' = IF fds[user_count].fd \in pending
                    THEN pending \union {fds[k].fd} ELSE pending \ {fds[k].fd}
  BY DEF HandleHup, ReadFails, HasInput, Handling, DropEntry, CopyLast, DropText, kernelVars
<1>2. PICK c \in Client : c = At(k)
  BY EntryFacts
<1>3. /\ \A d \in Client : d # c => owed'[d] = owed[d] /\ shown'[d] = shown[d]
                                    /\ unread'[d] = unread[d]
      /\ owed'[c] = {} /\ shown'[c] = {} /\ tmpbuf' = tmpbuf /\ latest' = latest
  BY <1>1, <1>2 DEF DropText, TextTypes
<1>4. \A f \in Fd : f # fds[k].fd => peer'[f] = peer[f]
  <2>1. peer' = peer \/ peer' = [peer EXCEPT ![fds[k].fd] = None]
    BY DEF HandleHup, ReadFails, kernelVars
  <2> QED
    BY <2>1 DEF RoomInv, PollTypeOK
<1>5. ASSUME NEW j \in 1 .. user_count' PROVE EntryInv(j)'
  <2>1. PICK m \in 1 .. user_count :
          /\ m = IF j = k THEN user_count ELSE j
          /\ m # k /\ fds'[j] = fds[m] /\ At(j)' = At(m) /\ At(m) # At(k)
    <3>1. LET from == IF j = k THEN user_count ELSE j
          IN  /\ from \in (1 .. user_count) \ {k}
              /\ fds'[j] = fds[from] /\ At(j)' = At(from) /\ At(j)' # At(k)
      BY <1>1, <1>4, DropEnds
    <3> QED
      BY <3>1
  <2>2. PICK d \in Client : d = At(m)
    BY EntryFacts
  <2>3. fds[m].fd # fds[k].fd /\ EntryInv(m)
    BY <2>1 DEF RoomInv, Connected, TextInv
  <2>4. fds[m].fd \in pending => fds[m].fd \in pending'
    BY <1>1, <2>3
  <2>5. j >= i' => m >= i
    BY <1>1, <2>1, EntryFacts
  <2>6. d # c
    BY <1>2, <2>1, <2>2
  <2> QED
    BY <1>1, <1>3, <2>1, <2>2, <2>3, <2>4, <2>5, <2>6, EntryStays
<1>6. \A d \in Client : shown'[d] # {} => owed'[d] # {}
  BY <1>3 DEF TextInv
<1> QED
  BY <1>1, <1>3, <1>5, <1>6 DEF TextInv

\* The snapshot of entry k has input, so there is a text, and everybody else
\* asks for POLLOUT from now on.
LEMMA ForwardTextInv ==
  ASSUME RoomInv, TextTypes, TextInv, NEW k \in 1 .. user_count, Forward(k)
  PROVE  TextInv'
<1>0. PICK c \in Client : c = At(k)
  BY EntryFacts
<1>1. PICK text \in Seq(Cell) : text = unread[c]
  BY DEF TextTypes
<1> DEFINE others == Room \ {c}
           to == (1 .. user_count) \ {k}
<1>2. /\ HasInput(k) /\ i = k /\ i' = k + 1
      /\ peer' = peer /\ backlog' = backlog /\ state' = state /\ shown' = shown
      /\ unread' = [unread EXCEPT ![c] = <<>>]
      /\ tmpbuf' = (IF to # {} THEN Overlay(text, tmpbuf) ELSE tmpbuf)
      /\ pending' = pending \union {fds[j].fd : j \in to}
      /\ owed' = [d \in Client |-> IF d \in others THEN owed[d] \union Range(text)
                                                   ELSE owed[d]]
      /\ latest' = [lines |-> Range(text), for |-> others]
      /\ fds' = [j \in 1 .. user_count |->
                   [fds[j] EXCEPT !.out = @ \/ (TRUE /\ j \in to)]]
  BY <1>0, <1>1 DEF Forward, ForwardTo, HasInput, Handling
<1>3. Range(text) # {}
  <2>1. k >= i
    BY <1>2, EntryFacts
  <2>2. unread[At(k)] # <<>>
    <3>1. fds[k].re.in /\ ~fds[k].re.hup
      BY <1>2 DEF HasInput
    <3> QED
      BY <2>1, <3>1, Zenon DEF TextInv, EntryInv
  <2> QED
    BY <1>0, <1>1, <2>2, TextRange
<1>4. ASSUME NEW j \in 1 .. user_count
      PROVE  /\ fds'[j] \in Entries /\ fds'[j].fd = fds[j].fd /\ fds'[j].re = fds[j].re
             /\ fds'[j].out = (fds[j].out \/ j \in to)
             /\ At(j)' = At(j)
  <2>1. fds'[j] = [fds[j] EXCEPT !.out = fds[j].out \/ (TRUE /\ j \in to)]
    BY <1>2
  <2>2. fds[j] \in Entries
    BY EntryFacts
  <2>3. (fds[j].out \/ j \in to) \in BOOLEAN
    BY Zenon
  <2>4. fds'[j] \in Entries /\ fds'[j].fd = fds[j].fd /\ fds'[j].re = fds[j].re
    BY <2>1, <2>2 DEF Entries
  <2>5. fds'[j].out = (fds[j].out \/ j \in to)
    BY <2>1, <2>2 DEF Entries
  <2> QED
    BY <1>2, <2>4, <2>5 DEF At
<1>5. user_count' = user_count
  BY <1>2, <1>4, EntriesSeq, EntryFacts DEF user_count
<1>6. \A j \in to : At(j) \in others /\ At(j) \in Client
  BY <1>0, EntryFacts DEF Room
<1>7. \A d \in Client : (owed[d] # {} => owed'[d] # {}) /\ (d \in others => owed'[d] # {})
  BY <1>2, <1>3
<1>8. ASSUME NEW j \in 1 .. user_count PROVE EntryInv(j)'
  <2>1. PICK d \in Client : d = At(j)
    BY EntryFacts
  <2>2. /\ fds[j].re.out => fds[j].out
        /\ fds[j].out => owed[d] # {}
        /\ (j >= i /\ fds[j].re.in /\ ~fds[j].re.hup) => unread[d] # <<>>
    BY <2>1, Zenon DEF TextInv, EntryInv
  <2>3. fds'[j].re.out => fds'[j].out
    BY <1>4, <2>2, Zenon
  <2>4. fds'[j].out => owed'[d] # {}
    BY <1>4, <1>6, <1>7, <2>1, <2>2, Zenon
  <2>5. (j >= i' /\ fds'[j].re.in /\ ~fds'[j].re.hup) => unread'[d] # <<>>
    <3>1. j >= i' => (j >= i /\ d # c)
      BY <1>0, <1>2, <2>1, EntryFacts
    <3>2. d # c => unread'[d] = unread[d]
      BY <1>2 DEF TextTypes
    <3> QED
      BY <1>4, <2>2, <3>1, <3>2, Zenon
  <2>6. ASSUME d \in others
        PROVE  fds[j].fd \in pending' /\ Range(text) \subseteq Range(tmpbuf')
    <3>1. j \in to
      BY <1>0, <2>1, <2>6
    <3>2. Range(text) \subseteq Range(Overlay(text, tmpbuf))
      BY OverlayFacts DEF TextTypes
    <3> QED
      BY <1>2, <3>1, <3>2
  <2>7. (d \in latest'.for /\ state'[d] = "on") =>
          latest'.lines \subseteq
            shown'[d] \union (IF fds'[j].fd \in pending' THEN Range(tmpbuf') ELSE {})
    <3>1. latest'.for = others /\ latest'.lines = Range(text)
      BY <1>2
    <3> QED
      BY <1>4, <2>6, <3>1
  <2> QED
    BY <1>4, <2>1, <2>3, <2>4, <2>5, <2>7, Zenon DEF EntryInv
<1>9. /\ \A d \in latest'.for : state'[d] # "off"
      /\ \A m \in 1 .. Len(backlog') : backlog'[m] \notin latest'.for
  <2>1. latest'.for \subseteq Room
    BY <1>2
  <2>2. \A d \in Room : state[d] # "off" /\ \A m \in 1 .. Len(backlog) : backlog[m] # d
    BY EntryFacts DEF Room
  <2> QED
    BY <1>2, <2>1, <2>2
<1>10. \A d \in Client : shown'[d] # {} => owed'[d] # {}
  BY <1>2, <1>7 DEF TextInv
<1> QED
  BY <1>5, <1>8, <1>9, <1>10 DEF TextInv

\* What is written is owed: the entry asks for POLLOUT.
LEMMA OutTextInv ==
  ASSUME RoomInv, TextTypes, TextInv, NEW k \in 1 .. user_count, HandleOut(k)
  PROVE  TextInv'
<1>0. PICK c \in Client : c = At(k)
  BY EntryFacts
<1>1. /\ WritesOut(k) /\ i = k /\ i' = k + 1 /\ peer' = peer /\ backlog' = backlog
      /\ unread' = unread /\ tmpbuf' = tmpbuf /\ owed' = owed /\ latest' = latest
      /\ pending' = pending \ {fds[k].fd}
      /\ fds' = [fds EXCEPT ![k].out = TRUE]
  BY DEF HandleOut, WritesOut, Handling
<1>2. \/ shown' = shown /\ state[c] # "on" /\ (state' = state \/ state' = [state EXCEPT ![c] = "rst"])
      \/ shown' = [shown EXCEPT ![c] = shown[c] \union Range(tmpbuf)] /\ state' = state
  BY <1>0 DEF HandleOut
<1>3. /\ \A d \in Client : shown[d] \subseteq shown'[d] /\ (d # c => shown'[d] = shown[d])
      /\ \A d \in Client : state[d] # "off" => state'[d] # "off"
      /\ \A d \in Client : state'[d] = "on" => state[d] = "on"
      /\ state'[c] = "on" => shown'[c] = shown[c] \union Range(tmpbuf)
  BY <1>2 DEF TextTypes, RoomInv, PollTypeOK
<1>4. /\ Len(fds') = Len(fds)
      /\ \A j \in 1 .. user_count : j # k => fds'[j] = fds[j]
      /\ fds'[k] = [fds[k] EXCEPT !.out = TRUE]
  <2>1. fds \in [1 .. user_count -> Entries]
    BY EntryFacts DEF user_count
  <2>2. /\ \A j \in 1 .. user_count : j # k => fds'[j] = fds[j]
        /\ fds'[k] = [fds[k] EXCEPT !.out = TRUE]
    BY <1>1, <2>1
  <2>3. fds \in Seq(Entries) /\ [fds[k] EXCEPT !.out = TRUE] \in Entries
    BY EntryFacts DEF Entries
  <2>4. Len(fds') = Len(fds)
    BY <1>1, <2>3 DEF user_count
  <2> QED
    BY <2>2, <2>4
<1>5. /\ fds'[k].fd = fds[k].fd /\ fds'[k].re = fds[k].re
      /\ user_count' = user_count /\ \A j \in 1 .. user_count : At(j)' = At(j)
  <2>1. fds[k] \in Entries
    BY EntryFacts
  <2>2. fds'[k].fd = fds[k].fd /\ fds'[k].re = fds[k].re
    BY <1>4, <2>1 DEF Entries
  <2> QED
    BY <1>1, <1>4, <2>2 DEF user_count, At
<1>6. owed[c] # {}
  <2>1. fds[k].re.out
    BY <1>1 DEF WritesOut
  <2> QED
    BY <1>0, <2>1, Zenon DEF TextInv, EntryInv
<1>7. ASSUME NEW j \in 1 .. user_count, j # k PROVE EntryInv(j)'
  <2>1. PICK d \in Client : d = At(j) /\ d # c
    BY <1>0, <1>7, EntryFacts
  <2>2. fds[j].fd \in pending => fds[j].fd \in pending'
    BY <1>1, <1>7 DEF RoomInv, Connected
  <2>3. j >= i' => j >= i
    BY <1>1, EntryFacts
  <2>4. EntryInv(j) /\ At(j)' = d /\ fds'[j] = fds[j]
    BY <1>4, <1>5, <1>7, <2>1 DEF TextInv
  <2> QED
    BY <1>1, <1>3, <2>1, <2>2, <2>3, <2>4, EntryStays
<1>8. EntryInv(k)'
  <2>1. fds'[k].re.out => fds'[k].out
    <3>1. fds'[k].out = TRUE
      BY <1>4, EntryFacts DEF Entries
    <3> QED
      BY <3>1, Zenon
  <2>2. fds'[k].out => owed'[c] # {}
    BY <1>1, <1>6
  <2>3. ~(k >= i')
    BY <1>1, EntryFacts
  <2>4. (c \in latest'.for /\ state'[c] = "on") =>
          latest'.lines \subseteq
            shown'[c] \union (IF fds'[k].fd \in pending' THEN Range(tmpbuf') ELSE {})
    <3>1. (c \in latest.for /\ state[c] = "on") =>
            latest.lines \subseteq
              shown[c] \union (IF fds[k].fd \in pending THEN Range(tmpbuf) ELSE {})
      BY <1>0 DEF TextInv, EntryInv
    <3> QED
      BY <1>1, <1>3, <3>1
  <2> QED
    BY <1>0, <1>5, <2>1, <2>2, <2>3, <2>4, Zenon DEF EntryInv
<1>9. \A d \in Client : shown'[d] # {} => owed'[d] # {}
  BY <1>1, <1>3, <1>6 DEF TextInv
<1> QED
  BY <1>1, <1>3, <1>5, <1>7, <1>8, <1>9 DEF TextInv, TextTypes

LEMMA TextStepInv == RoomInv /\ TextTypes /\ TextInv /\ [Next]_vars => TextInv'
<1> SUFFICES ASSUME RoomInv, TextTypes, TextInv, [Next]_vars PROVE TextInv'
  OBVIOUS
<1>1. ASSUME NEW k \in 1 .. user_count, Entry(k) PROVE TextInv'
  BY <1>1, IdleTextInv, DropTextInv, ForwardTextInv, OutTextInv DEF Entry
<1> QED
  BY <1>1, ClientsTextInv, IdleTextInv, PollTextInv, AcceptTextInv DEF Next, Server, Clients

LEMMA TextInvInit == Init => TextInv
<1> SUFFICES ASSUME Init PROVE TextInv
  OBVIOUS
<1>1. user_count = 0 /\ Len(backlog) = 0
  BY DEF Init, user_count
<1> QED
  BY <1>1 DEF Init, TextInv

\* TextInv holds in every state of every behaviour.
THEOREM TextInvariance == Spec => [](RoomInv /\ TextTypes /\ TextInv)
<1>1. RoomInv /\ TextTypes /\ [Next]_vars => TextTypes'
  BY TextTypesStep
<1> QED
  BY <1>1, RoomInitInv, RoomStepInv, TextTypesInit, TextInvInit, TextStepInv, PTL DEF Spec

\* However many clients there are, the last text the server read has reached,
\* or is about to reach, everyone it is for (server.c:182-207 and 210-218).
THEOREM LatestIsNotLost == Spec => []LatestReachesAll
<1>1. TextInv => LatestReachesAll
  BY DEF TextInv, EntryInv, LatestReachesAll
<1> QED
  BY <1>1, TextInvariance, PTL

\* Nobody is written to before somebody else has spoken in its presence, although
\* users[fd] and fds[k] are used again (server.c:137-142, 159-163 and 173-176).
THEOREM NobodySeesThePast == Spec => []NothingStale
<1>1. RoomInv /\ TextInv => NothingStale
  <2> SUFFICES ASSUME RoomInv, TextInv PROVE NothingStale
    OBVIOUS
  <2>1. Room \subseteq Client
    BY EntryFacts DEF Room
  <2> QED
    BY <2>1 DEF TextInv, NothingStale
<1> QED
  BY <1>1, TextInvariance, PTL
=============================================================================
