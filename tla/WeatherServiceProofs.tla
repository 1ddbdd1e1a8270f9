------------------------ MODULE WeatherServiceProofs ------------------------
(* Proofs about WeatherService, for any number of registrations, pushes,   *)
(* users, days and crawls.  Four invariants, each proved on top of the     *)
(* ones before it: types, forecasts, user numbers, and what a push knows.  *)
EXTENDS WeatherService, TLAPS

\* A crawl under way has a number, and has written the dates it has counted.
CrawlInv ==
  crawler = "dates" =>
    /\ crawls \in 1 .. MaxCrawls
    /\ \A n \in 0 .. next - 1 : date[n] # None

\* Number n has an address, or somebody to blame for having none.
Owned(n) ==
  user[n] = None =>
    \E r \in Registrant : count[r] = n /\ reg[r] \in {"storing", "dead"}

\* HolesHaveOwners, also of the numbers a process that is about to write
\* UserCount has read: they may be fewer or more than UserCount by then.
NumbersInv ==
  /\ UserCount # None => \A n \in 0 .. UserCount - 1 : Owned(n)
  /\ \A r \in Registrant : reg[r] = "counting" => \A n \in 0 .. count[r] - 1 : Owned(n)
  /\ \A r \in Registrant : reg[r] \in {"counting", "storing", "checking", "done"} => UserCount # None

Stored(r) == reg[r] \in {"checking", "done"}

\* Registrations that do not overlap get numbers of their own.
SerialInv ==
  ~overlap =>
    /\ \A r, s \in Busy : r = s
    /\ \A r \in Registrant : Stored(r) => count[r] < UserCount /\ user[count[r]] = r
    /\ \A r \in Registrant : reg[r] = "counting" => UserCount = count[r]
    /\ \A r \in Registrant : reg[r] = "storing" =>
         /\ UserCount = count[r] + 1
         /\ \A s \in Registrant : Stored(s) => count[s] < count[r]

\* What a push has to have read of those it owes a mail.
PushInv ==
  ~overlap =>
    \A p \in Pusher :
      /\ \A r \in due[p] : reg[r] = "done"
      /\ push[p] \in {"start", "counting"} => due[p] = {}
      /\ push[p] # "done" => mail[p] = NoMail
      /\ push[p] = "users" => \A r \in due[p] :
           /\ count[r] < users[p]
           /\ count[r] < index[p] => r \in to_list[p]
      /\ push[p] = "dates" => due[p] \subseteq to_list[p]
      /\ mail[p] # NoMail => due[p] \subseteq mail[p].to

-----------------------------------------------------------------------------
LEMMA TypeInit == Init => WeatherTypeOK /\ CrawlInv
  <1> SUFFICES ASSUME Init PROVE WeatherTypeOK /\ CrawlInv
    OBVIOUS
  <1>1. 0 \in Slot
    BY WeatherAssumption DEF Slot
  <1>2. mail \in [Pusher -> [to : SUBSET (Registrant \union {None}), text : Seq(1 .. MaxCrawls)]]
    BY DEF Init, NoMail
  <1>3. day \in [Pusher -> Seq(1 .. MaxCrawls)]
    BY DEF Init
  <1> QED
    BY <1>1, <1>2, <1>3, WeatherAssumption DEF Init, WeatherTypeOK, CrawlInv

\* A step of a registration keeps the part of the type that speaks of it.
LEMMA TypeRegister ==
  ASSUME WeatherTypeOK, CrawlInv, NEW r \in Registrant, Register(r)
  PROVE  WeatherTypeOK' /\ CrawlInv'
  <1>1. UNCHANGED <<crawlVars, pushVars>>
    BY DEF Register, GetCount, SetCount, SetUser, GetUser0, RegisterDies
  <1>2. /\ UserCount' \in 0 .. MaxUsers \union {None}
        /\ user' \in [Slot -> Registrant \union {None}]
        /\ reg' \in [Registrant -> {"start", "counting", "storing", "checking", "done", "dead"}]
        /\ count' \in [Registrant -> Slot]
        /\ overlap' \in BOOLEAN
    <2>1. CASE GetCount(r)
      <3>1. UserCount # None => UserCount \in Nat
        BY DEF WeatherTypeOK
      <3>2. overlap' \in BOOLEAN
        BY <2>1, Zenon DEF GetCount, WeatherTypeOK
      <3>3. UserCount' = UserCount /\ user' = user
        BY <2>1 DEF GetCount
      <3>4. count' \in [Registrant -> Slot]
        <4>1. CASE UserCount = None
          BY <2>1, <4>1 DEF GetCount, WeatherTypeOK
        <4>2. CASE UserCount # None
          <5>1. UserCount \in Slot
            BY <2>1, <3>1, <4>2, WeatherAssumption DEF GetCount, Slot
          <5> QED
            BY <2>1, <4>2, <5>1 DEF GetCount, WeatherTypeOK
        <4> QED
          BY <4>1, <4>2
      <3>5. reg' \in [Registrant -> {"start", "counting", "storing", "checking", "done", "dead"}]
        BY <2>1 DEF GetCount, WeatherTypeOK
      <3> QED
        BY <3>2, <3>3, <3>4, <3>5 DEF WeatherTypeOK
    <2>2. CASE SetCount(r)
      <3>1. count[r] \in Slot
        BY DEF WeatherTypeOK
      <3>2. count[r] + 1 \in 0 .. MaxUsers
        BY <3>1, WeatherAssumption DEF Slot
      <3> QED
        BY <2>2, <3>2 DEF SetCount, WeatherTypeOK, regVars
    <2>3. CASE SetUser(r)
      BY <2>3 DEF SetUser, WeatherTypeOK
    <2>4. CASE GetUser0(r)
      BY <2>4 DEF GetUser0, WeatherTypeOK
    <2>5. CASE RegisterDies(r)
      BY <2>5 DEF RegisterDies, WeatherTypeOK
    <2> QED
      BY <2>1, <2>2, <2>3, <2>4, <2>5 DEF Register
  <1> QED
    BY <1>1, <1>2 DEF WeatherTypeOK, CrawlInv, crawlVars, pushVars

\* The part of WeatherTypeOK that speaks of the crawler.
CrawlTyped ==
  /\ days \in 0 .. MaxDays \union {None}
  /\ date \in [Day -> 1 .. MaxCrawls \union {None}]
  /\ crawler \in {"idle", "dates"} /\ crawls \in 0 .. MaxCrawls
  /\ total \in 0 .. MaxDays /\ next \in 0 .. total

LEMMA TypeCrawler ==
  ASSUME WeatherTypeOK, CrawlInv, Crawler
  PROVE  WeatherTypeOK' /\ CrawlInv'
  <1>1. UNCHANGED <<regVars, pushVars>>
    BY DEF Crawler, Crawl, SetDate, SetDays, CrawlDies
  <1>2. CrawlTyped' /\ CrawlInv'
    <2>1. ASSUME NEW n \in 0 .. MaxDays, Crawl(n)
          PROVE  CrawlTyped' /\ CrawlInv'
      BY <2>1, WeatherAssumption DEF Crawl, WeatherTypeOK, CrawlInv, CrawlTyped
    <2>2. CASE SetDate
      <3>0. crawls \in 1 .. MaxCrawls /\ next \in Day /\ next < total
        BY <2>2, WeatherAssumption DEF SetDate, WeatherTypeOK, CrawlInv, Day
      <3>1. CrawlTyped'
        BY <2>2, <3>0, WeatherAssumption DEF SetDate, WeatherTypeOK, CrawlTyped
      <3>2. \A n \in 0 .. next - 1 : date'[n] # None
        BY <2>2, <3>0, WeatherAssumption DEF SetDate, WeatherTypeOK, CrawlInv, Day
      <3>3. date'[next] # None
        BY <2>2, <3>0, WeatherAssumption DEF SetDate, WeatherTypeOK
      <3>4. next \in Nat /\ next' = next + 1
        BY <2>2, WeatherAssumption DEF SetDate, WeatherTypeOK
      <3>5. CrawlInv'
        <4>1. \A n \in 0 .. next' - 1 : n = next \/ n \in 0 .. next - 1
          BY <3>4
        <4> QED
          BY <2>2, <3>0, <3>2, <3>3, <4>1 DEF CrawlInv, SetDate
      <3> QED
        BY <3>1, <3>5
    <2>3. CASE SetDays
      BY <2>3, WeatherAssumption DEF SetDays, WeatherTypeOK, CrawlInv, CrawlTyped
    <2>4. CASE CrawlDies
      BY <2>4, WeatherAssumption DEF CrawlDies, WeatherTypeOK, CrawlInv, CrawlTyped
    <2> QED
      BY <2>1, <2>2, <2>3, <2>4 DEF Crawler
  <1> QED
    BY <1>1, <1>2 DEF WeatherTypeOK, CrawlTyped, regVars, pushVars

\* The part of WeatherTypeOK that speaks of the pushes.
PushTyped ==
  /\ push \in [Pusher -> {"start", "counting", "users", "dates", "done", "dead"}]
  /\ users \in [Pusher -> 0 .. MaxUsers]
  /\ dayCount \in [Pusher -> 0 .. MaxDays]
  /\ index \in [Pusher -> Nat]
  /\ to_list \in [Pusher -> SUBSET (Registrant \union {None})]
  /\ due \in [Pusher -> SUBSET Registrant]
  /\ day \in [Pusher -> Seq(1 .. MaxCrawls)]
  /\ mail \in [Pusher -> [to : SUBSET (Registrant \union {None}), text : Seq(1 .. MaxCrawls)]]
  /\ \A p \in Pusher : push[p] \in {"start", "counting"} => index[p] = 0
  /\ \A p \in Pusher : push[p] = "users" => index[p] <= users[p]
  /\ \A p \in Pusher : push[p] = "dates" => index[p] <= dayCount[p]

\* An index a push is about to read is inside the hash.
LEMMA IndexInRange ==
  ASSUME WeatherTypeOK, NEW p \in Pusher
  PROVE  /\ index[p] < users[p] => index[p] \in Slot
         /\ index[p] < dayCount[p] => index[p] \in Day
  BY WeatherAssumption DEF WeatherTypeOK, Slot, Day

LEMMA TypePush ==
  ASSUME WeatherTypeOK, CrawlInv, NEW p \in Pusher, Push(p)
  PROVE  WeatherTypeOK' /\ CrawlInv'
  <1>1. UNCHANGED <<regVars, crawlVars>>
    BY DEF Push, GetDays, GetUsers, GetUser, UsersDone, GetDate, SendMail
  <1>2. PushTyped
    BY DEF WeatherTypeOK, PushTyped
  <1>3. PushTyped'
    <2>1. CASE GetDays(p)
      <3>1. /\ dayCount' \in [Pusher -> 0 .. MaxDays]
            /\ push' \in [Pusher -> {"start", "counting", "users", "dates", "done", "dead"}]
        BY <1>2, <2>1 DEF GetDays, WeatherTypeOK, PushTyped
      <3>2. ASSUME NEW q \in Pusher
            PROVE  /\ push'[q] \in {"start", "counting"} => push[q] \in {"start", "counting"}
                   /\ push'[q] = "users" => push[q] = "users"
                   /\ push'[q] = "dates" => push[q] = "dates" /\ dayCount'[q] = dayCount[q]
        BY <1>2, <2>1 DEF GetDays, PushTyped
      <3>3. UNCHANGED <<users, index, to_list, day, mail, due>>
        BY <2>1 DEF GetDays
      <3>4. ASSUME NEW q \in Pusher
            PROVE  /\ push'[q] \in {"start", "counting"} => index'[q] = 0
                   /\ push'[q] = "users" => index'[q] <= users'[q]
                   /\ push'[q] = "dates" => index'[q] <= dayCount'[q]
        BY <1>2, <3>2, <3>3 DEF PushTyped
      <3>5. /\ users' \in [Pusher -> 0 .. MaxUsers]
            /\ index' \in [Pusher -> Nat]
            /\ to_list' \in [Pusher -> SUBSET (Registrant \union {None})]
            /\ due' \in [Pusher -> SUBSET Registrant]
            /\ day' \in [Pusher -> Seq(1 .. MaxCrawls)]
            /\ mail' \in [Pusher -> [to : SUBSET (Registrant \union {None}), text : Seq(1 .. MaxCrawls)]]
        BY <1>2, <3>3 DEF PushTyped
      <3> QED
        BY <3>1, <3>4, <3>5 DEF PushTyped
    <2>2. CASE GetUsers(p)
      <3>1. due' \in [Pusher -> SUBSET Registrant]
        <4>1. PICK D \in SUBSET Registrant : due' = due \/ due' = [due EXCEPT ![p] = D]
          BY <2>2, Zenon DEF GetUsers
        <4> QED
          BY <1>2, <4>1 DEF PushTyped
      <3>2. users' \in [Pusher -> 0 .. MaxUsers]
        BY <1>2, <2>2 DEF GetUsers, WeatherTypeOK, PushTyped
      <3>3. push' \in [Pusher -> {"start", "counting", "users", "dates", "done", "dead"}]
        BY <1>2, <2>2 DEF GetUsers, PushTyped
      <3>4. ASSUME NEW q \in Pusher
            PROVE  /\ push'[q] \in {"start", "counting"} => index'[q] = 0
                   /\ push'[q] = "users" => index'[q] <= users'[q]
                   /\ push'[q] = "dates" => index'[q] <= dayCount'[q]
        <4>1. q # p => push'[q] = push[q] /\ users'[q] = users[q]
          BY <1>2, <2>2 DEF GetUsers, PushTyped
        <4>2. index' = index /\ dayCount' = dayCount
          BY <2>2 DEF GetUsers
        <4>3. push'[p] \in {"dead", "users"}
          BY <1>2, <2>2 DEF GetUsers, PushTyped
        <4>4. push'[p] = "users" => index[p] = 0 /\ users'[p] \in 0 .. MaxUsers
          BY <1>2, <2>2, <3>2 DEF GetUsers, PushTyped
        <4> QED
          BY <1>2, <4>1, <4>2, <4>3, <4>4 DEF PushTyped
      <3> QED
        BY <1>2, <2>2, <3>1, <3>2, <3>3, <3>4 DEF GetUsers, PushTyped
    <2>3. CASE GetUser(p)
      BY <1>2, <2>3, IndexInRange DEF GetUser, WeatherTypeOK, PushTyped
    <2>4. CASE UsersDone(p)
      BY <1>2, <2>4 DEF UsersDone, PushTyped
    <2>5. CASE GetDate(p)
      <3>1. CASE date[index[p]] = None
        BY <1>2, <2>5, <3>1 DEF GetDate, PushTyped
      <3>2. CASE date[index[p]] # None
        <4>1. index[p] \in Day
          BY <2>5, IndexInRange DEF GetDate
        <4>2. date[index[p]] \in 1 .. MaxCrawls
          BY <3>2, <4>1 DEF WeatherTypeOK
        <4>3. Append(day[p], date[index[p]]) \in Seq(1 .. MaxCrawls)
          BY <1>2, <4>2 DEF PushTyped
        <4>4. day' \in [Pusher -> Seq(1 .. MaxCrawls)]
          BY <1>2, <2>5, <3>2, <4>3 DEF GetDate, PushTyped
        <4>5. index' = [index EXCEPT ![p] = index[p] + 1] /\ index[p] + 1 <= dayCount[p]
          BY <1>2, <2>5, <3>2 DEF GetDate, PushTyped
        <4> QED
          BY <1>2, <2>5, <3>2, <4>4, <4>5 DEF GetDate, PushTyped
      <3> QED
        BY <3>1, <3>2
    <2>6. CASE SendMail(p)
      <3>1. [to |-> to_list[p], text |-> day[p]]
              \in [to : SUBSET (Registrant \union {None}), text : Seq(1 .. MaxCrawls)]
        BY <1>2 DEF PushTyped
      <3>2. mail' \in [Pusher -> [to : SUBSET (Registrant \union {None}), text : Seq(1 .. MaxCrawls)]]
        BY <1>2, <2>6, <3>1 DEF SendMail, PushTyped
      <3> QED
        BY <1>2, <2>6, <3>2 DEF SendMail, PushTyped
    <2> QED
      BY <2>1, <2>2, <2>3, <2>4, <2>5, <2>6 DEF Push
  <1> QED
    BY <1>1, <1>3 DEF WeatherTypeOK, CrawlInv, PushTyped, regVars, crawlVars

LEMMA TypeStep == WeatherTypeOK /\ CrawlInv /\ [Next]_vars => WeatherTypeOK' /\ CrawlInv'
  <1> SUFFICES ASSUME WeatherTypeOK, CrawlInv, [Next]_vars PROVE WeatherTypeOK' /\ CrawlInv'
    OBVIOUS
  <1>1. CASE UNCHANGED vars
    BY <1>1 DEF vars, regVars, crawlVars, pushVars, WeatherTypeOK, CrawlInv
  <1>2. CASE Next
    BY <1>2, TypeRegister, TypeCrawler, TypePush DEF Next
  <1> QED
    BY <1>1, <1>2

\* The state stays one the program can be in: every number read from redis
\* and every index into its fields is in range (register.cpp, pipelines.py,
\* ShowWeather.py).
THEOREM TypeCorrect == Spec => [](WeatherTypeOK /\ CrawlInv)
  BY TypeInit, TypeStep, PTL DEF Spec

-----------------------------------------------------------------------------
\* A date once written stays written.
LEMMA DatesStay ==
  ASSUME WeatherTypeOK, CrawlInv, [Next]_vars, NEW n \in Nat, n < MaxDays, date[n] # None
  PROVE  date'[n] # None
  <1>1. CASE UNCHANGED date
    BY <1>1
  <1>2. CASE SetDate
    <2>1. crawls # None /\ date \in [Day -> 1 .. MaxCrawls \union {None}]
      BY <1>2, WeatherAssumption DEF SetDate, WeatherTypeOK
    <2> QED
      BY <1>2, <2>1, WeatherAssumption DEF SetDate, Day
  <1> QED
    BY <1>1, <1>2 DEF Next, vars, crawlVars, Register, Crawler, Push, GetCount, SetCount, SetUser,
       GetUser0, RegisterDies, Crawl, SetDays, CrawlDies, GetDays, GetUsers, GetUser, UsersDone,
       GetDate, SendMail

LEMMA DatesStep ==
  WeatherTypeOK /\ CrawlInv /\ DatesThere /\ [Next]_vars => DatesThere'
  <1> SUFFICES ASSUME WeatherTypeOK, CrawlInv, DatesThere, [Next]_vars PROVE DatesThere'
    OBVIOUS
  <1>1. ASSUME NEW d \in 0 .. MaxDays, \A n \in 0 .. d - 1 : date[n] # None
        PROVE  \A n \in 0 .. d - 1 : date'[n] # None
    <2> SUFFICES ASSUME NEW n \in 0 .. d - 1 PROVE date'[n] # None
      OBVIOUS
    <2>1. n \in Nat /\ n < MaxDays /\ date[n] # None
      BY <1>1, WeatherAssumption
    <2> QED
      BY <2>1, DatesStay
  <1>2. \/ days' = days
        \/ days' \in 0 .. MaxDays /\ \A n \in 0 .. days' - 1 : date[n] # None
    <2>1. CASE SetDays
      BY <2>1, WeatherAssumption DEF SetDays, WeatherTypeOK, CrawlInv
    <2>2. CASE ~SetDays
      BY <2>2 DEF Next, vars, crawlVars, Register, Crawler, Push, GetCount, SetCount, SetUser,
         GetUser0, RegisterDies, Crawl, SetDate, CrawlDies, GetDays, GetUsers, GetUser, UsersDone,
         GetDate, SendMail
    <2> QED
      BY <2>1, <2>2
  <1>3. ASSUME NEW p \in Pusher
        PROVE  dayCount'[p] = dayCount[p] \/ (days # None /\ dayCount'[p] = days)
    <2>1. dayCount \in [Pusher -> 0 .. MaxDays]
      BY DEF WeatherTypeOK
    <2>2. ASSUME NEW q \in Pusher, GetDays(q)
          PROVE  dayCount'[p] = dayCount[p] \/ (days # None /\ dayCount'[p] = days)
      BY <2>1, <2>2 DEF GetDays
    <2>3. CASE UNCHANGED dayCount
      BY <2>3
    <2> QED
      BY <2>2, <2>3 DEF Next, vars, pushVars, Register, Crawler, Push, GetCount, SetCount, SetUser,
         GetUser0, RegisterDies, Crawl, SetDate, SetDays, CrawlDies, GetUsers, GetUser, UsersDone,
         GetDate, SendMail
  <1>4. days' # None => \A n \in 0 .. days' - 1 : date'[n] # None
    <2>1. days \in 0 .. MaxDays \union {None}
      BY DEF WeatherTypeOK
    <2> QED
      BY <1>1, <1>2, <2>1 DEF DatesThere
  <1>5. ASSUME NEW p \in Pusher
        PROVE  \A n \in 0 .. dayCount'[p] - 1 : date'[n] # None
    <2>1. days \in 0 .. MaxDays \union {None} /\ dayCount[p] \in 0 .. MaxDays
      BY DEF WeatherTypeOK
    <2> QED
      BY <1>1, <1>3, <2>1 DEF DatesThere
  <1> QED
    BY <1>4, <1>5 DEF DatesThere

\* A push that has read days finds every date it counts, however many crawls
\* run, fail or return fewer days meanwhile (pipelines.py, lines 33-50, and
\* ShowWeather.py, lines 36 and 45-46).
THEOREM ForecastsThere == Spec => []DatesThere
  <1>1. Init => DatesThere
    BY WeatherAssumption DEF Init, DatesThere
  <1> QED
    BY <1>1, TypeCorrect, DatesStep, PTL DEF Spec

-----------------------------------------------------------------------------
\* What a step of a registration does to the user numbers is all that a step
\* can do to them.
LEMMA OnlyRegister ==
  ASSUME [Next]_vars, ~ \E r \in Registrant : Register(r)
  PROVE  UNCHANGED regVars
  BY DEF Next, vars, Crawler, Push, Crawl, SetDate, SetDays, CrawlDies, GetDays, GetUsers, GetUser,
     UsersDone, GetDate, SendMail

LEMMA NumbersRegister ==
  ASSUME WeatherTypeOK, NumbersInv, NEW r \in Registrant, Register(r)
  PROVE  NumbersInv'
  <1> USE DEF NumbersInv
  <1>0. /\ UserCount \in 0 .. MaxUsers \union {None}
        /\ user \in [Slot -> Registrant \union {None}]
        /\ count \in [Registrant -> Slot]
        /\ reg \in [Registrant -> {"start", "counting", "storing", "checking", "done", "dead"}]
        /\ None \notin Nat /\ None \notin Registrant /\ MaxUsers \in Nat
    BY WeatherAssumption DEF WeatherTypeOK
  <1>1. CASE GetCount(r)
    <2>1. CASE UserCount = None
      BY <1>0, <1>1, <2>1 DEF GetCount, Owned
    <2>2. CASE UserCount # None
      <3>1. /\ count' = [count EXCEPT ![r] = UserCount]
            /\ reg' = [reg EXCEPT ![r] = "counting"]
            /\ UserCount' = UserCount /\ user' = user /\ reg[r] = "start"
        BY <1>1, <2>2 DEF GetCount
      <3>2. ASSUME NEW n, Owned(n) PROVE Owned(n)'
        BY <1>0, <3>1, <3>2 DEF Owned
      <3>3. ASSUME NEW s \in Registrant, reg'[s] = "counting", NEW n \in 0 .. count'[s] - 1
            PROVE  Owned(n)
        <4>1. CASE s = r
          BY <1>0, <2>2, <3>1, <3>3, <4>1
        <4>2. CASE s # r
          BY <1>0, <3>1, <3>3, <4>2
        <4> QED
          BY <4>1, <4>2
      <3>4. UserCount' # None
        BY <2>2, <3>1
      <3>5. \A n \in 0 .. UserCount' - 1 : Owned(n)'
        BY <2>2, <3>1, <3>2
      <3>6. \A s \in Registrant : reg'[s] = "counting" => \A n \in 0 .. count'[s] - 1 : Owned(n)'
        BY <3>2, <3>3
      <3> QED
        BY <3>4, <3>5, <3>6
    <2> QED
      BY <2>1, <2>2
  <1>2. CASE SetCount(r)
    <2>1. /\ UserCount' = count[r] + 1
          /\ reg' = [reg EXCEPT ![r] = "storing"]
          /\ user' = user /\ count' = count /\ reg[r] = "counting"
      BY <1>2 DEF SetCount
    <2>2. ASSUME NEW n, Owned(n) PROVE Owned(n)'
      BY <1>0, <2>1, <2>2 DEF Owned
    <2>3. count[r] \in Nat /\ UserCount' # None
      BY <1>0, <2>1 DEF Slot
    <2>4. Owned(count[r])'
      BY <1>0, <2>1 DEF Owned
    <2>5. \A n \in 0 .. UserCount' - 1 : Owned(n)'
      <3>1. \A n \in 0 .. UserCount' - 1 : n = count[r] \/ n \in 0 .. count[r] - 1
        BY <2>1, <2>3
      <3> QED
        BY <2>1, <2>2, <2>4, <3>1
    <2>6. \A s \in Registrant : reg'[s] = "counting" => \A n \in 0 .. count'[s] - 1 : Owned(n)'
      BY <1>0, <2>1, <2>2
    <2> QED
      BY <2>3, <2>5, <2>6
  <1>3. CASE SetUser(r)
    <2>1. /\ user' = [user EXCEPT ![count[r]] = r]
          /\ reg' = [reg EXCEPT ![r] = "checking"]
          /\ UserCount' = UserCount /\ count' = count /\ reg[r] = "storing"
      BY <1>3 DEF SetUser
    <2>2. ASSUME NEW n \in Nat, n < MaxUsers, Owned(n) PROVE Owned(n)'
      <3>0. n \in Slot
        BY <1>0, <2>2 DEF Slot
      <3>1. CASE n = count[r]
        BY <1>0, <2>1, <3>0, <3>1 DEF Owned
      <3>2. CASE n # count[r]
        BY <1>0, <2>1, <2>2, <3>0, <3>2 DEF Owned
      <3> QED
        BY <3>1, <3>2
    <2>3. UserCount' # None => \A n \in 0 .. UserCount' - 1 : Owned(n)'
      BY <1>0, <2>1, <2>2
    <2>4. ASSUME NEW s \in Registrant, reg'[s] = "counting", NEW n \in 0 .. count'[s] - 1
          PROVE  Owned(n)'
      <3>1. reg[s] = "counting" /\ count'[s] = count[s]
        BY <1>0, <2>1, <2>4
      <3>2. count[s] \in Slot /\ n \in 0 .. count[s] - 1
        BY <1>0, <2>4, <3>1
      <3>3. n \in Nat /\ n < MaxUsers /\ Owned(n)
        BY <1>0, <3>1, <3>2 DEF Slot
      <3> QED
        BY <2>2, <3>3
    <2>5. \A s \in Registrant : reg'[s] \in {"counting", "storing", "checking", "done"} => UserCount' # None
      BY <1>0, <2>1
    <2> QED
      BY <2>3, <2>4, <2>5
  <1>4. CASE GetUser0(r) \/ RegisterDies(r)
    <2>1. /\ user' = user /\ UserCount' = UserCount /\ count' = count
          /\ \E x \in {"done", "dead"} : reg' = [reg EXCEPT ![r] = x] /\ (x = "done" => reg[r] = "checking")
          /\ reg[r] \in {"counting", "storing", "checking"}
      BY <1>4 DEF GetUser0, RegisterDies
    <2>2. ASSUME NEW n, Owned(n) PROVE Owned(n)'
      BY <1>0, <2>1, <2>2 DEF Owned
    <2>3. \A s \in Registrant : reg'[s] = "counting" => reg[s] = "counting"
      BY <1>0, <2>1
    <2>4. UserCount # None
      BY <2>1
    <2> QED
      BY <2>1, <2>2, <2>3, <2>4
  <1> QED
    BY <1>1, <1>2, <1>3, <1>4 DEF Register

LEMMA NumbersStep == WeatherTypeOK /\ NumbersInv /\ [Next]_vars => NumbersInv'
  <1> SUFFICES ASSUME WeatherTypeOK, NumbersInv, [Next]_vars PROVE NumbersInv'
    OBVIOUS
  <1>1. CASE UNCHANGED regVars
    BY <1>1 DEF regVars, NumbersInv, Owned
  <1> QED
    BY <1>1, OnlyRegister, NumbersRegister

\* A user number below UserCount without an address belongs to a registration
\* between its two writes, or to one that died there (register.cpp, lines
\* 49-51).
THEOREM HolesAreOwned == Spec => []HolesHaveOwners
  <1>1. Init => NumbersInv
    BY DEF Init, NumbersInv, Owned
  <1>2. NumbersInv => HolesHaveOwners
    BY DEF NumbersInv, Owned, HolesHaveOwners
  <1> QED
    BY <1>1, <1>2, TypeCorrect, NumbersStep, PTL DEF Spec

-----------------------------------------------------------------------------
\* Registrations that do not overlap.
LEMMA SerialRegister ==
  ASSUME WeatherTypeOK, SerialInv, NEW r \in Registrant, Register(r), ~overlap'
  PROVE  SerialInv'
  <1>0. /\ UserCount \in 0 .. MaxUsers \union {None}
        /\ user \in [Slot -> Registrant \union {None}]
        /\ count \in [Registrant -> Slot]
        /\ reg \in [Registrant -> {"start", "counting", "storing", "checking", "done", "dead"}]
        /\ None \notin Nat /\ None \notin Registrant /\ MaxUsers \in Nat
    BY WeatherAssumption DEF WeatherTypeOK
  <1>1. ~overlap
    BY Zenon DEF Register, GetCount, SetCount, SetUser, GetUser0, RegisterDies
  <1>2. /\ \A x, y \in Busy : x = y
        /\ \A x \in Registrant : Stored(x) => count[x] < UserCount /\ user[count[x]] = x
        /\ \A x \in Registrant : reg[x] = "counting" => UserCount = count[x]
        /\ \A x \in Registrant : reg[x] = "storing" =>
             /\ UserCount = count[x] + 1
             /\ \A y \in Registrant : Stored(y) => count[y] < count[x]
    BY <1>1 DEF SerialInv
  <1>3. CASE GetCount(r)
    <2>1. CASE UserCount = None
      <3>1. /\ reg' = [reg EXCEPT ![r] = "dead"]
            /\ UserCount' = UserCount /\ user' = user /\ count' = count
        BY <1>3, <2>1 DEF GetCount
      <3> QED
        BY <1>0, <1>2, <3>1 DEF SerialInv, Busy, Stored
    <2>2. CASE UserCount # None
      <3>1. /\ count' = [count EXCEPT ![r] = UserCount]
            /\ reg' = [reg EXCEPT ![r] = "counting"]
            /\ UserCount' = UserCount /\ user' = user /\ reg[r] = "start"
        BY <1>3, <2>2 DEF GetCount
      <3>2. Busy = {}
        BY <1>3, <2>2, Zenon DEF GetCount
      <3>3. \A x \in Registrant : x # r => reg[x] \notin {"counting", "storing"}
        BY <3>2 DEF Busy
      <3> QED
        BY <1>0, <1>2, <3>1, <3>3 DEF SerialInv, Busy, Stored
    <2> QED
      BY <2>1, <2>2
  <1>4. CASE SetCount(r)
    <2>1. /\ UserCount' = count[r] + 1
          /\ reg' = [reg EXCEPT ![r] = "storing"]
          /\ user' = user /\ count' = count /\ reg[r] = "counting"
      BY <1>4 DEF SetCount
    <2>2. \A x \in Registrant : x # r => reg[x] \notin {"counting", "storing"}
      BY <1>2, <2>1 DEF Busy
    <2>3. UserCount = count[r] /\ count[r] \in Nat
      BY <1>0, <1>2, <2>1 DEF Slot
    <2>4. ASSUME NEW x \in Registrant, Stored(x)'
          PROVE  Stored(x) /\ count[x] \in Nat /\ count[x] < count[r] /\ user[count[x]] = x
      BY <1>0, <1>2, <2>1, <2>3, <2>4 DEF Stored, Slot
    <2> QED
      BY <1>0, <2>1, <2>2, <2>3, <2>4 DEF SerialInv, Busy
  <1>5. CASE SetUser(r)
    <2>1. /\ user' = [user EXCEPT ![count[r]] = r]
          /\ reg' = [reg EXCEPT ![r] = "checking"]
          /\ UserCount' = UserCount /\ count' = count /\ reg[r] = "storing"
      BY <1>5 DEF SetUser
    <2>2. \A x \in Registrant : reg'[x] \notin {"counting", "storing"}
      BY <1>0, <1>2, <2>1 DEF Busy
    <2>3. ASSUME NEW x \in Registrant, Stored(x)'
          PROVE  count[x] < UserCount /\ user'[count[x]] = x
      <3>0. count[r] \in Slot /\ count[x] \in Slot /\ count[r] \in Nat /\ UserCount = count[r] + 1
        BY <1>0, <1>2, <2>1 DEF Slot
      <3>1. CASE x = r
        BY <1>0, <2>1, <3>0, <3>1
      <3>2. CASE x # r
        <4>1. Stored(x)
          BY <1>0, <2>1, <2>3, <3>2 DEF Stored
        <4>2. count[x] < count[r] /\ count[x] < UserCount /\ user[count[x]] = x
          BY <1>2, <2>1, <4>1
        <4>3. count[x] # count[r]
          BY <3>0, <4>2 DEF Slot
        <4> QED
          BY <1>0, <2>1, <3>0, <4>2, <4>3
      <3> QED
        BY <3>1, <3>2
    <2> QED
      BY <2>1, <2>2, <2>3 DEF SerialInv, Busy
  <1>6. CASE GetUser0(r) \/ RegisterDies(r)
    <2>1. /\ user' = user /\ UserCount' = UserCount /\ count' = count
          /\ \E x \in {"done", "dead"} : reg' = [reg EXCEPT ![r] = x] /\ (x = "done" => reg[r] = "checking")
      BY <1>6 DEF GetUser0, RegisterDies
    <2>2. \A x \in Registrant :
            /\ reg'[x] \in {"counting", "storing"} => reg'[x] = reg[x]
            /\ Stored(x)' => Stored(x)
      BY <1>0, <2>1 DEF Stored
    <2> QED
      BY <1>2, <2>1, <2>2 DEF SerialInv, Busy
  <1> QED
    BY <1>3, <1>4, <1>5, <1>6 DEF Register

LEMMA SerialStep == WeatherTypeOK /\ SerialInv /\ [Next]_vars => SerialInv'
  <1> SUFFICES ASSUME WeatherTypeOK, SerialInv, [Next]_vars, ~overlap' PROVE SerialInv'
    BY Zenon DEF SerialInv
  <1>1. CASE UNCHANGED regVars
    BY <1>1, Zenon DEF regVars, SerialInv, Busy, Stored
  <1> QED
    BY <1>1, OnlyRegister, SerialRegister

\* A registration that has ended stays ended, keeps its number and, while none
\* overlaps, its address; a push under way loses nobody by it.
LEMMA PushRegister ==
  ASSUME WeatherTypeOK, PushInv, NEW r \in Registrant, Register(r), ~overlap'
  PROVE  PushInv'
  <1>1. ~overlap
    BY Zenon DEF Register, GetCount, SetCount, SetUser, GetUser0, RegisterDies
  <1>2. \A x \in Registrant : reg[x] = "done" => reg'[x] = "done" /\ count'[x] = count[x]
    BY DEF Register, GetCount, SetCount, SetUser, GetUser0, RegisterDies, WeatherTypeOK
  <1>3. UNCHANGED pushVars
    BY DEF Register, GetCount, SetCount, SetUser, GetUser0, RegisterDies
  <1>4. \A p \in Pusher : due[p] \subseteq Registrant
    BY DEF WeatherTypeOK
  <1> QED
    BY <1>1, <1>2, <1>3, <1>4 DEF PushInv, pushVars

LEMMA PushPush ==
  ASSUME WeatherTypeOK, SerialInv, PushInv, NEW p \in Pusher, Push(p), ~overlap
  PROVE  PushInv'
  <1>1. UNCHANGED regVars
    BY DEF Push, GetDays, GetUsers, GetUser, UsersDone, GetDate, SendMail
  <1>2. PushTyped /\ \A q \in Pusher : due[q] \subseteq Registrant
    BY DEF WeatherTypeOK, PushTyped
  <1>3. ASSUME NEW q \in Pusher, q # p
        PROVE  /\ push'[q] = push[q] /\ users'[q] = users[q] /\ index'[q] = index[q]
               /\ due'[q] = due[q] /\ to_list'[q] = to_list[q] /\ mail'[q] = mail[q]
    BY <1>2, <1>3 DEF PushTyped, Push, GetDays, GetUsers, GetUser, UsersDone, GetDate, SendMail
  <1>4. /\ \A r \in due[p] : reg[r] = "done"
        /\ push[p] \in {"start", "counting"} => due[p] = {}
        /\ push[p] # "done" => mail[p] = NoMail
        /\ push[p] = "users" => \A r \in due[p] :
             /\ count[r] < users[p]
             /\ count[r] < index[p] => r \in to_list[p]
        /\ push[p] = "dates" => due[p] \subseteq to_list[p]
        /\ mail[p] # NoMail => due[p] \subseteq mail[p].to
    BY DEF PushInv
  <1>5. /\ \A r \in due'[p] : reg[r] = "done"
        /\ push'[p] \in {"start", "counting"} => due'[p] = {}
        /\ push'[p] # "done" => mail'[p] = NoMail
        /\ push'[p] = "users" => \A r \in due'[p] :
             /\ count[r] < users'[p]
             /\ count[r] < index'[p] => r \in to_list'[p]
        /\ push'[p] = "dates" => due'[p] \subseteq to_list'[p]
        /\ mail'[p] # NoMail => due'[p] \subseteq mail'[p].to
    <2>1. CASE GetDays(p)
      BY <1>2, <1>4, <2>1 DEF GetDays, PushTyped
    <2>2. CASE GetUsers(p)
      <3>1. CASE UserCount = None
        BY <1>2, <1>4, <2>2, <3>1 DEF GetUsers, PushTyped
      <3>2. CASE UserCount # None
        <4>1. /\ push[p] = "counting" /\ push'[p] = "users" /\ users'[p] = UserCount
              /\ due'[p] = {r \in Registrant : reg[r] = "done"}
              /\ index' = index /\ to_list' = to_list /\ mail' = mail
          BY <1>2, <2>2, <3>2 DEF GetUsers, PushTyped
        <4>2. \A r \in due'[p] : r \in Registrant /\ reg[r] = "done"
          BY <4>1
        <4>3. \A r \in due'[p] : count[r] < UserCount
          BY <4>2 DEF SerialInv, Stored
        <4>4. \A r \in due'[p] : count[r] \in Nat /\ index[p] = 0
          BY <4>1, <4>2 DEF WeatherTypeOK, Slot
        <4> QED
          BY <1>4, <4>1, <4>2, <4>3, <4>4
      <3> QED
        BY <3>1, <3>2
    <2>3. CASE GetUser(p)
      <3>1. /\ push'[p] = push[p] /\ users'[p] = users[p] /\ due'[p] = due[p] /\ mail'[p] = mail[p]
            /\ push[p] = "users" /\ index'[p] = index[p] + 1
            /\ to_list'[p] = to_list[p] \union {user[index[p]]}
        BY <1>2, <2>3 DEF GetUser, PushTyped
      <3>2. ASSUME NEW r \in due[p], count[r] < index'[p]
            PROVE  r \in to_list'[p]
        <4>1. count[r] \in Nat /\ index[p] \in Nat /\ user[count[r]] = r
          BY <1>2, <1>4 DEF SerialInv, Stored, WeatherTypeOK, Slot
        <4>2. CASE count[r] = index[p]
          BY <3>1, <4>1, <4>2
        <4>3. CASE count[r] < index[p]
          BY <1>4, <3>1, <4>3
        <4> QED
          BY <3>1, <3>2, <4>1, <4>2, <4>3
      <3> QED
        BY <1>4, <3>1, <3>2
    <2>4. CASE UsersDone(p)
      <3>1. /\ push[p] = "users" /\ push'[p] = "dates" /\ index[p] = users[p]
            /\ due' = due /\ to_list' = to_list /\ mail' = mail
        BY <1>2, <2>4 DEF UsersDone, PushTyped
      <3>2. due'[p] \subseteq to_list'[p]
        BY <1>4, <3>1
      <3> QED
        BY <1>4, <3>1, <3>2
    <2>5. CASE GetDate(p)
      BY <1>2, <1>4, <2>5 DEF GetDate, PushTyped
    <2>6. CASE SendMail(p)
      <3>1. /\ push[p] = "dates" /\ push'[p] = "done" /\ due' = due
            /\ mail'[p] = mail[p] \/ mail'[p] = [to |-> to_list[p], text |-> day[p]]
        BY <1>2, <2>6 DEF SendMail, PushTyped
      <3>2. mail'[p] # NoMail => due'[p] \subseteq mail'[p].to
        BY <1>4, <3>1
      <3> QED
        BY <1>4, <3>1, <3>2
    <2> QED
      BY <2>1, <2>2, <2>3, <2>4, <2>5, <2>6 DEF Push
  <1>6. \A q \in Pusher :
        /\ \A r \in due'[q] : reg[r] = "done"
        /\ push'[q] \in {"start", "counting"} => due'[q] = {}
        /\ push'[q] # "done" => mail'[q] = NoMail
        /\ push'[q] = "users" => \A r \in due'[q] :
             /\ count[r] < users'[q]
             /\ count[r] < index'[q] => r \in to_list'[q]
        /\ push'[q] = "dates" => due'[q] \subseteq to_list'[q]
        /\ mail'[q] # NoMail => due'[q] \subseteq mail'[q].to
    BY <1>3, <1>5 DEF PushInv
  <1> QED
    BY <1>1, <1>6 DEF PushInv, regVars

LEMMA PushStep ==
  WeatherTypeOK /\ SerialInv /\ PushInv /\ [Next]_vars => PushInv'
  <1> SUFFICES ASSUME WeatherTypeOK, SerialInv, PushInv, [Next]_vars, ~overlap' PROVE PushInv'
    BY Zenon DEF PushInv
  <1>1. CASE \E r \in Registrant : Register(r)
    BY <1>1, PushRegister
  <1>2. CASE UNCHANGED <<regVars, pushVars>>
    BY <1>2 DEF regVars, pushVars, PushInv
  <1>3. CASE \E p \in Pusher : Push(p)
    <2>1. ~overlap
      BY <1>3, Zenon DEF Push, GetDays, GetUsers, GetUser, UsersDone, GetDate, SendMail, regVars
    <2> QED
      BY <1>3, <2>1, PushPush
  <1>4. CASE Crawler
    BY <1>2, <1>4 DEF Crawler, Crawl, SetDate, SetDays, CrawlDies
  <1>5. CASE UNCHANGED vars
    BY <1>2, <1>5 DEF vars
  <1> QED
    BY <1>1, <1>3, <1>4, <1>5 DEF Next

\* As long as no two registrations overlap, a push mails to everyone who had
\* registered when it read UserCount, whatever has died in between
\* (register.cpp, lines 45-51, ShowWeather.py, lines 37-47).
THEOREM EveryoneMailed == Spec => []PushComplete
  <1>1. Init => SerialInv /\ PushInv
    BY DEF Init, SerialInv, PushInv, Busy, Stored
  <1>2. PushInv => PushComplete
    BY DEF PushInv, PushComplete
  <1> QED
    BY <1>1, <1>2, TypeCorrect, SerialStep, PushStep, PTL DEF Spec
=============================================================================
