--------------------------- MODULE WeatherService ---------------------------
(***************************************************************************)
(* The weather service: processes that share nothing but two hashes in     *)
(* redis.                                                                  *)
(*                                                                         *)
(*   register.cpp    a CGI process per request: registers an address under *)
(*                   user<n>, n being UserCount                            *)
(*   pipelines.py    the crawler, run by cron: writes date-0, date-1, ...  *)
(*                   and then days                                         *)
(*   ShowWeather.py  the push, run by cron and by weather_show.cpp: reads  *)
(*                   everything and mails it to every user                 *)
(*                                                                         *)
(* Each redis command is a step, and nothing makes two of them one: there  *)
(* is no transaction.  A process may die between any two of its commands:  *)
(* it was killed, or its connection was, or a lookup found no value (HGET  *)
(* of a missing field is a null pointer in redis_api.cpp and None in       *)
(* Python).  An address is the registrant that gave it; a forecast is the  *)
(* number of the crawl it is from.  What the crawler writes to its file,   *)
(* the city and the update time are left out, since nothing reads them.    *)
(***************************************************************************)
EXTENDS Naturals, Sequences, FiniteSets, Functions

CONSTANTS
  Registrant,  \* requests to register, each from an address of its own
  Pusher,      \* runs of ShowWeather.py
  None,        \* a field that does not exist
  MaxUsers,    \* bound: UserCount
  MaxDays,     \* bound: days of a forecast
  MaxCrawls    \* bound: runs of the crawler

ASSUME WeatherAssumption ==
  /\ None \notin Registrant
  /\ None \notin Nat
  /\ MaxUsers \in Nat \ {0} /\ MaxDays \in Nat /\ MaxCrawls \in Nat

VARIABLES
  UserCount,   \* field UserCount of hash user
  user,        \* fields user<n> of hash user
  days,        \* field days of hash weather
  date,        \* fields date-<n> of hash weather
  reg,         \* where each registration is
  count,       \* its local count, as read
  crawler,     \* where the crawler is
  crawls,      \* how often it has run
  total,       \* len(weaitem) of this run
  next,        \* its local count
  push,        \* where each push is
  users,       \* its locals users, days and i
  dayCount,
  index,
  to_list,     \* its local to_list, as the set of addresses in it
  day,         \* its local day, the forecasts it has appended
  mail,        \* what it has mailed, and to whom
  due,         \* history: who had registered when it read UserCount
  overlap      \* history: two registrations were under way at once

regVars == <<UserCount, user, reg, count, overlap>>
crawlVars == <<days, date, crawler, crawls, total, next>>
pushVars == <<push, users, dayCount, index, to_list, day, mail, due>>
vars == <<regVars, crawlVars, pushVars>>

Slot == 0 .. MaxUsers - 1
Day == 0 .. MaxDays - 1
NoMail == [to |-> {}, text |-> <<>>]

\* UserCount is set to 0 by hand, or not at all: no program creates it.
Init ==
  /\ UserCount \in {0, None}
  /\ user = [n \in Slot |-> None]
  /\ days = None /\ date = [n \in Day |-> None]
  /\ reg = [r \in Registrant |-> "start"]
  /\ count = [r \in Registrant |-> 0]
  /\ crawler = "idle" /\ crawls = 0 /\ total = 0 /\ next = 0
  /\ push = [p \in Pusher |-> "start"]
  /\ users = [p \in Pusher |-> 0]
  /\ dayCount = [p \in Pusher |-> 0]
  /\ index = [p \in Pusher |-> 0]
  /\ to_list = [p \in Pusher |-> {}]
  /\ day = [p \in Pusher |-> <<>>]
  /\ mail = [p \in Pusher |-> NoMail]
  /\ due = [p \in Pusher |-> {}]
  /\ overlap = FALSE

-----------------------------------------------------------------------------
(* exec_calc of register.cpp.                                              *)

Busy == {r \in Registrant : reg[r] \in {"counting", "storing"}}

\* HGET user UserCount.
GetCount(r) ==
  /\ reg[r] = "start"
  /\ \/ /\ UserCount = None
        /\ reg' = [reg EXCEPT ![r] = "dead"]
        /\ UNCHANGED <<count, overlap>>
     \/ /\ UserCount # None /\ UserCount < MaxUsers
        /\ count' = [count EXCEPT ![r] = UserCount]
        /\ overlap' = (overlap \/ Busy # {})
        /\ reg' = [reg EXCEPT ![r] = "counting"]
  /\ UNCHANGED <<UserCount, user, crawlVars, pushVars>>

\* Faulty: UserCount is written as it was read.
SetCountUnchanged(r) ==
  /\ reg[r] = "counting"
  /\ UserCount' = count[r]
  /\ reg' = [reg EXCEPT ![r] = "storing"]
  /\ UNCHANGED <<user, count, overlap, crawlVars, pushVars>>

\* HSET user UserCount <count + 1>.
SetCount(r) ==
  /\ reg[r] = "counting"
  /\ UserCount' = count[r] + 1
  /\ reg' = [reg EXCEPT ![r] = "storing"]
  /\ UNCHANGED <<user, count, overlap, crawlVars, pushVars>>

\* Faulty: the slot is taken from UserCount as it is now.
SetUserLate(r) ==
  /\ reg[r] = "storing"
  /\ user' = [user EXCEPT ![IF UserCount < MaxUsers THEN UserCount ELSE 0] = r]
  /\ reg' = [reg EXCEPT ![r] = "checking"]
  /\ UNCHANGED <<UserCount, count, overlap, crawlVars, pushVars>>

\* HSET user user<count> <email>.
SetUser(r) ==
  /\ reg[r] = "storing"
  /\ user' = [user EXCEPT ![count[r]] = r]
  /\ reg' = [reg EXCEPT ![r] = "checking"]
  /\ UNCHANGED <<UserCount, count, overlap, crawlVars, pushVars>>

\* HGET user user0.
GetUser0(r) ==
  /\ reg[r] = "checking"
  /\ reg' = [reg EXCEPT ![r] = IF user[0] = None THEN "dead" ELSE "done"]
  /\ UNCHANGED <<UserCount, user, count, overlap, crawlVars, pushVars>>

RegisterDies(r) ==
  /\ reg[r] \in {"counting", "storing", "checking"}
  /\ reg' = [reg EXCEPT ![r] = "dead"]
  /\ UNCHANGED <<UserCount, user, count, overlap, crawlVars, pushVars>>

-----------------------------------------------------------------------------
(* process_item of pipelines.py.                                           *)

\* A page with any number of days; a page that has none of what is looked for
\* ends the run before it writes anything.
Crawl(n) ==
  /\ crawler = "idle" /\ crawls < MaxCrawls
  /\ crawls' = crawls + 1
  /\ total' = n /\ next' = 0
  /\ crawler' = "dates"
  /\ UNCHANGED <<days, date, regVars, pushVars>>

\* One round of the loop over the days: HSET weather date-<n>.
SetDate ==
  /\ crawler = "dates" /\ next < total
  /\ date' = [date EXCEPT ![next] = crawls]
  /\ next' = next + 1
  /\ UNCHANGED <<days, crawler, crawls, total, regVars, pushVars>>

\* Faulty: days is written before the dates it counts.
SetDaysEarly ==
  /\ crawler = "dates"
  /\ days' = total
  /\ UNCHANGED <<date, crawler, crawls, total, next, regVars, pushVars>>

\* HSET weather days, after the loop.
SetDays ==
  /\ crawler = "dates" /\ next = total
  /\ days' = next
  /\ crawler' = "idle"
  /\ UNCHANGED <<date, crawls, total, next, regVars, pushVars>>

\* An entry without a "/" in its temperatures, or a lost connection.
CrawlDies ==
  /\ crawler = "dates"
  /\ crawler' = "idle"
  /\ UNCHANGED <<days, date, crawls, total, next, regVars, pushVars>>

-----------------------------------------------------------------------------
(* ShowWeather.py.                                                         *)

\* count = int(hget("weather", "days"))
GetDays(p) ==
  /\ push[p] = "start"
  /\ IF days = None
     THEN /\ push' = [push EXCEPT ![p] = "dead"]
          /\ UNCHANGED dayCount
     ELSE /\ push' = [push EXCEPT ![p] = "counting"]
          /\ dayCount' = [dayCount EXCEPT ![p] = days]
  /\ UNCHANGED <<users, index, to_list, day, mail, due, regVars, crawlVars>>

\* users = int(hget("user", "UserCount"))
GetUsers(p) ==
  /\ push[p] = "counting"
  /\ IF UserCount = None
     THEN /\ push' = [push EXCEPT ![p] = "dead"]
          /\ UNCHANGED <<users, due>>
     ELSE /\ push' = [push EXCEPT ![p] = "users"]
          /\ users' = [users EXCEPT ![p] = UserCount]
          /\ due' = [due EXCEPT ![p] = {r \in Registrant : reg[r] = "done"}]
  /\ UNCHANGED <<dayCount, index, to_list, day, mail, regVars, crawlVars>>

\* One round of the loop over the users: str(None) is an address too.
GetUser(p) ==
  /\ push[p] = "users" /\ index[p] < users[p]
  /\ to_list' = [to_list EXCEPT ![p] = @ \union {user[index[p]]}]
  /\ index' = [index EXCEPT ![p] = @ + 1]
  /\ UNCHANGED <<push, users, dayCount, day, mail, due, regVars, crawlVars>>

UsersDone(p) ==
  /\ push[p] = "users" /\ index[p] = users[p]
  /\ push' = [push EXCEPT ![p] = "dates"]
  /\ index' = [index EXCEPT ![p] = 0]
  /\ UNCHANGED <<users, dayCount, to_list, day, mail, due, regVars, crawlVars>>

\* One round of the loop over the days: a string plus None is an error.
GetDate(p) ==
  /\ push[p] = "dates" /\ index[p] < dayCount[p]
  /\ IF date[index[p]] = None
     THEN /\ push' = [push EXCEPT ![p] = "dead"]
          /\ UNCHANGED <<day, index>>
     ELSE /\ day' = [day EXCEPT ![p] = Append(@, date[index[p]])]
          /\ index' = [index EXCEPT ![p] = @ + 1]
          /\ UNCHANGED push
  /\ UNCHANGED <<users, dayCount, to_list, mail, due, regVars, crawlVars>>

\* send_mail, which may fail; either way the program is at its end.
SendMail(p) ==
  /\ push[p] = "dates" /\ index[p] = dayCount[p]
  /\ push' = [push EXCEPT ![p] = "done"]
  /\ \/ mail' = [mail EXCEPT ![p] = [to |-> to_list[p], text |-> day[p]]]
     \/ UNCHANGED mail
  /\ UNCHANGED <<users, dayCount, index, to_list, day, due, regVars, crawlVars>>

-----------------------------------------------------------------------------
Register(r) ==
  GetCount(r) \/ SetCount(r) \/ SetUser(r) \/ GetUser0(r) \/ RegisterDies(r)
Crawler == (\E n \in 0 .. MaxDays : Crawl(n)) \/ SetDate \/ SetDays \/ CrawlDies
Push(p) ==
  GetDays(p) \/ GetUsers(p) \/ GetUser(p) \/ UsersDone(p) \/ GetDate(p) \/ SendMail(p)

Next ==
  \/ \E r \in Registrant : Register(r)
  \/ Crawler
  \/ \E p \in Pusher : Push(p)

Spec == Init /\ [][Next]_vars

-----------------------------------------------------------------------------
(* Properties.                                                             *)

WeatherTypeOK ==
  /\ UserCount \in 0 .. MaxUsers \union {None}
  /\ user \in [Slot -> Registrant \union {None}]
  /\ days \in 0 .. MaxDays \union {None}
  /\ date \in [Day -> 1 .. MaxCrawls \union {None}]
  /\ reg \in [Registrant -> {"start", "counting", "storing", "checking", "done", "dead"}]
  /\ count \in [Registrant -> Slot]
  /\ crawler \in {"idle", "dates"} /\ crawls \in 0 .. MaxCrawls
  /\ total \in 0 .. MaxDays /\ next \in 0 .. total
  /\ push \in [Pusher -> {"start", "counting", "users", "dates", "done", "dead"}]
  /\ users \in [Pusher -> 0 .. MaxUsers]
  /\ dayCount \in [Pusher -> 0 .. MaxDays]
  /\ index \in [Pusher -> Nat]
  /\ to_list \in [Pusher -> SUBSET (Registrant \union {None})]
  /\ due \in [Pusher -> SUBSET Registrant]
  /\ day \in [Pusher -> Seq(1 .. MaxCrawls)]
  /\ mail \in [Pusher -> [to : SUBSET (Registrant \union {None}), text : Seq(1 .. MaxCrawls)]]
  /\ overlap \in BOOLEAN
  /\ \A p \in Pusher : push[p] \in {"start", "counting"} => index[p] = 0
  /\ \A p \in Pusher : push[p] = "users" => index[p] <= users[p]
  /\ \A p \in Pusher : push[p] = "dates" => index[p] <= dayCount[p]

\* A push that has read days finds every date it counts, however many crawls
\* run, fail or return fewer days meanwhile: dates are written before days
\* (lines 34-51 of pipelines.py) and never deleted.
DatesThere ==
  /\ days # None => \A n \in 0 .. days - 1 : date[n] # None
  /\ \A p \in Pusher : \A n \in 0 .. dayCount[p] - 1 : date[n] # None

\* A number below UserCount that has no address belongs to a registration
\* between its two HSETs, or to one that died there (lines 49-51 of
\* register.cpp): only those make the push mail to "None".
HolesHaveOwners ==
  UserCount # None =>
    \A n \in 0 .. UserCount - 1 :
      user[n] = None => \E r \in Registrant : count[r] = n /\ reg[r] \in {"storing", "dead"}

\* If no two registrations overlap, a push reaches everyone whose
\* registration had ended when it read UserCount, whatever has died between.
PushComplete ==
  \A p \in Pusher : (~overlap /\ mail[p] # NoMail) => due[p] \subseteq mail[p].to

\* The README says that registering stores the address for good and that
\* everyone registered is mailed.  Violated: two registrations that read the
\* same UserCount use the same number.
RegisteredForGood ==
  \A r \in Registrant :
    reg[r] = "done" => \E n \in 0 .. UserCount - 1 : user[n] = r
=============================================================================
