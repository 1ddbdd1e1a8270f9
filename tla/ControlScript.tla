--------------------------- MODULE ControlScript ----------------------------
(***************************************************************************)
(* http/http_ctl.sh, run by several operators at once in the directory of  *)
(* the server.  A start runs httpd in the foreground: the process ids are  *)
(* written to the pid file only after that httpd has ended (lines 29, 30), *)
(* and they are those of whatever other httpd is running then.  An httpd   *)
(* that does not get the port goes on running (httpd.c, lines 59, 124).    *)
(*                                                                         *)
(* A process id is given to another program once its process has ended.    *)
(***************************************************************************)
EXTENDS Integers

CONSTANTS
  Operator,  \* runs of the script
  Pid        \* process ids of httpd, and of others later on

ASSUME ControlScriptAssumption == Pid \subseteq Nat \ {0}

VARIABLES
  script,    \* where the script of each operator is
  todo,      \* restart has its start still to come
  pids,      \* the process ids the script has, from its httpd, pidof or cat
  holder,    \* what each process id belongs to
  bound,     \* the httpd that has the port
  PidFile,   \* the process ids in the pid file, or NoFile
  rivals,    \* history: two starts were on their way at the same time
  ended,     \* history: a server ended although no stop had killed it
  noted,     \* history: and one of them was in the file, or in a script's hands
  overlap,   \* history: two scripts were after the pid file
  shotOther  \* history: kill -9 has hit something else than httpd

ctlVars ==
  <<script, todo, pids, holder, bound, PidFile, rivals, ended, noted, overlap, shotOther>>

NoFile == {0}

Starting == {"launch", "run", "pidof", "write"}
Touching == {"write", "kill", "rm"}
ScriptPlaces == {"idle", "start", "launch", "run", "pidof", "write", "stop", "cat", "kill", "rm"}

CtlInit ==
  /\ script = [o \in Operator |-> "idle"] /\ todo = [o \in Operator |-> FALSE]
  /\ pids = [o \in Operator |-> {}]
  /\ holder = [p \in Pid |-> "free"] /\ bound = {}
  /\ PidFile = NoFile
  /\ rivals = FALSE /\ ended = FALSE /\ noted = FALSE /\ overlap = FALSE /\ shotOther = FALSE

Running == {p \in Pid : holder[p] = "httpd"}

\* An httpd that has ended keeps its process id until its script has seen it.
Free(p) == holder[p] = "free" /\ \A o \in Operator : script[o] = "run" => p \notin pids[o]

Several(places) == \E x, y \in Operator : x # y /\ {script'[x], script'[y]} \subseteq places

Goes(o, there) ==
  /\ script' = [script EXCEPT ![o] = there]
  /\ rivals' = (rivals \/ Several(Starting))
  /\ overlap' = (overlap \/ Several(Touching))

-----------------------------------------------------------------------------
(* The command line: start, stop or restart.                               *)

Command(o) ==
  /\ script[o] = "idle"
  /\ \E c \in {"start", "stop", "restart"} :
       /\ Goes(o, IF c = "start" THEN "start" ELSE "stop")
       /\ todo' = [todo EXCEPT ![o] = (c = "restart")]
       /\ pids' = [pids EXCEPT ![o] = {}]
  /\ UNCHANGED <<holder, bound, PidFile, ended, noted, shotOther>>

\* With a pid file nothing is started; `cat $pid' reads the standard input then,
\* and comes back at its end, unless a stop has set pid.
StartTest(o) ==
  /\ script[o] = "start"
  /\ Goes(o, IF PidFile # NoFile THEN "idle" ELSE "launch")
  /\ UNCHANGED <<todo, pids, holder, bound, PidFile, ended, noted, shotOther>>

\* The script waits for its httpd, whether or not that gets the port: when bind
\* fails echo_code, called before exit, asks for a line of a socket that is not
\* connected, again and again.
Launch(o) ==
  /\ script[o] = "launch"
  /\ \E p \in Pid :
       /\ Free(p)
       /\ pids' = [pids EXCEPT ![o] = {p}]
       /\ holder' = [holder EXCEPT ![p] = "httpd"]
       /\ bound' = IF bound = {} THEN {p} ELSE bound
  /\ Goes(o, "run")
  /\ UNCHANGED <<todo, PidFile, ended, noted, shotOther>>

\* Its httpd has ended.
WaitsFor(o) ==
  /\ script[o] = "run" /\ pids[o] \intersect Running = {}
  /\ Goes(o, "pidof")
  /\ UNCHANGED <<todo, pids, holder, bound, PidFile, ended, noted, shotOther>>

\* The pid file is emptied, and pidof looks for others.
PidOf(o) ==
  /\ script[o] = "pidof"
  /\ PidFile' = {}
  /\ pids' = [pids EXCEPT ![o] = Running]
  /\ Goes(o, "write")
  /\ UNCHANGED <<todo, holder, bound, ended, noted, shotOther>>

\* When pidof has found nothing, nothing is written.
WritePid(o) ==
  /\ script[o] = "write"
  /\ PidFile' = IF pids[o] = {} THEN PidFile ELSE pids[o]
  /\ Goes(o, "idle")
  /\ UNCHANGED <<todo, pids, holder, bound, ended, noted, shotOther>>

-----------------------------------------------------------------------------
(* stop.                                                                   *)

\* A stop that finds no pid file stops nothing; a restart goes on to the start.
StopTest(o) ==
  /\ script[o] = "stop"
  /\ Goes(o, CASE PidFile # NoFile -> "cat"
               [] PidFile = NoFile /\ todo[o] -> "start"
               [] OTHER -> "idle")
  /\ UNCHANGED <<todo, pids, holder, bound, PidFile, ended, noted, shotOther>>

\* The file may have gone since it was tested for.
StopCat(o) ==
  /\ script[o] = "cat"
  /\ pids' = [pids EXCEPT ![o] = PidFile \intersect Pid]
  /\ Goes(o, "kill")
  /\ UNCHANGED <<todo, holder, bound, PidFile, ended, noted, shotOther>>

\* kill -9 of all the process ids there were in the file.
Kill(o) ==
  /\ script[o] = "kill"
  /\ shotOther' = (shotOther \/ \E p \in pids[o] : holder[p] = "other")
  /\ holder' = [p \in Pid |-> IF p \in pids[o] THEN "free" ELSE holder[p]]
  /\ bound' = bound \ pids[o]
  /\ Goes(o, "rm")
  /\ UNCHANGED <<todo, pids, PidFile, ended, noted>>

\* Faulty: the pid file stays.
RemoveNot(o) ==
  /\ script[o] = "rm"
  /\ Goes(o, IF todo[o] THEN "start" ELSE "idle")
  /\ UNCHANGED <<todo, pids, holder, bound, PidFile, ended, noted, shotOther>>

\* Who has opened the file and not written yet writes to one that is gone.
Remove(o) ==
  /\ script[o] = "rm"
  /\ PidFile' = NoFile
  /\ script' = [x \in Operator |->
                 IF x = o THEN IF todo[o] THEN "start" ELSE "idle"
                 ELSE IF script[x] = "write" THEN "idle" ELSE script[x]]
  /\ UNCHANGED <<todo, pids, holder, bound, rivals, ended, noted, overlap, shotOther>>

-----------------------------------------------------------------------------
(* Around the script.                                                      *)

ServerEnds(p) ==
  /\ holder[p] = "httpd"
  /\ holder' = [holder EXCEPT ![p] = "free"] /\ bound' = bound \ {p}
  /\ ended' = TRUE
  /\ noted' = (noted \/ p \in PidFile
                    \/ \E o \in Operator : script[o] \in {"write", "kill"} /\ p \in pids[o])
  /\ UNCHANGED <<script, todo, pids, PidFile, rivals, overlap, shotOther>>

\* A process id that is free goes to another program, or becomes free again.
PidTaken(p) ==
  /\ Free(p) \/ holder[p] = "other"
  /\ holder' = [holder EXCEPT ![p] = IF holder[p] = "free" THEN "other" ELSE "free"]
  /\ UNCHANGED <<script, todo, pids, bound, PidFile, rivals, ended, noted, overlap, shotOther>>

Script(o) ==
  \/ StartTest(o) \/ Launch(o) \/ WaitsFor(o) \/ PidOf(o) \/ WritePid(o)
  \/ StopTest(o) \/ StopCat(o) \/ Kill(o) \/ Remove(o)

CtlNext ==
  \/ \E o \in Operator : Command(o) \/ Script(o)
  \/ \E p \in Pid : ServerEnds(p) \/ PidTaken(p)

CtlSpec == CtlInit /\ [][CtlNext]_ctlVars

-----------------------------------------------------------------------------
(* Properties.                                                             *)

\* What the pid file says of the servers: there is one server for every script
\* that waits for one, and at most one has the port; there is no file until a
\* server has ended that no stop killed (lines 29, 30), so that stop finds
\* nothing to do; and the file names a process only when, besides, a second
\* start was on its way, whose server may be one that never got the port.
NameNeedsRival ==
  /\ script \in [Operator -> ScriptPlaces]
  /\ bound \subseteq Running /\ \A p, q \in bound : p = q
  /\ \A p \in Running : \E o \in Operator : script[o] = "run" /\ pids[o] = {p}
  /\ PidFile # NoFile => ended
  /\ PidFile \notin {NoFile, {}} => rivals /\ ended

\* kill -9 (line 41) hits another program only when a server has ended by itself
\* after pidof had found it, or when two scripts were after the pid file at once:
\* what is written, read, killed and removed otherwise is up to date.
KillsOnlyServers == shotOther => noted \/ overlap

\* As long as there is one script of it, stop stops servers and nothing else,
\* if it stops anything.
ScriptSafe == NameNeedsRival /\ KillsOnlyServers
=============================================================================
