--------------------------- MODULE TerminalProofs ---------------------------
(***************************************************************************)
(* Theorems about the programs at a terminal, for any number of operators, *)
(* process ids, users and rows.                                            *)
(***************************************************************************)
EXTENDS UdpClient, ChatClient, ControlScript, Sniffer, WeatherShow, SequenceTheorems,
        FiniteSetTheorems, TLAPS

-----------------------------------------------------------------------------
(* The control script.                                                     *)

CtlType ==
  /\ script \in [Operator -> ScriptPlaces]
  /\ pids \in [Operator -> SUBSET Pid]
  /\ holder \in [Pid -> {"free", "other", "httpd"}]
  /\ bound \subseteq Running
  /\ PidFile \in SUBSET (Pid \union {0})
  /\ rivals \in BOOLEAN /\ ended \in BOOLEAN /\ noted \in BOOLEAN
  /\ overlap \in BOOLEAN /\ shotOther \in BOOLEAN

\* Two scripts that are starting, or at the pid file, are on record.
Apart ==
  \A x, y \in Operator : x # y =>
    /\ script[x] \in Starting /\ script[y] \in Starting => rivals
    /\ script[x] \in Touching /\ script[y] \in Touching => overlap

\* Who has the port is one process; every server's script waits for it.
Waited ==
  /\ \A p, q \in bound : p = q
  /\ \A p \in Running : \E x \in Operator : script[x] = "run" /\ pids[x] = {p}

\* Until two starts meet, nobody has a process id to write.
Unnamed ==
  ~rivals =>
    /\ PidFile \in {NoFile, {}}
    /\ \A o \in Operator : script[o] = "write" => pids[o] = {}

\* Until a server ends that no stop has killed, the starts wait for theirs:
\* there is no file, and nobody has come to write, read or remove it.
Unended ==
  ~ended =>
    /\ PidFile = NoFile
    /\ \A o \in Operator : script[o] \notin {"pidof", "write", "cat", "kill", "rm"}
    /\ \A o \in Operator : script[o] = "run" => pids[o] # {} /\ pids[o] \subseteq Running

\* Until a server ends by itself that pidof had found, or two scripts meet at
\* the pid file, what is written, killed and named in the file is an httpd, but
\* for the file that somebody is about to remove.
Fresh ==
  (~noted /\ ~overlap) =>
    /\ ~shotOther
    /\ \A o \in Operator : script[o] \in {"write", "kill"} => pids[o] \subseteq Running
    /\ (\E o \in Operator : script[o] = "rm") \/ PidFile \intersect Pid \subseteq Running

CtlInv == CtlType /\ Apart /\ Waited /\ Unnamed /\ Unended /\ Fresh

\* A step of a script that goes from one place to another keeps Apart.
LEMMA GoesApart ==
  ASSUME CtlType, Apart, NEW o \in Operator, NEW there \in ScriptPlaces, Goes(o, there)
  PROVE  /\ script' \in [Operator -> ScriptPlaces] /\ script'[o] = there
         /\ \A x \in Operator : x # o => script'[x] = script[x]
         /\ rivals' \in BOOLEAN /\ overlap' \in BOOLEAN
         /\ (rivals => rivals') /\ (overlap => overlap')
         /\ Apart'
<1>1. /\ script' \in [Operator -> ScriptPlaces] /\ script'[o] = there
      /\ \A x \in Operator : x # o => script'[x] = script[x]
  BY DEF Goes, CtlType
<1>2. /\ rivals' \in BOOLEAN /\ overlap' \in BOOLEAN
      /\ (rivals => rivals') /\ (overlap => overlap')
  BY Zenon DEF Goes
<1>3. Several(Starting) => rivals'
  BY Zenon DEF Goes
<1>4. Several(Touching) => overlap'
  BY Zenon DEF Goes
<1>5. ASSUME NEW x \in Operator, NEW y \in Operator, x # y
      PROVE  /\ script'[x] \in Starting /\ script'[y] \in Starting => rivals'
             /\ script'[x] \in Touching /\ script'[y] \in Touching => overlap'
  <2>1. script'[x] \in Starting /\ script'[y] \in Starting => Several(Starting)
    BY <1>5 DEF Several
  <2>2. script'[x] \in Touching /\ script'[y] \in Touching => Several(Touching)
    BY <1>5 DEF Several
  <2>. QED BY <2>1, <2>2, <1>3, <1>4
<1>. QED BY <1>1, <1>2, <1>5 DEF Apart

LEMMA CtlInitial == CtlInit => CtlInv
<1>. SUFFICES ASSUME CtlInit PROVE CtlInv
  OBVIOUS
<1>1. CtlType
  BY DEF CtlInit, CtlType, Running, ScriptPlaces, NoFile
<1>2. Apart
  BY DEF CtlInit, Apart, Starting, Touching
<1>3. Waited /\ Unnamed
  BY DEF CtlInit, Waited, Unnamed, Running
<1>4. Fresh
  BY ControlScriptAssumption DEF CtlInit, Fresh, NoFile
<1>5. Unended
  BY DEF CtlInit, Unended
<1>. QED BY <1>1, <1>2, <1>3, <1>4, <1>5 DEF CtlInv

LEMMA CtlStep == CtlInv /\ [CtlNext]_ctlVars => CtlInv'
<1>. SUFFICES ASSUME CtlInv, [CtlNext]_ctlVars PROVE CtlInv'
  OBVIOUS
<1>. USE DEF CtlInv
<1>1. ASSUME NEW o \in Operator, Command(o) PROVE CtlInv'
  <2>1. PICK there \in {"start", "stop"} : Goes(o, there)
    BY <1>1 DEF Command
  <2>2. /\ script' \in [Operator -> ScriptPlaces] /\ script'[o] = there
        /\ \A x \in Operator : x # o => script'[x] = script[x]
        /\ rivals' \in BOOLEAN /\ overlap' \in BOOLEAN
        /\ (rivals => rivals') /\ (overlap => overlap')
        /\ Apart'
    BY <2>1, GoesApart DEF ScriptPlaces
  <2>3. CtlType'
    BY <2>2, <1>1 DEF Command, CtlType, Running
  <2>4. Waited'
    BY <2>2, <1>1 DEF Command, Waited, CtlType, Running, Free
  <2>5. Unnamed'
    BY <2>2, <1>1 DEF Command, Unnamed, CtlType, NoFile
  <2>6. Fresh'
    BY <2>2, <1>1 DEF Command, Fresh, CtlType, Running
  <2>7. Unended'
    BY <2>2, <1>1 DEF Command, Unended, CtlType, Running, NoFile
  <2>. QED BY <2>2, <2>3, <2>4, <2>5, <2>6, <2>7
<1>2. ASSUME NEW o \in Operator, StartTest(o) PROVE CtlInv'
  <2>1. PICK there \in {"idle", "launch"} : Goes(o, there)
    BY <1>2 DEF StartTest
  <2>2. /\ script' \in [Operator -> ScriptPlaces] /\ script'[o] = there
        /\ \A x \in Operator : x # o => script'[x] = script[x]
        /\ rivals' \in BOOLEAN /\ overlap' \in BOOLEAN
        /\ (rivals => rivals') /\ (overlap => overlap')
        /\ Apart'
    BY <2>1, GoesApart DEF ScriptPlaces
  <2>3. CtlType'
    BY <2>2, <1>2 DEF StartTest, CtlType, Running
  <2>4. Waited'
    BY <2>2, <1>2 DEF StartTest, Waited, CtlType, Running, Free
  <2>5. Unnamed'
    BY <2>2, <1>2 DEF StartTest, Unnamed, CtlType, NoFile
  <2>6. Fresh'
    BY <2>2, <1>2 DEF StartTest, Fresh, CtlType, Running
  <2>7. Unended'
    BY <2>2, <1>2 DEF StartTest, Unended, CtlType, Running, NoFile
  <2>. QED BY <2>2, <2>3, <2>4, <2>5, <2>6, <2>7
<1>3. ASSUME NEW o \in Operator, Launch(o) PROVE CtlInv'
  <2>1. PICK there \in {"run"} : Goes(o, there)
    BY <1>3 DEF Launch
  <2>2. /\ script' \in [Operator -> ScriptPlaces] /\ script'[o] = there
        /\ \A x \in Operator : x # o => script'[x] = script[x]
        /\ rivals' \in BOOLEAN /\ overlap' \in BOOLEAN
        /\ (rivals => rivals') /\ (overlap => overlap')
        /\ Apart'
    BY <2>1, GoesApart DEF ScriptPlaces
  <2>0. PICK p \in Pid :
          /\ Free(p)
          /\ pids' = [pids EXCEPT ![o] = {p}]
          /\ holder' = [holder EXCEPT ![p] = "httpd"]
          /\ bound' = IF bound = {} THEN {p} ELSE bound
    BY <1>3 DEF Launch
  <2>3. Running' = Running \union {p} /\ CtlType'
    <3>1. Running' = Running \union {p}
      BY <2>0 DEF CtlType, Running
    <3>. QED BY <2>0, <2>2, <3>1, <1>3 DEF Launch, CtlType
  <2>4. Waited'
    <3>1. script[o] = "launch" /\ script'[o] = "run" /\ pids'[o] = {p}
          /\ \A x \in Operator : x # o => pids'[x] = pids[x]
      BY <2>0, <2>2, <1>3 DEF Launch, CtlType
    <3>. QED BY <2>0, <2>2, <2>3, <3>1 DEF Waited
  <2>5. Unnamed'
    BY <2>2, <1>3 DEF Launch, Unnamed, CtlType, NoFile
  <2>6. Fresh'
    <3>1. /\ noted' = noted /\ PidFile' = PidFile /\ shotOther' = shotOther
          /\ script[o] = "launch" /\ script'[o] = "run"
          /\ \A x \in Operator : x # o => pids'[x] = pids[x]
      BY <2>2, <1>3 DEF Launch, CtlType
    <3>. QED BY <2>2, <2>3, <3>1 DEF Fresh
  <2>7. Unended'
    <3>1. /\ ended' = ended /\ PidFile' = PidFile /\ script'[o] = "run" /\ pids'[o] = {p}
          /\ \A x \in Operator : x # o => pids'[x] = pids[x]
      BY <2>0, <2>2, <1>3 DEF Launch, CtlType
    <3>. QED BY <2>2, <2>3, <3>1 DEF Unended
  <2>. QED BY <2>2, <2>3, <2>4, <2>5, <2>6, <2>7
<1>4. ASSUME NEW o \in Operator, WaitsFor(o) PROVE CtlInv'
  <2>1. PICK there \in {"pidof"} : Goes(o, there)
    BY <1>4 DEF WaitsFor
  <2>2. /\ script' \in [Operator -> ScriptPlaces] /\ script'[o] = there
        /\ \A x \in Operator : x # o => script'[x] = script[x]
        /\ rivals' \in BOOLEAN /\ overlap' \in BOOLEAN
        /\ (rivals => rivals') /\ (overlap => overlap')
        /\ Apart'
    BY <2>1, GoesApart DEF ScriptPlaces
  <2>3. CtlType'
    BY <2>2, <1>4 DEF WaitsFor, CtlType, Running
  <2>4. Waited'
    BY <2>2, <1>4 DEF WaitsFor, Waited, CtlType, Running, Free
  <2>5. Unnamed'
    BY <2>2, <1>4 DEF WaitsFor, Unnamed, CtlType, NoFile
  <2>6. Fresh'
    BY <2>2, <1>4 DEF WaitsFor, Fresh, CtlType, Running
  <2>7. Unended'
    BY <2>2, <1>4 DEF WaitsFor, Unended, CtlType, Running, NoFile
  <2>. QED BY <2>2, <2>3, <2>4, <2>5, <2>6, <2>7
<1>5. ASSUME NEW o \in Operator, PidOf(o) PROVE CtlInv'
  <2>1. PICK there \in {"write"} : Goes(o, there)
    BY <1>5 DEF PidOf
  <2>2. /\ script' \in [Operator -> ScriptPlaces] /\ script'[o] = there
        /\ \A x \in Operator : x # o => script'[x] = script[x]
        /\ rivals' \in BOOLEAN /\ overlap' \in BOOLEAN
        /\ (rivals => rivals') /\ (overlap => overlap')
        /\ Apart'
    BY <2>1, GoesApart DEF ScriptPlaces
  <2>3. CtlType'
    BY <2>2, <1>5 DEF PidOf, CtlType, Running
  <2>4. Waited'
    BY <2>2, <1>5 DEF PidOf, Waited, CtlType, Running, Free
  <2>5. Unnamed'
    <3>1. ~rivals' => Running = {}
      BY <2>2, <1>5 DEF PidOf, Waited, Apart, CtlType, Starting
    <3>. QED BY <2>2, <3>1, <1>5 DEF PidOf, Unnamed, CtlType
  <2>6. Fresh'
    BY <2>2, <1>5 DEF PidOf, Fresh, CtlType, Running
  <2>7. Unended'
    BY <2>2, <1>5 DEF PidOf, Unended, CtlType, Running, NoFile
  <2>. QED BY <2>2, <2>3, <2>4, <2>5, <2>6, <2>7
<1>6. ASSUME NEW o \in Operator, WritePid(o) PROVE CtlInv'
  <2>1. PICK there \in {"idle"} : Goes(o, there)
    BY <1>6 DEF WritePid
  <2>2. /\ script' \in [Operator -> ScriptPlaces] /\ script'[o] = there
        /\ \A x \in Operator : x # o => script'[x] = script[x]
        /\ rivals' \in BOOLEAN /\ overlap' \in BOOLEAN
        /\ (rivals => rivals') /\ (overlap => overlap')
        /\ Apart'
    BY <2>1, GoesApart DEF ScriptPlaces
  <2>3. CtlType'
    BY <2>2, <1>6 DEF WritePid, CtlType, Running
  <2>4. Waited'
    BY <2>2, <1>6 DEF WritePid, Waited, CtlType, Running, Free
  <2>5. Unnamed'
    BY <2>2, <1>6 DEF WritePid, Unnamed, CtlType, NoFile
  <2>6. Fresh'
    BY <2>2, <1>6 DEF WritePid, Fresh, CtlType, Running
  <2>7. Unended'
    BY <2>2, <1>6 DEF WritePid, Unended, CtlType, Running, NoFile
  <2>. QED BY <2>2, <2>3, <2>4, <2>5, <2>6, <2>7
<1>7. ASSUME NEW o \in Operator, StopTest(o) PROVE CtlInv'
  <2>1. PICK there \in {"cat", "start", "idle"} : Goes(o, there)
    BY <1>7 DEF StopTest
  <2>2. /\ script' \in [Operator -> ScriptPlaces] /\ script'[o] = there
        /\ \A x \in Operator : x # o => script'[x] = script[x]
        /\ rivals' \in BOOLEAN /\ overlap' \in BOOLEAN
        /\ (rivals => rivals') /\ (overlap => overlap')
        /\ Apart'
    BY <2>1, GoesApart DEF ScriptPlaces
  <2>3. CtlType'
    BY <2>2, <1>7 DEF StopTest, CtlType, Running
  <2>4. Waited'
    BY <2>2, <1>7 DEF StopTest, Waited, CtlType, Running, Free
  <2>5. Unnamed'
    BY <2>2, <1>7 DEF StopTest, Unnamed, CtlType, NoFile
  <2>6. Fresh'
    BY <2>2, <1>7 DEF StopTest, Fresh, CtlType, Running
  <2>7. Unended'
    <3>1. Running' = Running /\ PidFile' = PidFile /\ pids' = pids /\ ended' = ended
      BY <1>7 DEF StopTest, Running
    <3>2. PidFile = NoFile => script'[o] \in {"start", "idle"}
      BY <2>2, <1>7 DEF StopTest, Goes, CtlType
    <3>. QED BY <2>2, <3>1, <3>2 DEF Unended
  <2>. QED BY <2>2, <2>3, <2>4, <2>5, <2>6, <2>7
<1>8. ASSUME NEW o \in Operator, StopCat(o) PROVE CtlInv'
  <2>1. PICK there \in {"kill"} : Goes(o, there)
    BY <1>8 DEF StopCat
  <2>2. /\ script' \in [Operator -> ScriptPlaces] /\ script'[o] = there
        /\ \A x \in Operator : x # o => script'[x] = script[x]
        /\ rivals' \in BOOLEAN /\ overlap' \in BOOLEAN
        /\ (rivals => rivals') /\ (overlap => overlap')
        /\ Apart'
    BY <2>1, GoesApart DEF ScriptPlaces
  <2>3. CtlType'
    BY <2>2, <1>8 DEF StopCat, CtlType, Running
  <2>4. Waited'
    BY <2>2, <1>8 DEF StopCat, Waited, CtlType, Running, Free
  <2>5. Unnamed'
    BY <2>2, <1>8 DEF StopCat, Unnamed, CtlType, NoFile
  <2>6. Fresh'
    <3>1. ASSUME ~overlap' PROVE \A x \in Operator : script[x] # "rm"
      BY <2>2, <3>1, <1>8 DEF StopCat, Apart, Touching
    <3>2. Running' = Running
      BY <1>8 DEF StopCat, Running
    <3>3. /\ noted' = noted /\ PidFile' = PidFile /\ shotOther' = shotOther
          /\ pids'[o] = PidFile \intersect Pid
          /\ \A x \in Operator : x # o => pids'[x] = pids[x]
      BY <1>8 DEF StopCat, CtlType
    <3>. QED BY <2>2, <3>1, <3>2, <3>3 DEF Fresh
  <2>7. Unended'
    BY <2>2, <1>8 DEF StopCat, Unended, CtlType, Running, NoFile
  <2>. QED BY <2>2, <2>3, <2>4, <2>5, <2>6, <2>7
<1>9. ASSUME NEW o \in Operator, Kill(o) PROVE CtlInv'
  <2>1. PICK there \in {"rm"} : Goes(o, there)
    BY <1>9 DEF Kill
  <2>2. /\ script' \in [Operator -> ScriptPlaces] /\ script'[o] = there
        /\ \A x \in Operator : x # o => script'[x] = script[x]
        /\ rivals' \in BOOLEAN /\ overlap' \in BOOLEAN
        /\ (rivals => rivals') /\ (overlap => overlap')
        /\ Apart'
    BY <2>1, GoesApart DEF ScriptPlaces
  <2>3. CtlType'
    BY <2>2, <1>9 DEF Kill, CtlType, Running
  <2>4. Waited'
    BY <2>2, <1>9 DEF Kill, Waited, CtlType, Running, Free
  <2>5. Unnamed'
    BY <2>2, <1>9 DEF Kill, Unnamed, CtlType, NoFile
  <2>6. Fresh'
    <3>1. ASSUME ~overlap' PROVE \A x \in Operator : x # o => script[x] \notin {"write", "kill"}
      BY <2>2, <3>1, <1>9 DEF Kill, Apart, Touching
    <3>2. script[o] = "kill" /\ script'[o] = "rm" /\ noted' = noted
      BY <2>2, <1>9 DEF Kill
    <3>3. ASSUME ~noted, ~overlap PROVE ~shotOther'
      BY <3>2, <3>3, <1>9 DEF Kill, Fresh, Running
    <3>. QED BY <2>2, <3>1, <3>2, <3>3 DEF Fresh
  <2>7. Unended'
    BY <2>2, <1>9 DEF Kill, Unended, CtlType, Running, NoFile
  <2>. QED BY <2>2, <2>3, <2>4, <2>5, <2>6, <2>7
<1>10. ASSUME NEW o \in Operator, Remove(o) PROVE CtlInv'
  <2>1. /\ script' \in [Operator -> ScriptPlaces]
        /\ script'[o] \in {"start", "idle"}
        /\ \A x \in Operator : x # o => script'[x] \in {script[x], "idle"}
        /\ \A x \in Operator : x # o /\ script[x] # "write" => script'[x] = script[x]
        /\ \A x \in Operator : script'[x] # "write"
    BY <1>10 DEF Remove, CtlType, ScriptPlaces
  <2>2. CtlType'
    BY <2>1, <1>10 DEF Remove, CtlType, Running, NoFile
  <2>3. Apart'
    BY <2>1, <1>10 DEF Remove, Apart, Starting, Touching
  <2>4. Waited'
    <3>1. Running' = Running /\ \A x \in Operator : script[x] = "run" => script'[x] = "run"
      BY <2>1, <1>10 DEF Remove, Running
    <3>. QED BY <3>1, <1>10 DEF Remove, Waited
  <2>5. Unnamed'
    BY <2>1, <1>10 DEF Remove, Unnamed
  <2>6. Fresh'
    BY <2>1, <1>10, ControlScriptAssumption DEF Remove, Fresh, NoFile, Running
  <2>7. Unended'
    BY <2>1, <1>10 DEF Remove, Unended
  <2>. QED BY <2>2, <2>3, <2>4, <2>5, <2>6, <2>7
<1>11. ASSUME NEW p \in Pid, ServerEnds(p) PROVE CtlInv'
  <2>1. Running' = Running \ {p}
    BY <1>11 DEF ServerEnds, CtlType, Running
  <2>2. CtlType'
    <3>1. noted' \in BOOLEAN
      BY <1>11, Zenon DEF ServerEnds
    <3>. QED BY <2>1, <3>1, <1>11 DEF ServerEnds, CtlType
  <2>3. Apart' /\ Waited' /\ Unnamed' /\ Unended'
    BY <2>1, <1>11 DEF ServerEnds, Apart, Waited, Unnamed, Unended
  <2>4. Fresh'
    <3>1. ASSUME ~noted'
          PROVE  /\ ~noted /\ p \notin PidFile
                 /\ \A o \in Operator : script[o] \in {"write", "kill"} => p \notin pids[o]
      BY <3>1, <1>11, Zenon DEF ServerEnds
    <3>. QED BY <2>1, <3>1, <1>11 DEF ServerEnds, Fresh
  <2>. QED BY <2>2, <2>3, <2>4
<1>12. ASSUME NEW p \in Pid, PidTaken(p) PROVE CtlInv'
  <2>1. Running' = Running
    BY <1>12 DEF PidTaken, CtlType, Running, Free
  <2>2. CtlType'
    BY <2>1, <1>12 DEF PidTaken, CtlType, Free
  <2>3. Apart' /\ Waited' /\ Unnamed' /\ Unended' /\ Fresh'
    BY <2>1, <1>12 DEF PidTaken, Apart, Waited, Unnamed, Unended, Fresh
  <2>. QED BY <2>2, <2>3
<1>13. CASE UNCHANGED ctlVars
  BY <1>13 DEF ctlVars, CtlType, Apart, Waited, Unnamed, Unended, Fresh, Running
<1>. QED
  BY <1>1, <1>2, <1>3, <1>4, <1>5, <1>6, <1>7, <1>8, <1>9, <1>10, <1>11, <1>12, <1>13
     DEF CtlNext, Script

\* The control script, whatever the operators do and however many they are:
\* every server has a script waiting for it, whether or not it got the port;
\* there is no pid file until a server has ended that no stop killed, and it
\* names a process only if, besides, two starts were on their way at once
\* (http_ctl.sh, lines 29, 30); kill -9 hits something else than httpd only when
\* a server that pidof had found has ended by itself, or two scripts were at the
\* pid file at once (line 41).
THEOREM ScriptStopsItsOwn == CtlSpec => []ScriptSafe
<1>1. CtlInv => NameNeedsRival
  BY DEF CtlInv, CtlType, Waited, Unnamed, Unended, NoFile, NameNeedsRival
<1>2. CtlInv => KillsOnlyServers
  BY DEF CtlInv, CtlType, Fresh, KillsOnlyServers
<1>. QED BY <1>1, <1>2, CtlInitial, CtlStep, PTL DEF CtlSpec, ScriptSafe

-----------------------------------------------------------------------------
(* The UDP client.                                                         *)

\* The remainders of ListUser: the row behind row s, and the one k + 1 before it.
Rows == ListRows - 1
After(s) == IF s + 1 = Rows THEN 0 ELSE s + 1
Before(s, k) == IF s - 1 - k >= 0 THEN s - 1 - k ELSE s - 1 - k + Rows

\* x stands for a number of rows below twice their number, in either direction.
LEMMA RowWraps ==
  ASSUME NEW m \in Nat \ {0}, NEW x \in Int
  PROVE  /\ (x >= 0 /\ x < m) => x % m = x
         /\ x = m => x % m = 0
         /\ (x < 0 /\ x + m >= 0) => x % m = x + m
<1>1. CASE x >= 0 /\ x < m
  BY <1>1
<1>2. CASE x = m
  BY <1>2
<1>3. CASE x < 0 /\ x + m >= 0
  BY <1>3
<1>. QED BY <1>1, <1>2, <1>3

LEMMA RowAfter ==
  ASSUME NEW s \in 0 .. Rows - 1
  PROVE  (s + 1) % Rows = After(s) /\ After(s) \in 0 .. Rows - 1
<1>1. Rows \in Nat \ {0, 1} /\ s \in Int /\ s + 1 \in Int
  BY UdpClientAssumption DEF Rows
<1>2. s + 1 < Rows \/ s + 1 = Rows
  BY <1>1
<1>3. After(s) \in 0 .. Rows - 1
  BY <1>1, <1>2 DEF After
<1>4. CASE s + 1 < Rows
  BY <1>1, <1>3, <1>4, RowWraps DEF After
<1>5. CASE s + 1 = Rows
  BY <1>1, <1>3, <1>5, RowWraps DEF After
<1>. QED BY <1>2, <1>4, <1>5

LEMMA RowBefore ==
  ASSUME NEW s \in 0 .. Rows - 1, NEW k \in 0 .. Rows - 1
  PROVE  (s - 1 - k) % Rows = Before(s, k) /\ Before(s, k) \in 0 .. Rows - 1
<1>1. Rows \in Nat \ {0, 1} /\ s \in Int /\ k \in Int /\ s - 1 - k \in Int
  BY UdpClientAssumption DEF Rows
<1>2. Before(s, k) \in 0 .. Rows - 1
  BY <1>1 DEF Before
<1>3. CASE s - 1 - k >= 0
  BY <1>1, <1>2, <1>3, RowWraps DEF Before
<1>4. CASE s - 1 - k < 0
  <2>1. s - 1 - k + Rows >= 0
    BY <1>1
  <2>. QED BY <1>1, <1>2, <1>4, <2>1, RowWraps DEF Before
<1>. QED BY <1>1, <1>3, <1>4

\* FriendsInRows without remainders; the rows of two of them differ.
ListInv ==
  /\ recent \in Seq(Shown) /\ Len(recent) <= Rows /\ step_f \in 0 .. Rows - 1
  /\ friends \in [0 .. ListRows - 1 -> Shown]
  /\ \A k \in 0 .. Len(recent) - 1 : friends[Before(step_f, k)] = recent[Len(recent) - k]

\* A user is put into the next row, and the one that has been listed longest is
\* forgotten when all rows are taken.
LEMMA PutInRow ==
  ASSUME ListInv, NEW who \in Shown,
         friends' = putstrTowin(step_f, who), step_f' = After(step_f),
         recent' = Newest(Append(recent, who))
  PROVE  ListInv'
<1>. DEFINE L == Len(recent)
            long == Append(recent, who)
<1>1. Rows \in Nat \ {0, 1} /\ ListRows = Rows + 1 /\ L \in Nat
  BY UdpClientAssumption DEF Rows, ListInv
<1>2. step_f' \in 0 .. Rows - 1
  BY RowAfter DEF ListInv
<1>3. /\ friends' \in [0 .. ListRows - 1 -> Shown] /\ friends'[step_f] = who
      /\ \A r \in 0 .. ListRows - 1 : r # step_f => friends'[r] = friends[r]
  BY <1>1 DEF ListInv, putstrTowin
<1>4. /\ long \in Seq(Shown) /\ Len(long) = L + 1 /\ long[L + 1] = who
      /\ \A n \in 1 .. L : long[n] = recent[n]
  BY DEF ListInv
<1>. HIDE DEF long
<1>5. /\ recent' \in Seq(Shown) /\ Len(recent') \in Nat /\ Len(recent') <= Rows
      /\ Len(recent') <= L + 1
      /\ \A k \in 0 .. Len(recent') - 1 : recent'[Len(recent') - k] = long[L + 1 - k]
  <2>1. CASE Len(long) < ListRows
    <3>1. recent' = long
      BY <2>1 DEF Newest, long
    <3>. QED BY <1>1, <1>4, <2>1, <3>1
  <2>2. CASE ~(Len(long) < ListRows)
    <3>1. recent' = Tail(long)
      BY <2>2 DEF Newest, long
    <3>2. L = Rows
      BY <1>1, <1>4, <2>2 DEF ListInv
    <3>3. long # <<>> /\ Len(long) \in Nat \ {0}
      BY <1>1, <1>4
    <3>4. /\ Tail(long) \in Seq(Shown) /\ Len(Tail(long)) = L
          /\ \A n \in 1 .. L : Tail(long)[n] = long[n + 1]
      BY <1>1, <1>4, <3>3
    <3>. QED BY <1>1, <1>4, <3>1, <3>2, <3>4
  <2>. QED BY <2>1, <2>2
<1>6. ASSUME NEW k \in 0 .. Len(recent') - 1
      PROVE  friends'[Before(step_f', k)] = recent'[Len(recent') - k]
  <2>1. k \in Nat /\ k <= Rows - 1 /\ step_f \in Nat /\ step_f <= Rows - 1
    BY <1>1, <1>5 DEF ListInv
  <2>2. CASE k = 0
    <3>1. Before(step_f', 0) = step_f
      BY <1>1, <2>1 DEF Before, After
    <3>2. recent'[Len(recent') - 0] = long[L + 1 - 0]
      BY <1>5, <2>2
    <3>3. L + 1 - 0 = L + 1
      BY <1>1
    <3>. QED BY <1>3, <1>4, <2>2, <3>1, <3>2, <3>3
  <2>3. CASE k >= 1
    <3>1. Before(step_f', k) = Before(step_f, k - 1) /\ Before(step_f, k - 1) # step_f
      BY <1>1, <2>1, <2>3 DEF Before, After
    <3>2. k - 1 \in 0 .. L - 1 /\ k - 1 \in 0 .. Rows - 1
      BY <1>1, <1>5, <2>1, <2>3
    <3>3. Before(step_f, k - 1) \in 0 .. ListRows - 1
      <4>1. step_f \in 0 .. Rows - 1
        BY DEF ListInv
      <4>2. Before(step_f, k - 1) \in 0 .. Rows - 1
        BY <3>2, <4>1, RowBefore
      <4>. QED BY <1>1, <4>2
    <3>4. friends[Before(step_f, k - 1)] = recent[L - (k - 1)]
      BY <3>2 DEF ListInv
    <3>5. L - (k - 1) = L + 1 - k /\ L + 1 - k \in 1 .. L
      BY <1>1, <2>1, <3>2
    <3>. QED BY <1>3, <1>4, <1>5, <3>1, <3>3, <3>4, <3>5
  <2>. QED BY <2>1, <2>2, <2>3
<1>. QED BY <1>1, <1>2, <1>3, <1>5, <1>6 DEF ListInv

\* Between its removal and its return (lines 106, 125) only the user whose
\* message is shown can be missing.
ListedInv ==
  /\ typing = "starting" => op = "starting"
  /\ op \in {"starting", "recv", "erase", "list"}
  /\ op # "list" => users = heard
  /\ op = "list" => (users \subseteq heard /\ heard \subseteq users \union {msg.who})

\* A QUIT that main has sent is the last thing it does: main is in the handler.
QuitInv ==
  "main" \in fate => (lastSent = "QUIT" /\ handler.in = "main" /\ handler.at = "exit")

UdpInv == UdpTypeOK /\ ListInv /\ ListedInv /\ QuitInv

\* RecvData, ShowMessage and ListUser, of whatever message it is.
LEMMA OutputTypes ==
  ASSUME UdpTypeOK, ListInv, ListedInv, RecvData \/ ShowMessage \/ ListUser
  PROVE  UdpTypeOK' /\ ListInv'
<1>. USE UdpClientAssumption
<1>1. CASE RecvData
  BY <1>1 DEF RecvData, UdpTypeOK, ListInv, sendVars
<1>2. CASE ShowMessage
  <2>1. (step + 1) % (OutRows - 1) \in 0 .. OutRows - 2
    <3>1. step + 1 \in Int /\ OutRows - 1 \in Nat \ {0}
      BY DEF UdpTypeOK
    <3>. QED BY <3>1
  <2>2. step' \in 0 .. OutRows - 2 \union {1}
    BY <1>2, <2>1 DEF ShowMessage
  <2>3. users' \subseteq Shown
    BY <1>2 DEF ShowMessage, UdpTypeOK
  <2>. QED BY <1>2, <2>2, <2>3 DEF ShowMessage, UdpTypeOK, ListInv, sendVars
<1>3. CASE ListUser
  <2>1. msg.who \in Shown
    BY DEF UdpTypeOK, Message, Shown
  <2>2. /\ users' \subseteq Shown /\ heard' \subseteq Shown /\ op' = "recv"
        /\ UNCHANGED <<msg, step, index, sendVars>>
    BY <1>3, <2>1 DEF ListUser, UdpTypeOK
  <2>3. ListInv'
    <3>1. CASE msg.who \in users
      BY <1>3, <3>1 DEF ListUser, ListInv
    <3>2. CASE msg.who \notin users
      <4>1. (step_f + 1) % Rows = After(step_f) /\ After(step_f) \in 0 .. Rows - 1
        BY RowAfter DEF ListInv
      <4>2. step_f' = After(step_f)
        <5>1. After(step_f) # Rows
          BY <4>1 DEF Rows
        <5>. QED BY <1>3, <3>2, <4>1, <5>1 DEF ListUser, Rows
      <4>. QED BY <1>3, <2>1, <3>2, <4>2, PutInRow DEF ListUser
    <3>. QED BY <3>1, <3>2
  <2>. QED BY <2>2, <2>3 DEF UdpTypeOK, ListInv, Rows, sendVars
<1>. QED BY <1>1, <1>2, <1>3

\* A datagram that leaves or is lost.
LEMMA SendTypes ==
  ASSUME flight \in Seq({"None", "QUIT"}), NEW cmd \in {"None", "QUIT"}, SendData(cmd),
         lastSent \in {"nothing", "None", "QUIT"}, fate \subseteq Threads \union {"lost", "overtaken"},
         cmd = "QUIT" => handler.in \in Threads
  PROVE  /\ flight' \in Seq({"None", "QUIT"}) /\ lastSent' \in {"nothing", "None", "QUIT"}
         /\ fate' \subseteq Threads \union {"lost", "overtaken"}
BY DEF SendData

LEMMA NetTypes ==
  ASSUME flight \in Seq({"None", "QUIT"}), NEW k \in 1 .. Len(flight)
  PROVE  Without(flight, k) \in Seq({"None", "QUIT"})
<1>1. /\ SubSeq(flight, 1, k - 1) \in Seq({"None", "QUIT"})
      /\ SubSeq(flight, k + 1, Len(flight)) \in Seq({"None", "QUIT"})
  BY SubSeqProperties
<1>. QED BY <1>1, ConcatProperties DEF Without

LEMMA UdpStepInv == UdpInv /\ [UdpNext]_udpVars => UdpInv'
<1>. SUFFICES ASSUME UdpInv, [UdpNext]_udpVars PROVE UdpInv'
  OBVIOUS
<1>. USE DEF UdpInv, outputVars, sendVars
<1>1. ASSUME UdpStart PROVE UdpInv'
  BY <1>1 DEF UdpStart, ListedInv, QuitInv, UdpTypeOK, ListInv
<1>2. ASSUME RecvData PROVE UdpInv'
  BY <1>2, OutputTypes DEF RecvData, ListedInv, QuitInv
<1>3. ASSUME ShowMessage PROVE UdpInv'
  BY <1>3, OutputTypes DEF ShowMessage, ListedInv, QuitInv
<1>4. ASSUME ListUser PROVE UdpInv'
  BY <1>4, OutputTypes DEF ListUser, ListedInv, QuitInv
<1>5. ASSUME HeaderTurn PROVE UdpInv'
  <2>1. index' \in 0 .. HeadCols
    <3>1. index % HeadCols \in 0 .. HeadCols - 1
      BY UdpClientAssumption DEF UdpTypeOK
    <3>. QED BY <1>5, <3>1, UdpClientAssumption DEF HeaderTurn
  <2>. QED BY <1>5, <2>1 DEF HeaderTurn, ListedInv, QuitInv, UdpTypeOK, ListInv
<1>6. ASSUME CreateInput PROVE UdpInv'
  BY <1>6 DEF CreateInput, ListedInv, QuitInv, UdpTypeOK, ListInv
<1>7. ASSUME SendLine PROVE UdpInv'
  <2>1. ListedInv' /\ QuitInv'
    BY <1>7 DEF SendLine, SendData, Alive, ListedInv, QuitInv
  <2>2. UdpTypeOK' /\ ListInv'
    BY <1>7, SendTypes DEF SendLine, UdpTypeOK, ListInv
  <2>. QED BY <2>1, <2>2
<1>8. ASSUME Interrupt PROVE UdpInv'
  BY <1>8 DEF Interrupt, Idle, ListedInv, QuitInv, UdpTypeOK, ListInv
<1>9. ASSUME SigIntSend PROVE UdpInv'
  <2>1. ListedInv' /\ QuitInv'
    BY <1>9 DEF SigIntSend, SendData, ListedInv, QuitInv
  <2>2. handler \in [in : Threads, at : {"send", "stuck", "exit"}]
    BY <1>9 DEF SigIntSend, UdpTypeOK, Idle
  <2>3. handler' \in [in : Threads, at : {"send", "stuck", "exit"}]
    BY <1>9, <2>2 DEF SigIntSend
  <2>4. UdpTypeOK' /\ ListInv'
    BY <1>9, <2>2, <2>3, SendTypes DEF SigIntSend, UdpTypeOK, ListInv
  <2>. QED BY <2>1, <2>4
<1>10. ASSUME SigIntExit PROVE UdpInv'
  BY <1>10 DEF SigIntExit, ListedInv, QuitInv, UdpTypeOK, ListInv
<1>11. ASSUME NEW k \in 1 .. MaxFlight, Arrives(k) \/ GetsLost(k) PROVE UdpInv'
  <2>1. ListedInv' /\ QuitInv'
    BY <1>11 DEF Arrives, GetsLost, ListedInv, QuitInv
  <2>2. flight' \in Seq({"None", "QUIT"})
    BY <1>11, NetTypes DEF Arrives, GetsLost, UdpTypeOK
  <2>. QED BY <1>11, <2>1, <2>2 DEF Arrives, GetsLost, UdpTypeOK, ListInv
<1>12. CASE UNCHANGED udpVars
  BY <1>12 DEF udpVars, ListedInv, QuitInv, UdpTypeOK, ListInv
<1>. QED
  BY <1>1, <1>2, <1>3, <1>4, <1>5, <1>6, <1>7, <1>8, <1>9, <1>10, <1>11, <1>12
     DEF UdpNext, UdpHandler

LEMMA UdpInitial == UdpInit => UdpInv
<1>. SUFFICES ASSUME UdpInit PROVE UdpInv
  OBVIOUS
<1>. USE UdpClientAssumption
<1>1. createFriendlist \in [0 .. ListRows - 1 -> Shown]
  BY DEF createFriendlist, Shown
<1>2. UdpTypeOK
  <2>1. msg \in Message /\ users \subseteq Shown /\ heard \subseteq Shown
    BY DEF UdpInit, Message
  <2>2. step \in 0 .. OutRows - 2 \union {1} /\ step_f \in 0 .. ListRows - 2 \union {1}
    BY DEF UdpInit
  <2>3. index \in 0 .. HeadCols
    BY DEF UdpInit
  <2>4. handler \in [in : Threads, at : {"send", "stuck", "exit"}] \union {Idle}
    BY DEF UdpInit
  <2>5. friends \in [0 .. ListRows - 1 -> Shown]
    BY <1>1 DEF UdpInit
  <2>6. recent \in Seq(Shown) /\ flight \in Seq({"None", "QUIT"})
    BY DEF UdpInit
  <2>. QED
    BY <2>1, <2>2, <2>3, <2>4, <2>5, <2>6 DEF UdpInit, UdpTypeOK
<1>3. ListInv
  <2>1. recent \in Seq(Shown) /\ Len(recent) = 0
    BY DEF UdpInit
  <2>2. step_f \in 0 .. Rows - 1 /\ Rows \in Nat
    BY DEF UdpInit, Rows
  <2>. QED BY <1>1, <2>1, <2>2 DEF UdpInit, ListInv
<1>. QED
  BY <1>2, <1>3 DEF UdpInit, UdpInv, ListedInv, QuitInv

\* The UDP client: between two messages its list holds all users it has heard of,
\* those that have left too (udpClientMain.cpp, lines 106-113, 125-131), the rows
\* show the last of them, and nothing is sent behind a QUIT that main was
\* interrupted to send (lines 15-26).
THEOREM LeftAreListed == UdpSpec => []UdpClientSafe
<1>1. ASSUME UdpInv PROVE UdpClientSafe
  <2>1. FriendsInRows
    <3>1. ASSUME NEW k \in 0 .. Len(recent) - 1
          PROVE  (step_f - 1 - k) % (ListRows - 1) = Before(step_f, k)
      <4>1. step_f \in 0 .. Rows - 1 /\ k \in 0 .. Rows - 1
        BY <1>1, UdpClientAssumption DEF UdpInv, ListInv, Rows
      <4>. QED BY <4>1, RowBefore DEF Rows
    <3>. QED BY <1>1, <3>1 DEF UdpInv, ListInv, FriendsInRows
  <2>. QED
    BY <1>1, <2>1 DEF UdpInv, ListedInv, QuitInv, UdpClientSafe, HeardAreListed, QuitIsLast
<1>. QED BY <1>1, UdpInitial, UdpStepInv, PTL DEF UdpSpec

-----------------------------------------------------------------------------
(* The client of the TCP chat room.                                        *)

\* What main knows from the last poll, and how long it holds.
ChatInv ==
  /\ texts \in Nat /\ old \in Nat
  /\ old > 0 => (chatAt = "socket" /\ "hup" \notin fds /\ "in" \in fds)
  /\ chatAt = "socket" /\ "hup" \in fds => room # "open"
  /\ chatAt \in {"keys", "killed"} => "hup" \notin fds
  /\ chatAt = "closed" => (room # "open" \/ keysEnd = "gone")

LEMMA ChatStepInv == ChatInv /\ [ChatNext]_chatVars => ChatInv'
<1>. SUFFICES ASSUME ChatInv, [ChatNext]_chatVars PROVE ChatInv'
  OBVIOUS
<1>. USE DEF ChatInv
<1>1. ASSUME Connects PROVE ChatInv'
  BY <1>1 DEF Connects
<1>2. ASSUME Poll PROVE ChatInv'
  BY <1>2 DEF Poll, Ready
<1>3. ASSUME LookAtSocket PROVE ChatInv'
  BY <1>3 DEF LookAtSocket, ReadTexts, PassSocket
<1>4. ASSUME LookAtKeys PROVE ChatInv'
  BY <1>4 DEF LookAtKeys, Writes
<1>5. ASSUME ChatWorld PROVE ChatInv'
  BY <1>5 DEF ChatWorld, TextComes, RoomEnds, LineTyped, KeysEnd
<1>6. CASE UNCHANGED chatVars
  BY <1>6 DEF chatVars
<1>. QED BY <1>1, <1>2, <1>3, <1>4, <1>5, <1>6 DEF ChatNext, ChatStep

LEMMA ChatInitial == ChatInit => ChatInv
BY DEF ChatInit, ChatInv

\* The chat client: what a hang-up makes it throw away came after the last poll
\* that had found no hang-up (chat/client.c, lines 61-82); SIGPIPE comes only when
\* that poll had found none, and the client ends itself only for the server or a
\* failing input (lines 61, 87).
THEOREM LossIsRecent == ChatSpec => []ChatSafe
<1>1. ChatInv => ChatSafe
  BY DEF ChatInv, ChatSafe, OnlyLastRoundLost, KilledUnaware, LeavesWithServer
<1>. QED BY <1>1, ChatInitial, ChatStepInv, PTL DEF ChatSpec
-----------------------------------------------------------------------------
(* The sniffer.                                                            *)

\* Remainders: a number has one, and m more has the same.
LEMMA ManyTimes ==
  ASSUME NEW m \in Nat \ {0}, NEW k \in Int, k >= 1
  PROVE  m * k >= m
<1>1. \A x, y \in Int : x > 0 /\ y >= 0 => x * y >= 0
  BY Z3
<1>2. m * (k - 1) >= 0
  BY <1>1
<1>3. m * (k - 1) = m * k - m
  OBVIOUS
<1>. QED BY <1>2, <1>3

LEMMA OneRemainder ==
  ASSUME NEW m \in Nat \ {0}, NEW p \in Int, NEW q \in Int,
         NEW r \in 0 .. m - 1, NEW s \in 0 .. m - 1, m * p + r = m * q + s
  PROVE  r = s
<1>1. m * (p - q) = s - r /\ m * (q - p) = r - s
  OBVIOUS
<1>2. ~(p - q >= 1)
  BY <1>1, ManyTimes
<1>3. ~(q - p >= 1)
  BY <1>1, ManyTimes
<1>4. p = q
  BY <1>2, <1>3
<1>. QED BY <1>4

LEMMA RemainderOf ==
  ASSUME NEW m \in Nat \ {0}, NEW a \in Int
  PROVE  a = m * (a \div m) + (a % m) /\ a % m \in 0 .. m - 1 /\ a \div m \in Int
<1>1. a % m \in 0 .. m - 1 /\ a \div m \in Int
  OBVIOUS
<1>2. a = m * (a \div m) + (a % m)
  OBVIOUS
<1>. QED BY <1>1, <1>2

LEMMA RoundOnce ==
  ASSUME NEW m \in Nat \ {0}, NEW a \in Int
  PROVE  (a + m) % m = a % m
<1>. DEFINE q == a \div m
            p == (a + m) \div m
            r == a % m
            s == (a + m) % m
<1>1. a = m * q + r /\ r \in 0 .. m - 1 /\ q \in Int
  BY RemainderOf
<1>2. a + m = m * p + s /\ s \in 0 .. m - 1 /\ p \in Int
  <2>1. a + m \in Int
    OBVIOUS
  <2>. QED BY <2>1, RemainderOf
<1>. HIDE DEF q, p, r, s
<1>3. m * (q + 1) + r = m * p + s /\ q + 1 \in Int
  BY <1>1, <1>2
<1>4. r = s
  BY <1>1, <1>2, <1>3, OneRemainder
<1>. QED BY <1>4 DEF r, s

\* A counter goes one up, or CounterMod - 1 down.
LEMMA Increments ==
  ASSUME NEW n \in 0 .. CounterMod - 1
  PROVE  /\ Increment(n) \in 0 .. CounterMod - 1
         /\ Increment(n) = n + 1 \/ Increment(n) = n + 1 - CounterMod
<1>1. CounterMod \in Nat \ {0, 1}
  BY SnifferAssumption
<1>2. CASE n + 1 < CounterMod
  BY <1>1, <1>2 DEF Increment
<1>3. CASE n + 1 = CounterMod
  BY <1>1, <1>3, RowWraps DEF Increment
<1>. QED BY <1>1, <1>2, <1>3

\* The distance of the total from the sum, as CountsAgree compares it.
Distance(c) == (c["total"] - Sum(c)) % CounterMod

LEMMA CountKeepsDistance ==
  ASSUME prot \in Counters, NEW kind \in Kinds
  PROVE  Count(kind) \in Counters /\ Distance(Count(kind)) = Distance(prot)
<1>. DEFINE c == Count(kind)
            a == prot["total"] - Sum(prot)
            b == c["total"] - Sum(c)
<1>1. CounterMod \in Nat \ {0, 1} /\ DOMAIN prot = Kinds \union {"total"}
  BY SnifferAssumption DEF Counters
<1>2. \A k \in Kinds \union {"total"} : prot[k] \in 0 .. CounterMod - 1
  BY DEF Counters
<1>3. \A k \in Kinds \union {"total"} :
        c[k] = IF k \in {kind, "total"} THEN Increment(prot[k]) ELSE prot[k]
  BY <1>1 DEF Count
<1>4. c \in Counters
  <2>1. \A k \in Kinds \union {"total"} : c[k] \in 0 .. CounterMod - 1
    BY <1>2, <1>3, Increments
  <2>. QED BY <1>1, <2>1 DEF Count, Counters
<1>5. PICK t \in {1, 1 - CounterMod} : c["total"] = prot["total"] + t
  <2>1. Increment(prot["total"]) \in {prot["total"] + 1, prot["total"] + 1 - CounterMod}
    BY <1>2, Increments
  <2>. QED BY <1>1, <1>2, <1>3, <2>1
<1>6. PICK u \in {1, 1 - CounterMod} : c[kind] = prot[kind] + u
  <2>1. Increment(prot[kind]) \in {prot[kind] + 1, prot[kind] + 1 - CounterMod}
    BY <1>2, Increments
  <2>. QED BY <1>1, <1>2, <1>3, <2>1
<1>7. \A k \in Kinds : prot[k] \in Int /\ (k # kind => c[k] = prot[k])
  BY <1>1, <1>2, <1>3 DEF Kinds
<1>8. Sum(prot) \in Int /\ Sum(c) = Sum(prot) + u
  BY <1>1, <1>6, <1>7 DEF Kinds, Sum
<1>9. a \in Int /\ b = a + t - u
  BY <1>1, <1>2, <1>5, <1>8
<1>. HIDE DEF a, b
<1>10. b = a \/ b = a + CounterMod \/ (a = b + CounterMod /\ b \in Int)
  BY <1>1, <1>9
<1>11. b % CounterMod = a % CounterMod
  BY <1>1, <1>9, <1>10, RoundOnce
<1>. QED BY <1>4, <1>11 DEF a, b, Distance

\* Pieces from place to place: what follows a header of ip bytes follows on it.
Joined(d) ==
  /\ d[1].from = Skipped
  /\ \A k \in 1 .. Len(d) - 1 : d[k].to = d[k + 1].from

LEMMA PacketJoined ==
  ASSUME NEW fr \in Frame, NEW header \in Nat, Len(Packet(fr, header)) > 0
  PROVE  LET d == Packet(fr, header)
             n == Len(d)
         IN  /\ Joined(d)
             /\ fr.ihl > 0 => d[1].to = Skipped + fr.ihl * 4
             /\ d[n].to >= Skipped + fr.size
             /\ fr.size >= fr.ihl * 4 + header => d[n].to = Skipped + fr.size
<1>. DEFINE ip == fr.ihl * 4
            rest == fr.size - header - ip
            A == [from |-> Skipped, to |-> Skipped + ip]
            B == [from |-> Skipped + ip, to |-> Skipped + ip + header]
            C == [from |-> Skipped + ip + header, to |-> Skipped + ip + header + rest]
            d == Packet(fr, header)
<1>1. ip \in Nat /\ rest \in Int /\ Skipped = 15 /\ fr.size \in Nat /\ fr.size > 0 /\ (fr.ihl > 0 <=> ip > 0)
  BY DEF Frame, Skipped
<1>2. d = PrintData(Skipped, ip) \o PrintData(Skipped + ip, header)
            \o PrintData(Skipped + ip + header, rest)
  BY DEF Packet
<1>. SUFFICES /\ Joined(d) /\ (ip > 0 => d[1].to = Skipped + ip)
              /\ d[Len(d)].to >= Skipped + fr.size
              /\ fr.size >= ip + header => d[Len(d)].to = Skipped + fr.size
  BY <1>1
<1>3. /\ PrintData(Skipped, ip) = IF ip > 0 THEN <<A>> ELSE <<>>
      /\ PrintData(Skipped + ip, header) = IF header > 0 THEN <<B>> ELSE <<>>
      /\ PrintData(Skipped + ip + header, rest) = IF rest > 0 THEN <<C>> ELSE <<>>
  BY DEF PrintData
<1>4. /\ A.from = Skipped /\ A.to = Skipped + ip
      /\ B.from = Skipped + ip /\ B.to = Skipped + ip + header
      /\ C.from = Skipped + ip + header /\ C.to = Skipped + ip + header + rest
      /\ ip + header + rest = fr.size
  BY <1>1
<1>. HIDE DEF ip, rest, A, B, C, d
<1>5. CASE ip > 0 /\ header > 0 /\ rest > 0
  <2>1. Len(d) = 3 /\ d[1] = A /\ d[2] = B /\ d[3] = C
    BY <1>2, <1>3, <1>5
  <2>. QED BY <1>1, <1>4, <1>5, <2>1 DEF Joined
<1>6. CASE ip > 0 /\ header > 0 /\ ~(rest > 0)
  <2>1. Len(d) = 2 /\ d[1] = A /\ d[2] = B
    BY <1>2, <1>3, <1>6
  <2>. QED BY <1>1, <1>4, <1>6, <2>1 DEF Joined
<1>7. CASE ip > 0 /\ ~(header > 0) /\ rest > 0
  <2>1. Len(d) = 2 /\ d[1] = A /\ d[2] = C
    BY <1>2, <1>3, <1>7
  <2>. QED BY <1>1, <1>4, <1>7, <2>1 DEF Joined
<1>8. CASE ip > 0 /\ ~(header > 0) /\ ~(rest > 0)
  <2>1. Len(d) = 1 /\ d[1] = A
    BY <1>2, <1>3, <1>8
  <2>. QED BY <1>1, <1>4, <1>8, <2>1 DEF Joined
<1>9. CASE ~(ip > 0) /\ header > 0 /\ rest > 0
  <2>1. Len(d) = 2 /\ d[1] = B /\ d[2] = C
    <3>1. d = (<<>> \o <<B>>) \o <<C>>
      BY <1>2, <1>3, <1>9, Zenon
    <3>2. <<>> \o <<B>> = <<B>>
      OBVIOUS
    <3>. QED BY <3>1, <3>2
  <2>. QED BY <1>1, <1>4, <1>9, <2>1 DEF Joined
<1>10. CASE ~(ip > 0) /\ header > 0 /\ ~(rest > 0)
  <2>1. Len(d) = 1 /\ d[1] = B
    BY <1>2, <1>3, <1>10
  <2>. QED BY <1>1, <1>4, <1>10, <2>1 DEF Joined
<1>11. CASE ~(ip > 0) /\ ~(header > 0) /\ rest > 0
  <2>1. Len(d) = 1 /\ d[1] = C
    BY <1>2, <1>3, <1>11
  <2>. QED BY <1>1, <1>4, <1>11, <2>1 DEF Joined
<1>12. CASE ~(ip > 0) /\ ~(header > 0) /\ ~(rest > 0)
  BY <1>1, <1>4, <1>12
<1>. QED BY <1>5, <1>6, <1>7, <1>8, <1>9, <1>10, <1>11, <1>12

\* What the log holds is what was printed of the frame read last.
SniffInv ==
  /\ at \in Places /\ prot \in Counters /\ garbage \in Counters
  /\ came \in 0 .. MaxFrames /\ wire \in 0 .. came /\ (at = "socket" => wire > 0)
  /\ Distance(prot) = Distance(garbage)
  /\ frame \in Frame
  /\ dump # <<>> => dump = Log(frame) /\ stated = frame.ihl * 4

LEMMA SniffInitial == SniffInit => SniffInv
<1>. SUFFICES ASSUME SniffInit PROVE SniffInv
  OBVIOUS
<1>1. garbage \in Counters /\ prot = garbage
  BY SnifferAssumption DEF SniffInit, Counters
<1>2. NoFrame \in Frame
  BY DEF NoFrame, Frame, Kinds
<1>. QED BY <1>1, <1>2, SnifferAssumption DEF SniffInit, SniffInv, Places

LEMMA SniffStepInv == SniffInv /\ [SniffNext]_sniffVars => SniffInv'
<1>. SUFFICES ASSUME SniffInv, [SniffNext]_sniffVars PROVE SniffInv'
  OBVIOUS
<1>. USE SnifferAssumption DEF SniffInv, Places
<1>1. CASE FrameComes
  BY <1>1 DEF FrameComes, Distance, Sum
<1>2. CASE InputEnds \/ SniffStart \/ command_interpreter \/ ReceiveFails
  BY <1>2 DEF InputEnds, SniffStart, command_interpreter, ReceiveFails, Distance, Sum
<1>3. CASE SignalWhiteNow
  BY <1>3 DEF SignalWhiteNow, Distance, Sum
<1>4. CASE \E l \in {"quit", "other"} : Typing(l)
  BY <1>4 DEF Typing, Distance, Sum
<1>5. CASE Select
  BY <1>5 DEF Select, InputReady, Distance, Sum
<1>6. CASE ProcessPacket
  <2>1. PICK fr \in Frame :
          /\ frame' = fr /\ prot' = Count(fr.kind) /\ dump' = Log(fr)
          /\ stated' = IF fr.kind \in {"tcp", "udp", "icmp"} THEN print_ip_header(fr) ELSE stated
    BY <1>6 DEF ProcessPacket
  <2>2. /\ at = "socket" /\ at' = "select" /\ wire' = wire - 1 /\ UNCHANGED <<came, garbage>>
    BY <1>6 DEF ProcessPacket
  <2>3. fr.kind \in Kinds
    BY DEF Frame
  <2>4. prot' \in Counters /\ Distance(prot') = Distance(garbage')
    BY <2>1, <2>2, <2>3, CountKeepsDistance
  <2>5. dump' # <<>> => fr.kind \in {"tcp", "udp", "icmp"}
    BY <2>1 DEF Log
  <2>6. dump' # <<>> => dump' = Log(frame') /\ stated' = frame'.ihl * 4
    BY <2>1, <2>5 DEF print_ip_header
  <2>7. wire' \in 0 .. came' /\ came' \in 0 .. MaxFrames
    BY <2>2
  <2>. QED BY <2>1, <2>2, <2>4, <2>6, <2>7 DEF Distance
<1>7. CASE UNCHANGED sniffVars
  BY <1>7 DEF sniffVars, Distance, Sum
<1>. QED BY <1>1, <1>2, <1>3, <1>4, <1>5, <1>6, <1>7 DEF SniffNext, SniffStep, SniffWorld

\* NetWorkSniffer/main.c: whatever the counters start from and wherever they wrap
\* round, the total stays as far from the sum of the kinds as it was (lines 76-111,
\* 120); what is dumped of a packet is in one piece, for any size of a pointer.
THEOREM CountsAndDumps == SniffSpec => []SniffSafe
<1>1. ASSUME SniffInv PROVE CountsAgree
  BY <1>1, SnifferAssumption DEF SniffInv, CountsAgree, Distance
<1>2. ASSUME SniffInv PROVE DumpInOnePiece
  <2>. DEFINE n == Len(dump)
  <2>. SUFFICES ASSUME n > 0
                PROVE  /\ Joined(dump)
                       /\ stated > 0 => dump[1].to = Skipped + stated
                       /\ dump[n].to >= Skipped + frame.size
                       /\ frame.kind \in {"udp", "icmp"} /\ frame.size >= frame.ihl * 4 + PtrSize
                            => dump[n].to = Skipped + frame.size
    BY DEF DumpInOnePiece, Joined
  <2>1. dump = Log(frame) /\ stated = frame.ihl * 4 /\ frame \in Frame
    BY <1>2 DEF SniffInv
  <2>2. stated > 0 <=> frame.ihl > 0
    BY <2>1 DEF Frame
  <2>3. CASE frame.kind = "tcp"
    <3>1. dump = Packet(frame, frame.doff * 4) /\ frame.doff * 4 \in Nat
      BY <2>1, <2>3 DEF Log, print_tcp_packet, Frame
    <3>. QED BY <2>1, <2>2, <2>3, <3>1, PacketJoined
  <2>4. CASE frame.kind \in {"udp", "icmp"}
    <3>1. dump = Packet(frame, PtrSize) /\ PtrSize \in Nat
      BY <2>1, <2>4, SnifferAssumption DEF Log, print_udp_packet, print_icmp_packet
    <3>. QED BY <2>1, <2>2, <2>4, <3>1, PacketJoined
  <2>5. CASE frame.kind \notin {"tcp", "udp", "icmp"}
    BY <2>1, <2>5 DEF Log
  <2>. QED BY <2>3, <2>4, <2>5
<1>. QED BY <1>1, <1>2, SniffInitial, SniffStepInv, PTL DEF SniffSpec, SniffSafe

\* Once its input is at its end, the sniffer does not look at the socket again
\* and counts nothing any more: select has standard input ready for ever, and
\* main looks at that first (lines 149, 154).
THEOREM EofStarvesSocket == SniffSpec => StarvedByEof
<1>1. ASSUME [SniffNext]_sniffVars, eof, at # "socket"
      PROVE  at' # "socket" /\ prot' = prot
  <2>. USE <1>1
  <2>1. CASE Select
    BY <2>1 DEF Select, InputReady
  <2>2. CASE ProcessPacket \/ ReceiveFails
    BY <2>2 DEF ProcessPacket, ReceiveFails
  <2>3. CASE SniffStart \/ command_interpreter
    BY <2>3 DEF SniffStart, command_interpreter
  <2>4. CASE FrameComes \/ InputEnds
    BY <2>4 DEF FrameComes, InputEnds
  <2>7. CASE SignalWhiteNow
    BY <2>7 DEF SignalWhiteNow
  <2>5. CASE \E l \in {"quit", "other"} : Typing(l)
    BY <2>5 DEF Typing
  <2>6. CASE UNCHANGED sniffVars
    BY <2>6 DEF sniffVars
  <2>. QED BY <2>1, <2>2, <2>3, <2>4, <2>5, <2>6, <2>7 DEF SniffNext, SniffStep, SniffWorld
<1>2. ASSUME [SniffNext]_sniffVars
      PROVE  [(eof /\ at # "socket") => (at' # "socket" /\ prot' = prot)]_sniffVars
  BY <1>1, <1>2
<1>. QED BY <1>2, PTL DEF SniffSpec, StarvedByEof

-----------------------------------------------------------------------------
(* The page of a push.                                                     *)

Text == {"head", "method", "length", "method error", "arg", "Begin Push", "exec error",
         "tail", "Begin execl", "execl error", "pushed"}

Texts(s) == {s[i] : i \in DOMAIN s}

Begins(s) == {i \in DOMAIN s : s[i] = "Begin Push"}

\* No line of s but "Begin Push" is in it twice.
Singly(s) == \A i, j \in DOMAIN s : s[i] = s[j] /\ s[i] # "Begin Push" => i = j

\* What main can have flushed by now, and what the child can.
MainSaid ==
  (IF show = "start" \/ (show = "show" /\ method = "GET") THEN {}
   ELSE {"head", "method", "length", "method error"})
    \union (IF show \in {"fork", "error", "end", "exited"} THEN {"arg"} ELSE {})
    \union (IF show \in {"end", "exited"} THEN {"exec error"} ELSE {})
    \union (IF show = "exited" THEN {"tail"} ELSE {})

ChildSaid ==
  (IF child \in {"execl", "push", "exited"} THEN {"Begin execl"} ELSE {})
    \union (IF child = "exited" THEN {"execl error", "pushed"} ELSE {})

\* What is left in either buffer.
MainKeeps ==
  IF show = "show" /\ method = "GET" THEN <<"head", "method">>
  ELSE IF show \in {"fork", "error"} THEN <<"Begin Push">> ELSE <<>>

ChildKeeps == IF child = "born" THEN <<"Begin Push">> ELSE <<>>

\* How often "Begin Push" has left a buffer.
Begun ==
  (IF show \in {"end", "exited"} /\ method # "none" THEN 1 ELSE 0)
    + (IF child \in {"execl", "push", "exited"} THEN 1 ELSE 0)

ShowTyped ==
  /\ method \in {"GET", "POST", "none"} /\ clength \in 0 .. MaxBody /\ body \in Nat
  /\ show \in {"start", "body", "show", "fork", "error", "end", "exited"}
  /\ child \in {"none", "born", "execl", "push", "exited"}
  /\ printed \in [{"main", "child"} -> Seq(Text)]
  /\ pipe \in Seq(Text) /\ page \in Seq(Text)

\* The two buffers, and which part of the page is out.
Flushed ==
  /\ printed["main"] = MainKeeps /\ printed["child"] = ChildKeeps
  /\ Singly(page \o pipe)
  /\ Texts(page \o pipe) \subseteq {"Begin Push"} \union MainSaid \union ChildSaid
  /\ Cardinality(Begins(page \o pipe)) = Begun
  /\ child = "exited" => Texts(page \o pipe) \intersect {"execl error", "pushed"} # {}

\* Only main of a request with a method forks; the page ends after both.
Ordered ==
  /\ method = "none" => show \in {"start", "exited"}
  /\ show = "body" => method = "POST"
  /\ child # "none" => show \in {"error", "end", "exited"} /\ method # "none"
  /\ seen => pipe = <<>> /\ show = "exited" /\ child \in {"none", "exited"}

PageInv == ShowTyped /\ Flushed /\ Ordered

\* Where an element of a concatenation comes from.
LEMMA ConcatPlaces ==
  ASSUME NEW s \in Seq(Text), NEW u \in Seq(Text)
  PROVE  /\ s \o u \in Seq(Text) /\ Len(s) \in Nat
         /\ DOMAIN s = 1 .. Len(s) /\ DOMAIN (s \o u) \subseteq Nat
         /\ \A i \in DOMAIN s : i \in DOMAIN (s \o u) /\ (s \o u)[i] = s[i]
         /\ \A i \in DOMAIN u : i + Len(s) \in DOMAIN (s \o u) /\ (s \o u)[i + Len(s)] = u[i]
         /\ \A i \in DOMAIN (s \o u) :
              \/ i \in DOMAIN s /\ (s \o u)[i] = s[i]
              \/ i - Len(s) \in DOMAIN u /\ (s \o u)[i] = u[i - Len(s)]
<1>. DEFINE w == s \o u
            m == Len(s)
            n == Len(u)
<1>1. /\ w \in Seq(Text) /\ Len(w) = m + n
      /\ \A i \in 1 .. m + n : w[i] = IF i <= m THEN s[i] ELSE u[i - m]
  BY ConcatProperties
<1>2. /\ m \in Nat /\ n \in Nat
      /\ DOMAIN s = 1 .. m /\ DOMAIN u = 1 .. n /\ DOMAIN w = 1 .. m + n
  BY <1>1, LenProperties
<1>. HIDE DEF w, m, n
<1>3. \A i \in DOMAIN s : i \in DOMAIN w /\ w[i] = s[i]
  BY <1>1, <1>2
<1>4. ASSUME NEW i \in DOMAIN u PROVE i + m \in DOMAIN w /\ w[i + m] = u[i]
  BY <1>1, <1>2
<1>5. ASSUME NEW i \in DOMAIN w
      PROVE  \/ i \in DOMAIN s /\ w[i] = s[i]
             \/ i - m \in DOMAIN u /\ w[i] = u[i - m]
  <2>1. i \in Nat /\ i \in 1 .. m + n /\ w[i] = IF i <= m THEN s[i] ELSE u[i - m]
    BY <1>1, <1>2
  <2>2. CASE i <= m
    BY <1>2, <2>1, <2>2
  <2>3. CASE i > m
    BY <1>2, <2>1, <2>3
  <2>. QED BY <1>2, <2>1, <2>2, <2>3
<1>6. DOMAIN w \subseteq Nat
  BY <1>2
<1>. QED BY <1>1, <1>2, <1>3, <1>4, <1>5, <1>6 DEF w, m

LEMMA Cancelled ==
  ASSUME NEW a \in Nat, NEW b \in Nat, NEW c \in Nat
  PROVE  /\ a - c = b - c => a = b
         /\ a - c = 1 => a = c + 1
OBVIOUS

\* What is written behind s: no line of it that s has, but "Begin Push".
LEMMA WrittenBehind ==
  ASSUME NEW s \in Seq(Text), NEW u \in Seq(Text), Singly(s), Singly(u),
         Texts(s) \intersect Texts(u) \subseteq {"Begin Push"}
  PROVE  /\ s \o u \in Seq(Text)
         /\ Singly(s \o u) /\ Texts(s \o u) = Texts(s) \union Texts(u)
<1>. DEFINE w == s \o u
<1>1. /\ w \in Seq(Text) /\ Len(s) \in Nat /\ DOMAIN w \subseteq Nat
  BY ConcatPlaces
<1>3. \A i \in DOMAIN s : i \in DOMAIN w /\ w[i] = s[i]
  BY ConcatPlaces
<1>4. \A i \in DOMAIN u : i + Len(s) \in DOMAIN w /\ w[i + Len(s)] = u[i]
  BY ConcatPlaces
<1>5. \A i \in DOMAIN w : \/ i \in DOMAIN s /\ w[i] = s[i]
                          \/ i - Len(s) \in DOMAIN u /\ w[i] = u[i - Len(s)]
  BY ConcatPlaces
<1>. HIDE DEF w
<1>6. Texts(w) = Texts(s) \union Texts(u)
  <2>1. ASSUME NEW t \in Texts(w) PROVE t \in Texts(s) \union Texts(u)
    <3>1. PICK i \in DOMAIN w : w[i] = t
      BY <2>1 DEF Texts
    <3>. QED BY <1>5, <3>1 DEF Texts
  <2>2. ASSUME NEW t \in Texts(s) PROVE t \in Texts(w)
    BY <1>3 DEF Texts
  <2>3. ASSUME NEW t \in Texts(u) PROVE t \in Texts(w)
    BY <1>4 DEF Texts
  <2>. QED BY <2>1, <2>2, <2>3
<1>7. Singly(w)
  <2>. SUFFICES ASSUME NEW i \in DOMAIN w, NEW j \in DOMAIN w,
                       w[i] = w[j], w[i] # "Begin Push"
                PROVE  i = j
    BY DEF Singly
  <2>1. i \in Nat /\ j \in Nat
    BY <1>1
  <2>2. \A k \in DOMAIN s, l \in DOMAIN u : s[k] = u[l] => s[k] = "Begin Push"
    BY DEF Texts
  <2>3. CASE i \in DOMAIN s /\ w[i] = s[i] /\ j \in DOMAIN s /\ w[j] = s[j]
    BY <2>3 DEF Singly
  <2>4. CASE /\ i - Len(s) \in DOMAIN u /\ w[i] = u[i - Len(s)]
             /\ j - Len(s) \in DOMAIN u /\ w[j] = u[j - Len(s)]
    <3>1. i - Len(s) = j - Len(s)
      BY <2>4 DEF Singly
    <3>. QED BY <1>1, <2>1, <3>1, Cancelled, Zenon
  <2>. QED BY <1>5, <2>2, <2>3, <2>4
<1>. QED BY <1>1, <1>6, <1>7 DEF w

\* How often "Begin Push" is in it then.
LEMMA BeginsBehind ==
  ASSUME NEW s \in Seq(Text), NEW u \in Seq(Text)
  PROVE  /\ IsFiniteSet(Begins(s)) /\ Cardinality(Begins(s)) \in Nat
         /\ "Begin Push" \notin Texts(u) => Begins(s \o u) = Begins(s)
         /\ u = <<"Begin Push">> =>
              Cardinality(Begins(s \o u)) = Cardinality(Begins(s)) + 1
<1>. DEFINE w == s \o u
<1>1. /\ Len(s) \in Nat /\ DOMAIN s = 1 .. Len(s) /\ DOMAIN w \subseteq Nat
  BY ConcatPlaces
<1>2. /\ \A i \in DOMAIN s : i \in DOMAIN w /\ w[i] = s[i]
      /\ \A i \in DOMAIN u : i + Len(s) \in DOMAIN w /\ w[i + Len(s)] = u[i]
      /\ \A i \in DOMAIN w : \/ i \in DOMAIN s /\ w[i] = s[i]
                             \/ i - Len(s) \in DOMAIN u /\ w[i] = u[i - Len(s)]
  BY ConcatPlaces
<1>. HIDE DEF w
<1>3. IsFiniteSet(1 .. Len(s))
  BY <1>1, FS_Interval
<1>4. Begins(s) \subseteq 1 .. Len(s)
  BY <1>1 DEF Begins
<1>5. IsFiniteSet(Begins(s)) /\ Cardinality(Begins(s)) \in Nat
  BY <1>3, <1>4, FS_Subset, FS_CardinalityType
<1>6. ASSUME "Begin Push" \notin Texts(u) PROVE Begins(w) = Begins(s)
  BY <1>2, <1>6 DEF Begins, Texts
<1>7. ASSUME u = <<"Begin Push">>
      PROVE  Cardinality(Begins(w)) = Cardinality(Begins(s)) + 1
  <2>1. Len(u) = 1 /\ u[1] = "Begin Push"
    BY <1>7
  <2>2. Begins(w) = Begins(s) \union {Len(s) + 1}
    <3>1. /\ DOMAIN u = {1} /\ 1 + Len(s) = Len(s) + 1
      <4>1. Len(u) = 1 /\ DOMAIN u = 1 .. Len(u)
        BY <1>7, LenProperties
      <4>2. DOMAIN u = 1 .. 1 /\ 1 .. 1 = {1}
        BY <4>1
      <4>. QED BY <1>1, <4>2
    <3>2. ASSUME NEW i \in Begins(w) PROVE i \in Begins(s) \union {Len(s) + 1}
      <4>1. i \in DOMAIN w /\ i \in Nat /\ w[i] = "Begin Push"
        BY <1>1 DEF Begins
      <4>2. CASE i - Len(s) \in DOMAIN u
        <5>1. i - Len(s) = 1
          BY <3>1, <4>2
        <5>2. i = Len(s) + 1
          BY <1>1, <4>1, <5>1, Cancelled, Zenon
        <5>. QED BY <5>2
      <4>. QED BY <1>2, <4>1, <4>2 DEF Begins
    <3>3. Begins(s) \subseteq Begins(w)
      BY <1>2 DEF Begins
    <3>4. Len(s) + 1 \in Begins(w)
      BY <1>2, <2>1, <3>1 DEF Begins
    <3>. QED BY <3>2, <3>3, <3>4
  <2>3. Len(s) + 1 \notin Begins(s)
    BY <1>1, <1>4
  <2>. QED BY <1>5, <2>2, <2>3, FS_AddElement
<1>. QED BY <1>5, <1>6, <1>7 DEF w

LEMMA ShortTexts ==
  /\ <<>> \in Seq(Text) /\ Texts(<<>>) = {} /\ Singly(<<>>)
  /\ \A a \in Text : <<a>> \in Seq(Text) /\ Texts(<<a>>) = {a} /\ Singly(<<a>>)
  /\ \A a, b \in Text : a # b =>
       <<a, b>> \in Seq(Text) /\ Texts(<<a, b>>) = {a, b} /\ Singly(<<a, b>>)
  /\ \A a, b, c \in Text : a # b /\ a # c /\ b # c =>
       /\ <<a, b, c>> \in Seq(Text) /\ Texts(<<a, b, c>>) = {a, b, c}
       /\ Singly(<<a, b, c>>)
<1>1. <<>> \in Seq(Text) /\ Texts(<<>>) = {} /\ Singly(<<>>)
  BY DEF Texts, Singly
<1>2. ASSUME NEW a \in Text
      PROVE  <<a>> \in Seq(Text) /\ Texts(<<a>>) = {a} /\ Singly(<<a>>)
  <2>1. DOMAIN <<a>> = {1} /\ <<a>>[1] = a /\ <<a>> \in Seq(Text)
    OBVIOUS
  <2>. QED BY <2>1 DEF Texts, Singly
<1>3. ASSUME NEW a \in Text, NEW b \in Text, a # b
      PROVE  <<a, b>> \in Seq(Text) /\ Texts(<<a, b>>) = {a, b} /\ Singly(<<a, b>>)
  <2>. DEFINE s == <<a, b>>
  <2>1. DOMAIN s = {1, 2} /\ s[1] = a /\ s[2] = b /\ s \in Seq(Text)
    OBVIOUS
  <2>. HIDE DEF s
  <2>2. Texts(s) = {a, b} /\ Singly(s)
    BY <1>3, <2>1 DEF Texts, Singly
  <2>. QED BY <2>1, <2>2 DEF s
<1>4. ASSUME NEW a \in Text, NEW b \in Text, NEW c \in Text, a # b, a # c, b # c
      PROVE  /\ <<a, b, c>> \in Seq(Text) /\ Texts(<<a, b, c>>) = {a, b, c}
             /\ Singly(<<a, b, c>>)
  <2>. DEFINE s == <<a, b, c>>
  <2>1. DOMAIN s = {1, 2, 3} /\ s[1] = a /\ s[2] = b /\ s[3] = c /\ s \in Seq(Text)
    OBVIOUS
  <2>. HIDE DEF s
  <2>2. Texts(s) = {a, b, c} /\ Singly(s)
    BY <1>4, <2>1 DEF Texts, Singly
  <2>. QED BY <2>1, <2>2 DEF s
<1>. QED BY <1>1, <1>2, <1>3, <1>4

LEMMA PlusZero == \A n \in Nat : n + 0 = n
OBVIOUS

\* What a flush adds to what has been said: what was in the buffer, then the texts.
LEMMA FlushAdds ==
  ASSUME NEW said \in Seq(Text), NEW kept \in Seq(Text), NEW texts_ \in Seq(Text),
         Singly(said), Singly(texts_), "Begin Push" \notin Texts(texts_),
         Texts(texts_) \intersect Texts(said) = {},
         \/ kept = <<"Begin Push">>
         \/ /\ "Begin Push" \notin Texts(kept) /\ Singly(kept)
            /\ Texts(kept) \intersect (Texts(said) \union Texts(texts_)) = {}
  PROVE  /\ Singly((said \o kept) \o texts_)
         /\ Texts((said \o kept) \o texts_) = Texts(said) \union Texts(kept) \union Texts(texts_)
         /\ Cardinality(Begins((said \o kept) \o texts_)) =
              Cardinality(Begins(said)) + (IF kept = <<"Begin Push">> THEN 1 ELSE 0)
<1>. DEFINE after == said \o kept
<1>1. "Begin Push" \in Text /\ Singly(kept) /\ Texts(said) \intersect Texts(kept) \subseteq {"Begin Push"}
  <2>1. CASE kept = <<"Begin Push">>
    <3>1. "Begin Push" \in Text
      BY DEF Text
    <3>. QED BY <2>1, <3>1, ShortTexts
  <2>2. CASE kept # <<"Begin Push">>
    BY <2>2 DEF Text
  <2>. QED BY <2>1, <2>2
<1>2. after \in Seq(Text) /\ Singly(after) /\ Texts(after) = Texts(said) \union Texts(kept)
  BY <1>1, WrittenBehind
<1>3. Texts(after) \intersect Texts(texts_) \subseteq {"Begin Push"}
  <2>1. kept = <<"Begin Push">> => Texts(kept) = {"Begin Push"}
    BY <1>1, ShortTexts
  <2>. QED BY <1>2, <2>1
<1>4. Cardinality(Begins(after)) =
        Cardinality(Begins(said)) + (IF kept = <<"Begin Push">> THEN 1 ELSE 0)
  <2>1. CASE kept = <<"Begin Push">>
    BY <2>1, BeginsBehind
  <2>2. CASE kept # <<"Begin Push">>
    <3>1. Begins(after) = Begins(said) /\ Cardinality(Begins(said)) \in Nat
      BY <2>2, BeginsBehind
    <3>. QED BY <2>2, <3>1, PlusZero, Zenon
  <2>. QED BY <2>1, <2>2
<1>. HIDE DEF after
<1>5. /\ Singly(after \o texts_) /\ Texts(after \o texts_) = Texts(after) \union Texts(texts_)
      /\ Begins(after \o texts_) = Begins(after)
  BY <1>2, <1>3, WrittenBehind, BeginsBehind
<1>. QED BY <1>2, <1>4, <1>5, Zenon DEF after

LEMMA OneText ==
  \A x \in {"arg", "exec error", "tail", "Begin execl", "execl error", "pushed"} :
    /\ <<x>> \in Seq(Text) /\ Texts(<<x>>) = {x} /\ Singly(<<x>>)
    /\ "Begin Push" \notin Texts(<<x>>)
<1>. SUFFICES ASSUME NEW x \in {"arg", "exec error", "tail", "Begin execl", "execl error", "pushed"}
              PROVE  /\ <<x>> \in Seq(Text) /\ Texts(<<x>>) = {x} /\ Singly(<<x>>)
                     /\ "Begin Push" \notin Texts(<<x>>)
  OBVIOUS
<1>1. x \in Text /\ x # "Begin Push"
  BY DEF Text
<1>2. <<x>> \in Seq(Text) /\ Texts(<<x>>) = {x} /\ Singly(<<x>>)
  BY <1>1, ShortTexts, Zenon
<1>. QED BY <1>1, <1>2

LEMMA InAnyOrder ==
  \A r, s, t \in Seq(Text) : r \o (s \o t) = (r \o s) \o t
<1>. SUFFICES ASSUME NEW r \in Seq(Text), NEW s \in Seq(Text), NEW t \in Seq(Text)
              PROVE  r \o (s \o t) = (r \o s) \o t
  OBVIOUS
<1>. QED BY ConcatAssociative

LEMMA Buffers ==
  /\ <<>> # <<"Begin Push">> /\ <<"head", "method">> # <<"Begin Push">>
  /\ <<"head", "method">> # <<>> /\ <<"Begin Push">> \in Seq(Text)
  /\ Begun \in Nat
BY DEF Text, Begun

\* What the pipe then holds is of the lines of the program, and behind the rest.
LEMMA BehindThePipe ==
  ASSUME page \in Seq(Text), pipe \in Seq(Text), NEW k \in Seq(Text), NEW t \in Seq(Text)
  PROVE  /\ page \o pipe \in Seq(Text)
         /\ pipe' = pipe \o k \o t /\ page' = page =>
              pipe' \in Seq(Text) /\ page' \o pipe' = ((page \o pipe) \o k) \o t
<1>1. /\ page \o pipe \in Seq(Text) /\ (pipe \o k) \o t \in Seq(Text)
      /\ page \o ((pipe \o k) \o t) = ((page \o pipe) \o k) \o t
  <2>1. page \o pipe \in Seq(Text) /\ pipe \o k \in Seq(Text)
    BY ConcatProperties
  <2>2. (pipe \o k) \o t \in Seq(Text)
    BY <2>1, ConcatProperties
  <2>3. page \o ((pipe \o k) \o t) = (page \o (pipe \o k)) \o t
    BY <2>1, InAnyOrder, Zenon
  <2>4. page \o (pipe \o k) = (page \o pipe) \o k
    BY InAnyOrder, Zenon
  <2>. QED BY <2>1, <2>2, <2>3, <2>4, Zenon
<1>. QED BY <1>1, Zenon

\* A flush, as a step of the page.
LEMMA FlushedOn ==
  ASSUME PageInv, NEW k \in Seq(Text), NEW t \in Seq(Text),
         pipe' = pipe \o k \o t, page' = page,
         Singly(t), "Begin Push" \notin Texts(t), Texts(t) \intersect Texts(page \o pipe) = {},
         \/ k = <<"Begin Push">>
         \/ k = <<>>
         \/ /\ k = <<"head", "method">>
            /\ {"head", "method"} \intersect (Texts(page \o pipe) \union Texts(t)) = {}
  PROVE  /\ pipe' \in Seq(Text) /\ page' \in Seq(Text) /\ Singly(page' \o pipe')
         /\ Texts(page' \o pipe') =
              Texts(page \o pipe) \union Texts(t)
                \union (IF k = <<"Begin Push">> THEN {"Begin Push"}
                        ELSE IF k = <<>> THEN {} ELSE {"head", "method"})
         /\ Cardinality(Begins(page' \o pipe')) =
              Begun + (IF k = <<"Begin Push">> THEN 1 ELSE 0)
<1>. DEFINE said == page \o pipe
<1>1. page \in Seq(Text) /\ pipe \in Seq(Text)
  BY DEF PageInv, ShowTyped
<1>2. Singly(said) /\ Cardinality(Begins(said)) = Begun
  BY DEF PageInv, Flushed
<1>3. /\ said \in Seq(Text) /\ pipe' \in Seq(Text)
      /\ page' \o pipe' = (said \o k) \o t
  BY <1>1, BehindThePipe
<1>4. {"Begin Push", "head", "method"} \subseteq Text
  BY DEF Text
<1>5. Texts(k) = IF k = <<"Begin Push">> THEN {"Begin Push"}
                 ELSE IF k = <<>> THEN {} ELSE {"head", "method"}
  BY <1>4, ShortTexts
<1>6. <<>> # <<"Begin Push">> /\ <<"head", "method">> # <<"Begin Push">> /\ <<"head", "method">> # <<>>
  BY Buffers
<1>7. Singly(k)
  <2>1. "head" # "method"
    OBVIOUS
  <2>2. Singly(<<>>) /\ Singly(<<"Begin Push">>) /\ Singly(<<"head", "method">>)
    BY <1>4, <2>1, ShortTexts
  <2>. QED BY <2>2, Zenon
<1>8. \/ k = <<"Begin Push">>
      \/ /\ "Begin Push" \notin Texts(k) /\ Singly(k)
         /\ Texts(k) \intersect (Texts(said) \union Texts(t)) = {}
  <2>1. CASE k = <<"Begin Push">>
    BY <2>1
  <2>2. CASE k = <<>>
    <3>1. Texts(k) = {}
      BY <1>5, <1>6, <2>2, Zenon
    <3>. QED BY <1>7, <3>1
  <2>3. CASE k = <<"head", "method">> /\ {"head", "method"} \intersect (Texts(said) \union Texts(t)) = {}
    <3>1. Texts(k) = {"head", "method"}
      BY <1>5, <1>6, <2>3, Zenon
    <3>2. "Begin Push" \notin {"head", "method"}
      OBVIOUS
    <3>. QED BY <1>7, <2>3, <3>1, <3>2, Zenon
  <2>. QED BY <2>1, <2>2, <2>3
<1>. HIDE DEF said
<1>9. /\ Singly((said \o k) \o t)
      /\ Texts((said \o k) \o t) = Texts(said) \union Texts(k) \union Texts(t)
      /\ Cardinality(Begins((said \o k) \o t)) =
           Cardinality(Begins(said)) + (IF k = <<"Begin Push">> THEN 1 ELSE 0)
  BY <1>1, <1>2, <1>3, <1>8, FlushAdds DEF said
<1>10. /\ Singly(page' \o pipe')
       /\ Texts(page' \o pipe') = Texts(said) \union Texts(k) \union Texts(t)
       /\ Cardinality(Begins(page' \o pipe')) =
            Begun + (IF k = <<"Begin Push">> THEN 1 ELSE 0)
  BY <1>2, <1>3, <1>9, Zenon
<1>. QED BY <1>1, <1>3, <1>5, <1>10 DEF said

\* The same when the buffer was empty, and when "Begin Push" was in it.
LEMMA FlushedOnEmpty ==
  ASSUME PageInv, NEW t \in Seq(Text), pipe' = pipe \o <<>> \o t, page' = page,
         Singly(t), "Begin Push" \notin Texts(t), Texts(t) \intersect Texts(page \o pipe) = {}
  PROVE  /\ pipe' \in Seq(Text) /\ page' \in Seq(Text) /\ Singly(page' \o pipe')
         /\ Texts(page' \o pipe') = Texts(page \o pipe) \union Texts(t)
         /\ Cardinality(Begins(page' \o pipe')) = Begun
<1>3. /\ pipe' \in Seq(Text) /\ page' \in Seq(Text) /\ Singly(page' \o pipe')
      /\ Texts(page' \o pipe') = Texts(page \o pipe) \union Texts(t) \union {}
      /\ Cardinality(Begins(page' \o pipe')) = Begun + 0
  BY Buffers, ShortTexts, FlushedOn, Zenon
<1>. QED BY <1>3, Buffers, PlusZero, Zenon

LEMMA FlushedOnBegin ==
  ASSUME PageInv, NEW t \in Seq(Text), pipe' = pipe \o <<"Begin Push">> \o t, page' = page,
         Singly(t), "Begin Push" \notin Texts(t), Texts(t) \intersect Texts(page \o pipe) = {}
  PROVE  /\ pipe' \in Seq(Text) /\ page' \in Seq(Text) /\ Singly(page' \o pipe')
         /\ Texts(page' \o pipe') = Texts(page \o pipe) \union Texts(t) \union {"Begin Push"}
         /\ Cardinality(Begins(page' \o pipe')) = Begun + 1
<1>. QED BY Buffers, FlushedOn, Zenon

LEMMA PageInitial == ShowInit => PageInv
<1>. SUFFICES ASSUME ShowInit PROVE PageInv
  OBVIOUS
<1>1. page \o pipe = <<>> /\ page = <<>> /\ pipe = <<>> /\ <<>> \in Seq(Text)
  BY DEF ShowInit
<1>2. ShowTyped
  BY <1>1, WeatherShowAssumption DEF ShowInit, ShowTyped
<1>3. Begins(<<>>) = {} /\ Texts(<<>>) = {} /\ Singly(<<>>)
  BY ShortTexts DEF Begins
<1>4. Cardinality(Begins(page \o pipe)) = 0
  BY <1>1, <1>3, FS_EmptySet, Zenon
<1>5. Begun = 0 /\ MainKeeps = <<>> /\ ChildKeeps = <<>>
  BY DEF Begun, MainKeeps, ChildKeeps, ShowInit
<1>6. Flushed
  BY <1>1, <1>3, <1>4, <1>5 DEF Flushed, ShowInit
<1>. QED BY <1>2, <1>6 DEF PageInv, Ordered, ShowInit

\* main up to the fork, and after it.
LEMMA MainStepInv ==
  ASSUME PageInv, ReadHead \/ ReadBody \/ ShowWeather \/ ForkPush \/ SayError \/ ShowEnds
  PROVE  PageInv'
<1>. DEFINE said == page \o pipe
<1>. USE DEF PageInv, ShowTyped
<1>0. /\ Texts(said) \subseteq {"Begin Push"} \union MainSaid \union ChildSaid
      /\ child = "exited" => Texts(said) \intersect {"execl error", "pushed"} # {}
      /\ printed["main"] = MainKeeps /\ printed["child"] = ChildKeeps
      /\ Singly(said) /\ Cardinality(Begins(said)) = Begun
  BY DEF Flushed
<1>. HIDE DEF said
<1>1. CASE ReadHead
  <2>0. show = "start" /\ child = "none" /\ ~seen
    BY <1>1 DEF ReadHead, Ordered
  <2>1. Texts(said) \subseteq {"Begin Push"} /\ Begun = 0 /\ printed["main"] = <<>> /\ printed["child"] = <<>>
    <3>1. MainSaid = {} /\ ChildSaid = {} /\ Begun = 0 /\ MainKeeps = <<>> /\ ChildKeeps = <<>>
      BY <2>0 DEF MainSaid, ChildSaid, Begun, MainKeeps, ChildKeeps
    <3>. QED BY <1>0, <3>1, Zenon
  <2>2. CASE method = "GET"
    <3>1. /\ printed' = [printed EXCEPT !["main"] = <<"head", "method">>]
          /\ show' = "show" /\ UNCHANGED <<pipe, method, clength, body, child, page, seen>>
      BY <1>1, <2>2 DEF ReadHead
    <3>2. <<"head", "method">> \in Seq(Text)
      BY ShortTexts DEF Text
    <3>3. ShowTyped'
      BY <3>1, <3>2
    <3>4. printed'["main"] = <<"head", "method">> /\ printed'["child"] = <<>>
      BY <2>1, <3>1
    <3>5. page' \o pipe' = said
      BY <3>1 DEF said
    <3>6. MainSaid' = {} /\ ChildSaid' = {} /\ Begun' = 0 /\ MainKeeps' = <<"head", "method">> /\ ChildKeeps' = <<>>
      BY <2>0, <2>2, <3>1 DEF MainSaid, ChildSaid, Begun, MainKeeps, ChildKeeps
    <3>7. Flushed'
      BY <1>0, <2>0, <2>1, <3>1, <3>4, <3>5, <3>6 DEF Flushed
    <3>. QED BY <2>0, <2>2, <3>1, <3>3, <3>7 DEF Ordered
  <2>3. CASE method = "POST"
    <3>. DEFINE t == <<"head", "method", "length">>
    <3>1. /\ pipe' = pipe \o printed["main"] \o t /\ printed' = [printed EXCEPT !["main"] = <<>>]
          /\ show' = "body" /\ UNCHANGED <<method, clength, body, child, page, seen>>
      BY <1>1, <2>3 DEF ReadHead, Flush
    <3>2. t \in Seq(Text) /\ Texts(t) = {"head", "method", "length"} /\ Singly(t)
      BY ShortTexts DEF Text
    <3>. HIDE DEF t
    <3>3. /\ pipe' \in Seq(Text) /\ page' \in Seq(Text) /\ Singly(page' \o pipe')
          /\ Texts(page' \o pipe') = Texts(said) \union Texts(t)
          /\ Cardinality(Begins(page' \o pipe')) = Begun
      <4>1. pipe' = pipe \o <<>> \o t /\ page' = page /\ <<>> \in Seq(Text)
        BY <2>1, <3>1
      <4>2. "Begin Push" \notin Texts(t) /\ Texts(t) \intersect Texts(said) = {}
        BY <2>1, <3>2
      <4>. QED BY <3>2, <4>1, <4>2, FlushedOnEmpty DEF said
    <3>4. ShowTyped' /\ printed'["main"] = <<>> /\ printed'["child"] = <<>>
      BY <2>1, <3>1, <3>3
    <3>6. /\ {"head", "method", "length"} \subseteq MainSaid' /\ ChildSaid' = {} /\ Begun' = 0
          /\ MainKeeps' = <<>> /\ ChildKeeps' = <<>>
      BY <2>0, <2>3, <3>1 DEF MainSaid, ChildSaid, Begun, MainKeeps, ChildKeeps
    <3>7. Flushed'
      BY <2>0, <2>1, <3>1, <3>2, <3>3, <3>4, <3>6 DEF Flushed
    <3>. QED BY <2>0, <2>3, <3>1, <3>4, <3>7 DEF Ordered
  <2>4. CASE method = "none"
    <3>. DEFINE t == <<"head", "method error">>
    <3>1. /\ pipe' = pipe \o printed["main"] \o t /\ printed' = [printed EXCEPT !["main"] = <<>>]
          /\ show' = "exited" /\ UNCHANGED <<method, clength, body, child, page, seen>>
      BY <1>1, <2>4 DEF ReadHead, Flush
    <3>2. t \in Seq(Text) /\ Texts(t) = {"head", "method error"} /\ Singly(t)
      BY ShortTexts DEF Text
    <3>. HIDE DEF t
    <3>3. /\ pipe' \in Seq(Text) /\ page' \in Seq(Text) /\ Singly(page' \o pipe')
          /\ Texts(page' \o pipe') = Texts(said) \union Texts(t)
          /\ Cardinality(Begins(page' \o pipe')) = Begun
      <4>1. pipe' = pipe \o <<>> \o t /\ page' = page /\ <<>> \in Seq(Text)
        BY <2>1, <3>1
      <4>2. "Begin Push" \notin Texts(t) /\ Texts(t) \intersect Texts(said) = {}
        BY <2>1, <3>2
      <4>. QED BY <3>2, <4>1, <4>2, FlushedOnEmpty DEF said
    <3>4. ShowTyped' /\ printed'["main"] = <<>> /\ printed'["child"] = <<>>
      BY <2>1, <3>1, <3>3
    <3>6. /\ {"head", "method error"} \subseteq MainSaid' /\ ChildSaid' = {} /\ Begun' = 0
          /\ MainKeeps' = <<>> /\ ChildKeeps' = <<>>
      BY <2>0, <2>4, <3>1 DEF MainSaid, ChildSaid, Begun, MainKeeps, ChildKeeps
    <3>7. Flushed'
      BY <2>0, <2>1, <3>1, <3>2, <3>3, <3>4, <3>6 DEF Flushed
    <3>. QED BY <2>0, <2>4, <3>1, <3>4, <3>7 DEF Ordered
  <2>. QED BY <2>2, <2>3, <2>4
<1>2. CASE ReadBody
  <2>1. show = "body" /\ method = "POST" /\ child = "none" /\ ~seen
    BY <1>2 DEF ReadBody, Ordered
  <2>2. /\ show' \in {"body", "show"} /\ body' \in Nat
        /\ UNCHANGED <<method, clength, child, printed, pipe, page, seen>>
    BY <1>2, <2>1 DEF ReadBody
  <2>3. /\ MainSaid' = MainSaid /\ ChildSaid' = ChildSaid /\ Begun' = Begun
        /\ MainKeeps' = MainKeeps /\ ChildKeeps' = ChildKeeps
    BY <2>1, <2>2 DEF MainSaid, ChildSaid, Begun, MainKeeps, ChildKeeps
  <2>4. page' \o pipe' = said
    BY <2>2 DEF said
  <2>5. ShowTyped' /\ Ordered'
    BY <2>1, <2>2 DEF Ordered
  <2>6. Flushed'
    BY <1>0, <2>1, <2>2, <2>3, <2>4 DEF Flushed
  <2>. QED BY <2>5, <2>6
<1>3. CASE ShowWeather
  <2>. DEFINE t == <<"arg">>
  <2>1. show = "show" /\ child = "none" /\ ~seen /\ method \in {"GET", "POST"}
    BY <1>3 DEF ShowWeather, Ordered
  <2>2. /\ pipe' = pipe \o printed["main"] \o t
        /\ printed' = [printed EXCEPT !["main"] = <<"Begin Push">>]
        /\ show' = "fork" /\ UNCHANGED <<method, clength, body, child, page, seen>>
    BY <1>3 DEF ShowWeather
  <2>3. t \in Seq(Text) /\ Texts(t) = {"arg"} /\ Singly(t) /\ "Begin Push" \notin Texts(t)
    BY OneText
  <2>. HIDE DEF t
  <2>4. ChildSaid = {} /\ Begun = 0 /\ ChildKeeps = <<>> /\ printed["child"] = <<>>
    <3>1. ChildSaid = {} /\ Begun = 0 /\ ChildKeeps = <<>>
      BY <2>1 DEF ChildSaid, Begun, ChildKeeps
    <3>. QED BY <1>0, <3>1, Zenon
  <2>5. /\ MainSaid' = {"head", "method", "length", "method error", "arg"} /\ ChildSaid' = {}
        /\ Begun' = 0 /\ MainKeeps' = <<"Begin Push">> /\ ChildKeeps' = <<>>
    <3>1. show' = "fork" /\ UNCHANGED <<method, child>>
      BY <2>2, Zenon
    <3>2. MainSaid' = {"head", "method", "length", "method error", "arg"}
      BY <3>1 DEF MainSaid
    <3>3. ChildSaid' = {} /\ Begun' = 0
      BY <2>1, <3>1 DEF ChildSaid, Begun
    <3>4. MainKeeps' = <<"Begin Push">> /\ ChildKeeps' = <<>>
      BY <2>1, <3>1 DEF MainKeeps, ChildKeeps
    <3>. QED BY <3>2, <3>3, <3>4
  <2>6. /\ pipe' \in Seq(Text) /\ page' \in Seq(Text) /\ Singly(page' \o pipe')
        /\ Texts(page' \o pipe') \subseteq Texts(said) \union {"head", "method", "arg"}
        /\ Cardinality(Begins(page' \o pipe')) = 0
    <3>1. CASE method = "GET"
      <4>1. MainSaid = {} /\ MainKeeps = <<"head", "method">>
        BY <2>1, <3>1 DEF MainSaid, MainKeeps
      <4>2. Texts(said) \subseteq {"Begin Push"} /\ printed["main"] = <<"head", "method">>
        BY <1>0, <2>4, <4>1, Zenon
      <4>3. <<"head", "method">> \in Seq(Text)
        BY ShortTexts DEF Text
      <4>4. {"head", "method"} \intersect (Texts(said) \union Texts(t)) = {} /\ Texts(t) \intersect Texts(said) = {}
        BY <2>3, <4>2
      <4>5. pipe' = pipe \o <<"head", "method">> \o t /\ page' = page
        BY <2>2, <4>2, Zenon
      <4>6. /\ pipe' \in Seq(Text) /\ page' \in Seq(Text) /\ Singly(page' \o pipe')
            /\ Texts(page' \o pipe') = Texts(said) \union Texts(t) \union {"head", "method"}
            /\ Cardinality(Begins(page' \o pipe')) = Begun + 0
        BY <2>3, <4>3, <4>4, <4>5, FlushedOn, Buffers, Zenon DEF said
      <4>. QED BY <2>3, <2>4, <4>6
    <3>2. CASE method = "POST"
      <4>1. MainKeeps = <<>> /\ "arg" \notin MainSaid
        BY <2>1, <3>2 DEF MainKeeps, MainSaid
      <4>2. printed["main"] = <<>> /\ Texts(t) \intersect Texts(said) = {}
        BY <1>0, <2>3, <2>4, <4>1
      <4>3. pipe' = pipe \o <<>> \o t /\ page' = page
        BY <2>2, <4>2, Zenon
      <4>. QED BY <2>3, <2>4, <4>2, <4>3, FlushedOnEmpty DEF said
    <3>. QED BY <2>1, <3>1, <3>2
  <2>7. /\ printed' \in [{"main", "child"} -> Seq(Text)]
        /\ printed'["main"] = <<"Begin Push">> /\ printed'["child"] = <<>>
    BY <2>2, <2>4, Buffers
  <2>8. Texts(said) \subseteq {"Begin Push", "head", "method", "length", "method error", "arg"}
    BY <1>0, <2>1, <2>4 DEF MainSaid
  <2>9. Flushed'
    BY <2>1, <2>2, <2>5, <2>6, <2>7, <2>8 DEF Flushed
  <2>10. ShowTyped'
    BY <2>2, <2>6, <2>7
  <2>. QED BY <2>1, <2>2, <2>9, <2>10 DEF Ordered
<1>4. CASE ForkPush
  <2>1. show = "fork" /\ child = "none" /\ ~seen /\ method \in {"GET", "POST"}
    BY <1>4 DEF ForkPush, Ordered
  <2>2. /\ show' = "error" /\ UNCHANGED <<method, clength, body, pipe, page, seen>>
        /\ \/ child' = "born" /\ printed' = [printed EXCEPT !["child"] = printed["main"]]
           \/ child' = child /\ printed' = printed
    BY <1>4 DEF ForkPush
  <2>3. printed["main"] = <<"Begin Push">> /\ printed["child"] = <<>>
    BY <1>0, <2>1 DEF MainKeeps, ChildKeeps
  <2>4. /\ MainSaid' = MainSaid /\ ChildSaid' = ChildSaid /\ Begun' = Begun
        /\ MainKeeps' = <<"Begin Push">>
        /\ ChildKeeps' = IF child' = "born" THEN <<"Begin Push">> ELSE <<>>
    BY <2>1, <2>2 DEF MainSaid, ChildSaid, Begun, MainKeeps, ChildKeeps
  <2>5. /\ printed' \in [{"main", "child"} -> Seq(Text)] /\ child' \in {"born", "none"}
        /\ printed'["main"] = <<"Begin Push">>
        /\ printed'["child"] = IF child' = "born" THEN <<"Begin Push">> ELSE <<>>
    BY <2>1, <2>2, <2>3
  <2>6. page' \o pipe' = said
    BY <2>2 DEF said
  <2>7. Flushed'
    BY <1>0, <2>2, <2>4, <2>5, <2>6 DEF Flushed
  <2>. QED BY <2>1, <2>2, <2>5, <2>7 DEF Ordered
<1>5. CASE SayError
  <2>. DEFINE t == <<"exec error">>
  <2>1. show = "error" /\ method \in {"GET", "POST"} /\ ~seen
    BY <1>5 DEF SayError, Ordered
  <2>2. /\ pipe' = pipe \o printed["main"] \o t /\ printed' = [printed EXCEPT !["main"] = <<>>]
        /\ show' = "end" /\ UNCHANGED <<method, clength, body, child, page, seen>>
    BY <1>5 DEF SayError, Flush
  <2>3. t \in Seq(Text) /\ Texts(t) = {"exec error"} /\ Singly(t) /\ "Begin Push" \notin Texts(t)
    BY OneText
  <2>. HIDE DEF t
  <2>4. MainKeeps = <<"Begin Push">> /\ "exec error" \notin MainSaid \union ChildSaid
    BY <2>1 DEF MainKeeps, MainSaid, ChildSaid
  <2>5. /\ MainSaid' = MainSaid \union {"exec error"} /\ ChildSaid' = ChildSaid
        /\ Begun' = Begun + 1 /\ MainKeeps' = <<>> /\ ChildKeeps' = ChildKeeps
    BY <2>1, <2>2 DEF MainSaid, ChildSaid, Begun, MainKeeps, ChildKeeps
  <2>6. /\ pipe' \in Seq(Text) /\ page' \in Seq(Text) /\ Singly(page' \o pipe')
        /\ Texts(page' \o pipe') = Texts(said) \union Texts(t) \union {"Begin Push"}
        /\ Cardinality(Begins(page' \o pipe')) = Begun + 1
    <3>1. pipe' = pipe \o <<"Begin Push">> \o t /\ page' = page
      BY <1>0, <2>2, <2>4, Zenon
    <3>2. Texts(t) \intersect Texts(said) = {}
      BY <1>0, <2>3, <2>4
    <3>. QED BY <2>3, <3>1, <3>2, FlushedOnBegin, Zenon DEF said
  <2>7. ShowTyped' /\ printed'["main"] = <<>> /\ printed'["child"] = printed["child"]
    <3>1. /\ printed' = [printed EXCEPT !["main"] = <<>>] /\ show' \in {"end", "exited"}
          /\ UNCHANGED <<method, clength, body, child, page, seen>>
      BY <2>2, Zenon
    <3>2. pipe' \in Seq(Text) /\ page' \in Seq(Text)
      BY <2>6, Zenon
    <3>. QED BY <3>1, <3>2
  <2>8. child' = "exited" => Texts(page' \o pipe') \intersect {"execl error", "pushed"} # {}
    BY <1>0, <2>2, <2>6
  <2>9. Flushed'
    BY <1>0, <2>3, <2>5, <2>6, <2>7, <2>8 DEF Flushed
  <2>. QED BY <2>1, <2>2, <2>7, <2>9 DEF Ordered
<1>6. CASE ShowEnds
  <2>. DEFINE t == <<"tail">>
  <2>1. show = "end" /\ method \in {"GET", "POST"} /\ ~seen
    BY <1>6 DEF ShowEnds, Ordered
  <2>2. /\ pipe' = pipe \o printed["main"] \o t /\ printed' = [printed EXCEPT !["main"] = <<>>]
        /\ show' = "exited" /\ UNCHANGED <<method, clength, body, child, page, seen>>
    BY <1>6 DEF ShowEnds, Flush
  <2>3. t \in Seq(Text) /\ Texts(t) = {"tail"} /\ Singly(t) /\ "Begin Push" \notin Texts(t)
    BY OneText
  <2>. HIDE DEF t
  <2>4. MainKeeps = <<>> /\ "tail" \notin MainSaid \union ChildSaid
    BY <2>1 DEF MainKeeps, MainSaid, ChildSaid
  <2>5. /\ MainSaid' = MainSaid \union {"tail"} /\ ChildSaid' = ChildSaid
        /\ Begun' = Begun /\ MainKeeps' = <<>> /\ ChildKeeps' = ChildKeeps
    BY <2>1, <2>2 DEF MainSaid, ChildSaid, Begun, MainKeeps, ChildKeeps
  <2>6. /\ pipe' \in Seq(Text) /\ page' \in Seq(Text) /\ Singly(page' \o pipe')
        /\ Texts(page' \o pipe') = Texts(said) \union Texts(t)
        /\ Cardinality(Begins(page' \o pipe')) = Begun
    <3>1. pipe' = pipe \o <<>> \o t /\ page' = page
      BY <1>0, <2>2, <2>4, Zenon
    <3>2. Texts(t) \intersect Texts(said) = {}
      BY <1>0, <2>3, <2>4
    <3>. QED BY <2>3, <3>1, <3>2, FlushedOnEmpty, Zenon DEF said
  <2>7. ShowTyped' /\ printed'["main"] = <<>> /\ printed'["child"] = printed["child"]
    <3>1. /\ printed' = [printed EXCEPT !["main"] = <<>>] /\ show' \in {"end", "exited"}
          /\ UNCHANGED <<method, clength, body, child, page, seen>>
      BY <2>2, Zenon
    <3>2. pipe' \in Seq(Text) /\ page' \in Seq(Text)
      BY <2>6, Zenon
    <3>. QED BY <3>1, <3>2
  <2>8. child' = "exited" => Texts(page' \o pipe') \intersect {"execl error", "pushed"} # {}
    BY <1>0, <2>2, <2>6
  <2>9. Flushed'
    BY <1>0, <2>3, <2>5, <2>6, <2>7, <2>8 DEF Flushed
  <2>. QED BY <2>1, <2>2, <2>7, <2>9 DEF Ordered
<1>. QED BY <1>1, <1>2, <1>3, <1>4, <1>5, <1>6

LEMMA Emptied ==
  ASSUME printed \in [{"main", "child"} -> Seq(Text)],
         printed' = [printed EXCEPT !["child"] = <<>>]
  PROVE  /\ printed' \in [{"main", "child"} -> Seq(Text)]
         /\ printed'["main"] = printed["main"] /\ printed'["child"] = <<>>
OBVIOUS

\* The child up to its end, and the server.
LEMMA ChildStepInv ==
  ASSUME PageInv, BeginExecl \/ Execl \/ PushEnds
  PROVE  PageInv'
<1>. DEFINE said == page \o pipe
<1>. USE DEF PageInv, ShowTyped
<1>0. /\ Texts(said) \subseteq {"Begin Push"} \union MainSaid \union ChildSaid
      /\ printed["main"] = MainKeeps /\ printed["child"] = ChildKeeps
      /\ Singly(said) /\ Cardinality(Begins(said)) = Begun
  BY DEF Flushed
<1>. HIDE DEF said
<1>1. CASE BeginExecl
  <2>. DEFINE t == <<"Begin execl">>
  <2>1. /\ child = "born" /\ child' = "execl" /\ method \in {"GET", "POST"} /\ ~seen
        /\ show \in {"error", "end", "exited"} /\ UNCHANGED <<show, method, clength, body, page, seen>>
    BY <1>1 DEF BeginExecl, Ordered
  <2>2. pipe' = pipe \o printed["child"] \o t /\ printed' = [printed EXCEPT !["child"] = <<>>]
    BY <1>1 DEF BeginExecl, Flush
  <2>3. t \in Seq(Text) /\ Texts(t) = {"Begin execl"} /\ Singly(t) /\ "Begin Push" \notin Texts(t)
    BY OneText
  <2>. HIDE DEF t
  <2>4. ChildKeeps = <<"Begin Push">> /\ "Begin execl" \notin MainSaid \union ChildSaid
    BY <2>1 DEF ChildKeeps, MainSaid, ChildSaid
  <2>5. /\ ChildSaid' = ChildSaid \union {"Begin execl"} /\ MainSaid' = MainSaid
        /\ Begun' = Begun + 1 /\ MainKeeps' = MainKeeps /\ ChildKeeps' = <<>>
    BY <2>1 DEF MainSaid, ChildSaid, Begun, MainKeeps, ChildKeeps
  <2>6. /\ pipe' \in Seq(Text) /\ page' \in Seq(Text) /\ Singly(page' \o pipe')
        /\ Texts(page' \o pipe') = Texts(said) \union Texts(t) \union {"Begin Push"}
        /\ Cardinality(Begins(page' \o pipe')) = Begun + 1
    <3>1. pipe' = pipe \o <<"Begin Push">> \o t /\ page' = page
      BY <1>0, <2>1, <2>2, <2>4, Zenon
    <3>2. Texts(t) \intersect Texts(said) = {}
      BY <1>0, <2>3, <2>4
    <3>. QED BY <2>3, <3>1, <3>2, FlushedOnBegin, Zenon DEF said
  <2>7. ShowTyped' /\ printed'["main"] = printed["main"] /\ printed'["child"] = <<>>
    <3>1. printed' = [printed EXCEPT !["child"] = <<>>]
      BY <2>2, Zenon
    <3>2. pipe' \in Seq(Text) /\ page' \in Seq(Text)
      BY <2>6, Zenon
    <3>. QED BY <2>1, <3>1, <3>2
  <2>8. Flushed'
    BY <1>0, <2>1, <2>3, <2>5, <2>6, <2>7 DEF Flushed
  <2>. QED BY <2>1, <2>7, <2>8 DEF Ordered
<1>2. ASSUME NEW x \in {"execl error", "pushed"}, child \in {"execl", "push"},
             child' = "exited", Flush("child", <<x>>),
             UNCHANGED <<show, method, clength, body, page, seen>>
      PROVE  PageInv'
  <2>. DEFINE t == <<x>>
  <2>1. /\ method \in {"GET", "POST"} /\ ~seen /\ show \in {"error", "end", "exited"}
        /\ child \in {"execl", "push"} /\ child' = "exited"
        /\ UNCHANGED <<show, method, clength, body, page, seen>>
    BY <1>2 DEF Ordered
  <2>2. pipe' = pipe \o printed["child"] \o t /\ printed' = [printed EXCEPT !["child"] = <<>>]
    BY <1>2 DEF Flush
  <2>3. t \in Seq(Text) /\ Texts(t) = {x} /\ Singly(t) /\ "Begin Push" \notin Texts(t)
    BY OneText
  <2>. HIDE DEF t
  <2>4. ChildKeeps = <<>> /\ x \notin MainSaid \union ChildSaid /\ x # "Begin Push"
    BY <2>1 DEF ChildKeeps, MainSaid, ChildSaid
  <2>5. /\ ChildSaid' = ChildSaid \union {"execl error", "pushed"} /\ MainSaid' = MainSaid
        /\ Begun' = Begun /\ MainKeeps' = MainKeeps /\ ChildKeeps' = <<>>
    BY <2>1 DEF MainSaid, ChildSaid, Begun, MainKeeps, ChildKeeps
  <2>6. /\ pipe' \in Seq(Text) /\ page' \in Seq(Text) /\ Singly(page' \o pipe')
        /\ Texts(page' \o pipe') = Texts(said) \union Texts(t)
        /\ Cardinality(Begins(page' \o pipe')) = Begun
    <3>1. pipe' = pipe \o <<>> \o t /\ page' = page
      BY <1>0, <2>1, <2>2, <2>4, Zenon
    <3>2. Texts(t) \intersect Texts(said) = {}
      BY <1>0, <2>3, <2>4
    <3>. QED BY <2>3, <3>1, <3>2, FlushedOnEmpty, Zenon DEF said
  <2>7. ShowTyped' /\ printed'["main"] = printed["main"] /\ printed'["child"] = <<>>
    <3>1. printed' = [printed EXCEPT !["child"] = <<>>]
      BY <2>2, Zenon
    <3>2. pipe' \in Seq(Text) /\ page' \in Seq(Text)
      BY <2>6, Zenon
    <3>3. /\ printed' \in [{"main", "child"} -> Seq(Text)]
          /\ printed'["main"] = printed["main"] /\ printed'["child"] = <<>>
      <4>1. printed \in [{"main", "child"} -> Seq(Text)]
        BY Zenon
      <4>. QED BY <3>1, <4>1, Emptied, Zenon
    <3>4. ShowTyped'
      BY <2>1, <3>2, <3>3
    <3>. QED BY <3>3, <3>4
  <2>8. Texts(page' \o pipe') \intersect {"execl error", "pushed"} # {}
    BY <2>3, <2>6
  <2>9. Flushed'
    BY <1>0, <2>3, <2>5, <2>6, <2>7, <2>8 DEF Flushed
  <2>. QED BY <2>1, <2>7, <2>9 DEF Ordered
<1>3. CASE Execl
  <2>1. CASE child' = "exited" /\ Flush("child", <<"execl error">>)
    BY <1>2, <1>3, <2>1 DEF Execl
  <2>2. CASE child' = "push" /\ UNCHANGED <<pipe, printed>>
    <3>1. child = "execl" /\ UNCHANGED <<show, method, clength, body, page, seen>>
      BY <1>3 DEF Execl
    <3>2. /\ ChildSaid' = ChildSaid /\ MainSaid' = MainSaid
          /\ Begun' = Begun /\ MainKeeps' = MainKeeps /\ ChildKeeps' = ChildKeeps
      BY <2>2, <3>1 DEF MainSaid, ChildSaid, Begun, MainKeeps, ChildKeeps
    <3>3. page' \o pipe' = said
      BY <2>2, <3>1 DEF said
    <3>4. Flushed'
      BY <1>0, <2>2, <3>2, <3>3 DEF Flushed
    <3>. QED BY <2>2, <3>1, <3>4 DEF Ordered
  <2>. QED BY <1>3, <2>1, <2>2 DEF Execl
<1>4. CASE PushEnds
  BY <1>2, <1>4 DEF PushEnds
<1>. QED BY <1>1, <1>3, <1>4

\* What the server reads of the page it takes from the pipe.
LEMMA ReadFromPipe ==
  ASSUME NEW p \in Seq(Text), NEW q \in Seq(Text), q # <<>>
  PROVE  /\ Append(p, Head(q)) \in Seq(Text) /\ Tail(q) \in Seq(Text)
         /\ Append(p, Head(q)) \o Tail(q) = p \o q
<1>1. Head(q) \in Text /\ Tail(q) \in Seq(Text) /\ q = <<Head(q)>> \o Tail(q)
  BY HeadTailProperties
<1>2. Append(p, Head(q)) = p \o <<Head(q)>> /\ <<Head(q)>> \in Seq(Text)
  BY <1>1, AppendIsConcat
<1>3. Append(p, Head(q)) \in Seq(Text)
  BY <1>1
<1>4. p \o (<<Head(q)>> \o Tail(q)) = (p \o <<Head(q)>>) \o Tail(q)
  BY <1>1, <1>2, InAnyOrder, Zenon
<1>. QED BY <1>1, <1>2, <1>3, <1>4, Zenon

LEMMA PageStepInv == PageInv /\ [ShowNext]_showVars => PageInv'
<1>. SUFFICES ASSUME PageInv, [ShowNext]_showVars PROVE PageInv'
  OBVIOUS
<1>1. ASSUME page' \o pipe' = page \o pipe, page' \in Seq(Text), pipe' \in Seq(Text),
             UNCHANGED <<show, method, clength, body, child, printed>>, Ordered'
      PROVE  PageInv'
  <2>1. /\ MainSaid' = MainSaid /\ ChildSaid' = ChildSaid /\ Begun' = Begun
        /\ MainKeeps' = MainKeeps /\ ChildKeeps' = ChildKeeps
    BY <1>1 DEF MainSaid, ChildSaid, Begun, MainKeeps, ChildKeeps
  <2>2. Flushed'
    BY <1>1, <2>1 DEF PageInv, Flushed
  <2>. QED BY <1>1, <2>2 DEF PageInv, ShowTyped
<1>2. CASE ReadPage
  <2>1. /\ pipe # <<>> /\ page \in Seq(Text) /\ pipe \in Seq(Text) /\ ~seen
        /\ page' = Append(page, Head(pipe)) /\ pipe' = Tail(pipe)
        /\ UNCHANGED <<show, method, clength, body, child, printed, seen>>
    BY <1>2 DEF ReadPage, PageInv, ShowTyped, Ordered
  <2>2. page' \in Seq(Text) /\ pipe' \in Seq(Text) /\ page' \o pipe' = page \o pipe
    BY <2>1, ReadFromPipe
  <2>3. Ordered'
    BY <2>1 DEF PageInv, Ordered
  <2>. QED BY <1>1, <2>1, <2>2, <2>3
<1>3. CASE PageEnds
  BY <1>1, <1>3 DEF PageEnds, PageInv, ShowTyped, Ordered
<1>4. CASE UNCHANGED showVars
  BY <1>1, <1>4 DEF showVars, PageInv, ShowTyped, Ordered
<1>. QED BY <1>2, <1>3, <1>4, MainStepInv, ChildStepInv DEF ShowNext

\* weather_show.cpp: however main, the copy it forks and the server interleave, and
\* whether fork or execl fails, no line but "Begin Push" (line 20) is in the page
\* twice, and a page that has ended holds what the push printed (lines 28-32).
THEOREM PageIsComplete == ShowSpec => []PageSafe
<1>1. ASSUME PageInv PROVE PrintedOnce
  <2>. DEFINE said == page \o pipe
  <2>1. /\ Singly(said) /\ Cardinality(Begins(said)) = Begun
    BY <1>1 DEF PageInv, Flushed
  <2>2. page \in Seq(Text) /\ pipe \in Seq(Text)
    BY <1>1 DEF PageInv, ShowTyped
  <2>3. said \in Seq(Text) /\ IsFiniteSet(Begins(said))
    BY <2>2, ConcatProperties, BeginsBehind
  <2>. HIDE DEF said
  <2>4. SUFFICES ASSUME NEW i \in DOMAIN said
                 PROVE  LET n == Cardinality({j \in DOMAIN said : said[j] = said[i]})
                        IN  n = 1 \/ (said[i] = "Begin Push" /\ n = 2 /\ child # "none")
    BY DEF PrintedOnce, said
  <2>. DEFINE N == {j \in DOMAIN said : said[j] = said[i]}
  <2>5. CASE said[i] # "Begin Push"
    <3>1. N = {i}
      BY <2>1, <2>5 DEF Singly
    <3>. QED BY <3>1, FS_Singleton, Zenon
  <2>6. CASE said[i] = "Begin Push"
    <3>1. N = Begins(said)
      BY <2>6 DEF Begins
    <3>2. Begins(said) # {}
      BY <2>6 DEF Begins
    <3>3. Begun # 0
      BY <2>1, <2>3, <3>2, FS_EmptySet, Zenon
    <3>4. Begun = 1 \/ (Begun = 2 /\ child # "none")
      BY <3>3 DEF Begun
    <3>. QED BY <2>1, <2>6, <3>1, <3>4, Zenon
  <2>. QED BY <2>5, <2>6
<1>2. ASSUME PageInv PROVE PageHoldsPush
  <2>. SUFFICES ASSUME seen, child # "none"
                PROVE  \E i \in DOMAIN page : page[i] \in {"pushed", "execl error"}
    BY DEF PageHoldsPush
  <2>1. pipe = <<>> /\ child = "exited" /\ page \in Seq(Text)
    BY <1>2 DEF PageInv, ShowTyped, Ordered
  <2>2. page \o pipe = page
    BY <2>1, ConcatEmptySeq
  <2>3. Texts(page) \intersect {"execl error", "pushed"} # {}
    BY <1>2, <2>1, <2>2 DEF PageInv, Flushed
  <2>. QED BY <2>3 DEF Texts
<1>. QED BY <1>1, <1>2, PageInitial, PageStepInv, PTL DEF ShowSpec, PageSafe

=============================================================================
