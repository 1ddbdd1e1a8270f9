---------------------------- MODULE MCTerminals -----------------------------
(* The programs at a terminal for TLC: `terminal' chooses one at the start,   *)
(* of the UDP client the half that shows or the half that sends.  "page" is   *)
(* not at a terminal: it is the page that starts a push.                      *)
EXTENDS Sniffer, UdpClient, ChatClient, ControlScript, WeatherShow

VARIABLE terminal

MCInit ==
  /\ terminal \in {"sniffer", "show", "send", "chat", "ctl", "page"}
  /\ SniffInit /\ UdpInit /\ ChatInit /\ CtlInit /\ ShowInit
  /\ terminal # "sniffer" => tty /\ garbage["total"] = 0
  /\ terminal # "page" => method = "none" /\ clength = 0

Sniffing == terminal = "sniffer" /\ UNCHANGED <<udpVars, chatVars, ctlVars, showVars, terminal>>
Udp == terminal \in {"show", "send"} /\ UNCHANGED <<sniffVars, chatVars, ctlVars, showVars, terminal>>
Chatting == terminal = "chat" /\ UNCHANGED <<sniffVars, udpVars, ctlVars, showVars, terminal>>
Control == terminal = "ctl" /\ UNCHANGED <<sniffVars, udpVars, chatVars, showVars, terminal>>
Paging == terminal = "page" /\ UNCHANGED <<sniffVars, udpVars, chatVars, ctlVars, terminal>>

\* The thread of the program, SigInt_Fun, and the network, which delivers what
\* it does not lose.
Progress ==
  \/ Sniffing /\ SniffStep
  \/ Chatting /\ ChatStep
  \/ Paging /\ ShowNext
  \/ Udp /\ (UdpHandler \/ Arrives(1))

UdpShows == terminal = "show" /\ (RecvData \/ ShowMessage \/ ListUser)
UdpSends ==
  /\ terminal = "send"
  /\ HeaderTurn \/ CreateInput \/ SendLine \/ \E k \in 1 .. MaxFlight : Arrives(k) \/ GetsLost(k)

Others ==
  \/ Sniffing /\ SniffWorld
  \/ Chatting /\ ChatWorld
  \/ Udp /\ (UdpStart \/ Interrupt \/ UdpShows \/ UdpSends)
  \/ Control /\ CtlNext

MCNext == Progress \/ Others

mcVars == <<sniffVars, udpVars, chatVars, ctlVars, showVars, terminal>>

MCSpec == MCInit /\ [][MCNext]_mcVars /\ WF_mcVars(Progress)
=============================================================================
