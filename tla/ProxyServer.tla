---------------------------- MODULE ProxyServer ----------------------------
(***************************************************************************)
(* The program as a proxy: main, and the one of the two proxies that the   *)
(* settings choose for every context (create_context).  As an echo server  *)
(* it is in EchoTcp and UdpEcho.                                           *)
(***************************************************************************)
EXTENDS Settings, EchoProxy, UdpProxy

serverVars == <<bootVars, vars, udpProxyVars>>

ServerInit == SettingsInit /\ Init /\ UdpProxyInit

(* s->remote_use_udp.                                                      *)
Proxies(useUdp) ==
  boot = "serve" /\ settings["proxy"] /\ settings["remote-use-udp"] = useUdp

ServerNext ==
  \/ SettingsNext /\ UNCHANGED <<vars, udpProxyVars>>
  \/ Proxies(FALSE) /\ ProxyNext /\ UNCHANGED <<bootVars, udpProxyVars>>
  \/ Proxies(TRUE) /\ UdpProxyNext /\ UNCHANGED <<bootVars, vars>>

(* Over TCP, the thread runs, the peers take what is sent to them, and the *)
(* remote accepts or refuses a connection and answers.                     *)
ServerFairness ==
  /\ WF_vars(Proxies(FALSE) /\ ProxyThread)
  /\ \A e \in Peers : WF_vars(Proxies(FALSE) /\ Take(e))
  /\ \A e \in Remotes :
       /\ WF_vars(Proxies(FALSE) /\ (Established(e) \/ Refused(e)))
       /\ WF_vars(Proxies(FALSE) /\ Answer(e))

ServerSpec == ServerInit /\ [][ServerNext]_serverVars /\ ServerFairness

-----------------------------------------------------------------------------
(* The type invariant.                                                     *)
ServerTypeOK ==
  /\ argv \in Argvs \cup {<<>>} /\ at \in 1 .. Len(argv) + 1
  /\ DOMAIN settings = Options
  /\ \A name \in Flags : settings[name] \in BOOLEAN
  /\ \A name \in Ports : settings[name] \in 0 .. PortSize - 1
  /\ boot \in {"parse", "parsed", "refused", "exit", "serve"}
  /\ ProxyTypeOK /\ UdpProxyTypeOK
=============================================================================
