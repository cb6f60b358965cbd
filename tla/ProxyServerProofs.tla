------------------------- MODULE ProxyServerProofs -------------------------
(***************************************************************************)
(* Proofs about the program as a proxy, for every set of argument lists:   *)
(* what parse_args reads, and that what is proved of either proxy holds of *)
(* the program.                                                            *)
(***************************************************************************)
EXTENDS ProxyServer, EchoProxyProofs, UdpProxyProofs

(***************************************************************************)
(* The argument loop.                                                      *)
(***************************************************************************)
EntryType == [name : STRING, val : Int \cup {Absent}]

Formed(args, i) ==
  IF args[i].name = Word
    THEN i > 1 /\ args[i - 1].name # Word /\ args[i - 1].val = Absent
    ELSE IsAccepted(args, i)

(* Where an option is given before n.                                      *)
GivenBelow(args, name, n) == {i \in 1 .. n - 1 : args[i].name = name}

Latest(given) == CHOOSE i \in given : \A j \in given : j <= i

MeantBelow(args, name, n) ==
  IF GivenBelow(args, name, n) = {} THEN Unset(name)
  ELSE Stored(name, ValueAt(args, Latest(GivenBelow(args, name, n))))

(* Before the entry that is looked at all is well formed and its meaning   *)
(* stored; a word there has no option before it that it is the value of.   *)
ParseInv ==
  /\ argv \in Argvs \cup {<<>>}
  /\ argv \in Seq(EntryType) /\ at \in 1 .. Len(argv) + 1
  /\ boot \in {"parse", "parsed", "refused", "exit", "serve"}
  /\ DOMAIN settings = Options
  /\ \A name \in Flags : settings[name] \in BOOLEAN
  /\ \A name \in Ports : settings[name] \in 0 .. PortSize - 1
  /\ boot = "parse" =>
       /\ settings = [name \in Options |-> MeantBelow(argv, name, at)]
       /\ \A i \in 1 .. at - 1 : Formed(argv, i)
       /\ at > 1 /\ IsWord(argv, at) => argv[at - 1].name = Word \/ argv[at - 1].val # Absent
  /\ SettingsAsGiven

(* The latest of some places and a later one is the later one.             *)
LEMMA LatestIsLater ==
  ASSUME NEW given, given \subseteq Int, NEW n \in given, \A i \in given : i <= n
  PROVE  Latest(given) = n
<1>1. Latest(given) \in given /\ \A j \in given : j <= Latest(given)
  BY DEF Latest
<1>2. Latest(given) <= n /\ n <= Latest(given) /\ Latest(given) \in Int
  BY <1>1
<1> QED BY <1>2

(* At the end of the list the loop has read what the list means.           *)
LEMMA MeantAtEnd ==
  ASSUME NEW args \in Seq(EntryType)
  PROVE  /\ Meant(args) = [name \in Options |-> MeantBelow(args, name, Len(args) + 1)]
         /\ WellFormed(args) <=> \A i \in 1 .. Len(args) : Formed(args, i)
<1>1. DOMAIN args = 1 .. Len(args) /\ 1 .. (Len(args) + 1) - 1 = 1 .. Len(args)
  OBVIOUS
<1>2. ASSUME NEW name PROVE GivenBelow(args, name, Len(args) + 1) = {i \in DOMAIN args : args[i].name = name}
  BY <1>1 DEF GivenBelow
<1>3. Meant(args) = [name \in Options |-> MeantBelow(args, name, Len(args) + 1)]
  <2>1. ASSUME NEW name \in Options
        PROVE  Meant(args)[name] = MeantBelow(args, name, Len(args) + 1)
    <3> DEFINE given == {i \in DOMAIN args : args[i].name = name}
    <3>1. GivenBelow(args, name, Len(args) + 1) = given
      BY <1>2
    <3>2. Meant(args)[name] = IF given = {} THEN Unset(name)
                              ELSE Stored(name, ValueAt(args, Latest(given)))
      BY Zenon DEF Meant, Latest
    <3> HIDE DEF given
    <3> QED BY <3>1, <3>2 DEF MeantBelow
  <2> QED BY <2>1, Zenon DEF Meant
<1>4. WellFormed(args) <=> \A i \in 1 .. Len(args) : Formed(args, i)
  BY <1>1, Zenon DEF WellFormed, Formed
<1> QED BY <1>3, <1>4

-----------------------------------------------------------------------------
LEMMA NamesDiffer ==
  /\ Word \notin Options /\ \A name \in Flags : name \notin Ports
  /\ Flags \subseteq Options /\ Ports \subseteq Options
BY DEF Word, Options, Flags, Ports

LEMMA EntryOf ==
  ASSUME NEW args \in Seq(EntryType), NEW i \in 1 .. Len(args)
  PROVE  args[i].val \in Int \cup {Absent}
<1>1. args[i] \in EntryType
  OBVIOUS
<1> QED BY <1>1 DEF EntryType

(* What an accepted entry stores has the type of its option.               *)
LEMMA StoredType ==
  ASSUME NEW args \in Seq(EntryType), NEW i \in 1 .. Len(args), IsAccepted(args, i)
  PROVE  LET val == Stored(args[i].name, ValueAt(args, i)) IN
         /\ args[i].name \in Flags => val \in BOOLEAN
         /\ args[i].name \in Ports => val \in 0 .. PortSize - 1
<1> DEFINE name == args[i].name
           v == ValueAt(args, i)
<1>1. name \in Flags => Stored(name, v) \in BOOLEAN
  BY DEF Stored
<1>2. ASSUME name \in Ports PROVE Stored(name, v) \in 0 .. PortSize - 1
  <2>1. name \notin Flags /\ v # Absent
    BY <1>2, NamesDiffer DEF IsAccepted
  <2>2. v \in Int
    <3>1. args[i].val \in Int \cup {Absent}
      BY EntryOf
    <3>2. IsWord(args, i + 1) => args[i + 1].val \in Int \cup {Absent}
      BY EntryOf DEF IsWord
    <3> QED BY <2>1, <3>1, <3>2 DEF ValueAt
  <2>3. Stored(name, v) = v % PortSize
    BY <1>2, <2>1 DEF Stored
  <2>4. PortSize \in Nat \ {0}
    BY DEF PortSize
  <2> HIDE DEF name, v
  <2> QED BY <2>2, <2>3, <2>4
<1> QED BY <1>1, <1>2

(* One option, with the word that it may take.                             *)
LEMMA ParseArgKeeps == ParseInv /\ ParseArg => ParseInv'
<1> SUFFICES ASSUME ParseInv, ParseArg PROVE ParseInv'
  OBVIOUS
<1> DEFINE i == at
           k == Consumed(argv, i)
           name == argv[i].name
           v == Stored(name, ValueAt(argv, i))
<1>1. /\ argv \in Seq(EntryType) /\ i \in 1 .. Len(argv) /\ IsAccepted(argv, i) /\ name \in Options
      /\ boot = "parse" /\ UNCHANGED <<argv, boot>> /\ at' = i + k
      /\ settings' = [settings EXCEPT ![name] = v]
  BY DEF ParseInv, ParseArg, IsAccepted
<1>2. \/ k = 1 /\ ~(argv[i].val = Absent /\ IsWord(argv, i + 1))
      \/ k = 2 /\ argv[i].val = Absent /\ IsWord(argv, i + 1)
  BY DEF Consumed
<1>3. name # Word
  BY <1>1, NamesDiffer
<1>4. /\ settings = [m \in Options |-> MeantBelow(argv, m, i)]
      /\ \A j \in 1 .. i - 1 : Formed(argv, j)
  BY <1>1 DEF ParseInv
<1>5. at' \in 1 .. Len(argv) + 1
  <2>1. IsWord(argv, i + 1) => i + 1 <= Len(argv)
    BY DEF IsWord
  <2> HIDE DEF k
  <2> QED BY <1>1, <1>2, <2>1
<1>6. ASSUME NEW m \in Options
      PROVE  /\ m # name => GivenBelow(argv, m, i + k) = GivenBelow(argv, m, i)
             /\ m = name => GivenBelow(argv, m, i + k) = GivenBelow(argv, m, i) \cup {i}
  <2>1. k = 2 => argv[i + 1].name # m
    BY <1>2, NamesDiffer DEF IsWord
  <2>2. i \in Int
    BY <1>1
  <2>3. argv[i].name = name
    OBVIOUS
  <2>4. ASSUME NEW j \in Int
        PROVE  j \in 1 .. (i + k) - 1 <=> j \in 1 .. i - 1 \/ j = i \/ (k = 2 /\ j = i + 1)
    <3>1. i >= 1 /\ k \in {1, 2}
      BY <1>1, <1>2
    <3> HIDE DEF i, k
    <3> QED BY <2>2, <3>1
  <2>5. k \in Int
    BY <1>2
  <2> HIDE DEF k, i, name
  <2>6. ASSUME NEW j
        PROVE  j \in GivenBelow(argv, m, i + k) <=>
                 j \in GivenBelow(argv, m, i) \/ (j = i /\ m = name)
    <3>1. (j \in 1 .. (i + k) - 1 => j \in Int) /\ (j \in 1 .. i - 1 => j \in Int)
      BY <2>2, <2>5
    <3> QED BY <2>1, <2>2, <2>3, <2>4, <3>1, Zenon DEF GivenBelow
  <2> QED BY <2>6
<1>7. ASSUME NEW m \in Options
      PROVE  settings'[m] = MeantBelow(argv, m, i + k)
  <2>1. CASE m # name
    <3>1. settings'[m] = MeantBelow(argv, m, i)
      BY <1>1, <1>4, <2>1
    <3> QED BY <1>6, <2>1, <3>1 DEF MeantBelow
  <2>2. CASE m = name
    <3>1. settings'[m] = v
      BY <1>1, <1>4, <2>2
    <3> DEFINE given == GivenBelow(argv, m, i + k)
    <3>2. given = GivenBelow(argv, m, i) \cup {i}
      BY <1>6, <2>2
    <3>3. given \subseteq Int /\ i \in given /\ \A j \in given : j <= i
      BY <1>1, <3>2 DEF GivenBelow
    <3> HIDE DEF given
    <3>4. Latest(given) = i /\ given # {}
      BY <3>3, LatestIsLater
    <3> QED BY <2>2, <3>1, <3>4 DEF MeantBelow, given
  <2> QED BY <2>1, <2>2
<1>8. settings' = [m \in Options |-> MeantBelow(argv, m, i + k)]
  <2>1. settings' = [m \in Options |-> settings'[m]]
    BY <1>1, <1>4
  <2> QED BY <1>7, <2>1, Zenon
<1>9. ASSUME NEW j \in 1 .. (i + k) - 1 PROVE Formed(argv, j)
  <2>1. i \in Int /\ j \in Int
    BY <1>1
  <2>2. CASE j < i
    <3>1. j \in 1 .. i - 1
      BY <2>1, <2>2
    <3> QED BY <1>4, <3>1
  <2>3. CASE j = i
    BY <1>1, <1>3, <2>3 DEF Formed
  <2>4. CASE j > i
    <3>1. k = 2 /\ j = i + 1
      <4> HIDE DEF k
      <4> QED BY <1>2, <2>1, <2>4
    <3>2. j > 1 /\ j - 1 = i /\ argv[j].name = Word /\ argv[i].val = Absent
      BY <1>1, <1>2, <3>1 DEF IsWord
    <3> QED BY <1>3, <3>2 DEF Formed
  <2> QED BY <2>1, <2>2, <2>3, <2>4
<1>10. ASSUME IsWord(argv, i + k)
       PROVE  argv[(i + k) - 1].name = Word \/ argv[(i + k) - 1].val # Absent
  <2>1. CASE k = 1
    <3>1. (i + k) - 1 = i
      BY <1>1, <2>1
    <3> QED BY <1>2, <1>10, <2>1, <3>1
  <2>2. CASE k = 2
    <3>1. (i + k) - 1 = i + 1
      BY <1>1, <2>2
    <3> QED BY <1>2, <2>2, <3>1 DEF IsWord
  <2> QED BY <1>2, <2>1, <2>2
<1>11. /\ DOMAIN settings' = Options
       /\ \A m \in Flags : settings'[m] \in BOOLEAN
       /\ \A m \in Ports : settings'[m] \in 0 .. PortSize - 1
  <2>1. /\ DOMAIN settings = Options
        /\ \A m \in Flags : settings[m] \in BOOLEAN
        /\ \A m \in Ports : settings[m] \in 0 .. PortSize - 1
    BY DEF ParseInv
  <2>2. (name \in Flags => v \in BOOLEAN) /\ (name \in Ports => v \in 0 .. PortSize - 1)
    BY <1>1, StoredType
  <2>3. settings' = [m \in Options |-> IF m = name THEN v ELSE settings[m]]
    BY <1>1, <1>4
  <2> HIDE DEF name, v
  <2> QED BY <2>1, <2>2, <2>3, NamesDiffer
<1>12. SettingsAsGiven'
  BY <1>1 DEF SettingsAsGiven
<1> HIDE DEF i, k
<1> QED BY <1>1, <1>5, <1>8, <1>9, <1>10, <1>11, <1>12 DEF ParseInv

(* The other steps of the start.                                           *)
LEMMA StartKeeps == ParseInv /\ (ParseFails \/ EndArgs \/ Start \/ StartFails) => ParseInv'
<1> SUFFICES ASSUME ParseInv, ParseFails \/ EndArgs \/ Start \/ StartFails PROVE ParseInv'
  OBVIOUS
<1>1. CASE ParseFails
  <2>1. at \in 1 .. Len(argv) /\ ~IsAccepted(argv, at) /\ argv \in Seq(EntryType)
    BY <1>1 DEF ParseInv, ParseFails
  <2>2. ~Formed(argv, at)
    BY <1>1, <2>1 DEF ParseInv, ParseFails, IsWord, Formed
  <2>3. ~WellFormed(argv)
    BY <2>1, <2>2, MeantAtEnd
  <2>4. boot' = "refused" /\ UNCHANGED <<argv, at, settings>>
    BY <1>1 DEF ParseFails
  <2>5. SettingsAsGiven'
    BY <2>3, <2>4 DEF SettingsAsGiven
  <2> QED BY <2>4, <2>5 DEF ParseInv
<1>2. CASE EndArgs
  <2>1. boot = "parse" /\ boot' = "parsed" /\ UNCHANGED <<argv, at, settings>>
    BY <1>2 DEF EndArgs
  <2>2. argv \in Seq(EntryType) /\ at = Len(argv) + 1 /\ at - 1 = Len(argv)
    BY <1>2 DEF ParseInv, EndArgs
  <2>3. settings = Meant(argv) /\ WellFormed(argv)
    BY <2>1, <2>2, MeantAtEnd DEF ParseInv
  <2>4. SettingsAsGiven'
    BY <2>1, <2>3 DEF SettingsAsGiven
  <2> QED BY <2>1, <2>4 DEF ParseInv
<1>3. CASE Start
  <2>1. IsValid(settings) /\ boot' = "serve" /\ argv' = <<>> /\ at' = 1 /\ settings' = settings
    BY <1>3 DEF Start
  <2>2. SettingsAsGiven'
    BY <2>1 DEF SettingsAsGiven
  <2>3. argv' \in Seq(EntryType) /\ at' \in 1 .. Len(argv') + 1
    BY <2>1
  <2> QED BY <2>1, <2>2, <2>3 DEF ParseInv
<1>4. CASE StartFails
  <2>1. boot' = "exit" /\ UNCHANGED <<argv, at, settings>>
    BY <1>4 DEF StartFails
  <2>2. SettingsAsGiven'
    BY <2>1 DEF SettingsAsGiven
  <2> QED BY <2>1, <2>2 DEF ParseInv
<1> QED BY <1>1, <1>2, <1>3, <1>4

LEMMA ParseInitInv == SettingsInit => ParseInv
<1> SUFFICES ASSUME SettingsInit PROVE ParseInv
  OBVIOUS
<1>1. /\ argv \in Seq(EntryType) /\ at = 1 /\ boot = "parse"
      /\ settings = [name \in Options |-> Unset(name)]
  BY ArgvAssumption DEF SettingsInit, EntryType
<1>2. at \in 1 .. Len(argv) + 1 /\ 1 .. at - 1 = {}
  BY <1>1
<1>3. /\ DOMAIN settings = Options
      /\ \A name \in Flags : settings[name] \in BOOLEAN
      /\ \A name \in Ports : settings[name] \in 0 .. PortSize - 1
  <2>1. \A name \in Options : settings[name] = Unset(name)
    BY <1>1
  <2>2. \A name \in Flags : Unset(name) = FALSE
    BY DEF Unset
  <2>3. \A name \in Ports : Unset(name) = 0
    BY NamesDiffer DEF Unset
  <2>4. 0 \in 0 .. PortSize - 1
    <3>1. PortSize \in Nat \ {0}
      BY DEF PortSize
    <3> QED BY <3>1
  <2>5. DOMAIN settings = Options
    BY <1>1
  <2> QED BY <2>1, <2>2, <2>3, <2>4, <2>5, NamesDiffer, Zenon
<1>4. ASSUME NEW name PROVE MeantBelow(argv, name, at) = Unset(name)
  <2>1. GivenBelow(argv, name, at) = {}
    BY <1>2, Zenon DEF GivenBelow
  <2> QED BY <2>1 DEF MeantBelow
<1>5. settings = [name \in Options |-> MeantBelow(argv, name, at)]
  <2>1. settings = [name \in Options |-> Unset(name)]
    BY <1>1
  <2> QED BY <1>4, <2>1, Zenon
<1>6. SettingsAsGiven
  BY <1>1 DEF SettingsAsGiven
<1>7. ~(at > 1) /\ \A i \in 1 .. at - 1 : Formed(argv, i)
  BY <1>1, <1>2
<1>8. boot \in {"parse", "parsed", "refused", "exit", "serve"}
  BY <1>1
<1>9. argv \in Seq(EntryType)
  BY <1>1
<1>10. argv \in Argvs \cup {<<>>}
  BY DEF SettingsInit
<1> QED BY <1>2, <1>3, <1>5, <1>6, <1>7, <1>8, <1>9, <1>10, Zenon DEF ParseInv

-----------------------------------------------------------------------------
(***************************************************************************)
(* The program.                                                            *)
(***************************************************************************)
LEMMA ParseInvariance == ServerSpec => []ParseInv
<1>1. ServerInit => ParseInv
  BY ParseInitInv DEF ServerInit
<1>2. ParseInv /\ [ServerNext]_serverVars => ParseInv'
  <2> SUFFICES ASSUME ParseInv, [ServerNext]_serverVars PROVE ParseInv'
    OBVIOUS
  <2>1. CASE SettingsNext
    BY <2>1, ParseArgKeeps, StartKeeps DEF SettingsNext
  <2>2. CASE UNCHANGED bootVars
    <3>1. argv' = argv /\ at' = at /\ settings' = settings /\ boot' = boot
      BY <2>2 DEF bootVars
    <3> QED BY <3>1, Zenon DEF ParseInv, SettingsAsGiven
  <2> QED BY <2>1, <2>2 DEF ServerNext, serverVars
<1> QED BY <1>1, <1>2, PTL DEF ServerSpec

(* The settings are read out of the arguments as they are meant, and the   *)
(* program never serves without a port or a remote.                        *)
THEOREM ServerSettingsAsGiven == ServerSpec => []SettingsAsGiven
<1>1. ParseInv => SettingsAsGiven
  BY DEF ParseInv
<1> QED BY <1>1, ParseInvariance, PTL

(* The program does to either proxy's state what that proxy may do.        *)
LEMMA ServerIsProxies == ServerSpec => ProxySpec /\ UdpProxySpec
<1>1. ServerInit => Init /\ UdpProxyInit
  BY DEF ServerInit
<1>2. [ServerNext]_serverVars => [ProxyNext]_vars /\ [UdpProxyNext]_udpProxyVars
  BY DEF ServerNext, serverVars
<1> QED BY <1>1, <1>2, PTL DEF ServerSpec, ProxySpec, UdpProxySpec

(* Type correctness of the whole state.                                    *)
THEOREM ServerTypeCorrect == ServerSpec => []ServerTypeOK
<1>1. ParseInv /\ ProxyTypeOK /\ UdpProxyTypeOK => ServerTypeOK
  BY DEF ParseInv, ServerTypeOK
<1> QED BY <1>1, ParseInvariance, ServerIsProxies, ProxyTypeCorrect, UdpProxyTypeCorrect, PTL

(* What is proved of the proxies holds of the program.                     *)
THEOREM ServerKeepsPromises ==
  ServerSpec =>
    /\ [](OneArmed /\ OneTurnPerBatch) /\ ProxyNoFalseClose /\ ImplementsRelay
    /\ [](SocketHoldsLive /\ AnswerHasSocket) /\ LosesOnlyToAnother
BY ServerIsProxies, ProxyOneArmed, ProxyOneTurnPerBatch, ProxyNeverClosesFalsely,
   ProxyImplementsRelay, UdpProxySocketHoldsLive, UdpProxyAnswerHasSocket,
   UdpProxyLosesOnlyToAnother, PTL

=============================================================================
