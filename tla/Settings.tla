------------------------------ MODULE Settings ------------------------------
(***************************************************************************)
(* The start of the program: settings.c and main.c up to the main loop.    *)
(*                                                                         *)
(* An argument list is a sequence of entries.  An entry has the name of an *)
(* option and the text after its "=", if any; a plain word has the name    *)
(* Word; any other text that starts with a dash has a name that is no      *)
(* option.  A text is known by the number strtoll reads in it.             *)
(***************************************************************************)
EXTENDS Integers, Sequences

CONSTANTS
  Argvs,   (* The argument lists the program may be started with.          *)
  Absent   (* The NULL of val, remote_ip, log_file and log_level.          *)

ASSUME ArgvAssumption ==
  Argvs \subseteq Seq([name : STRING, val : Int \cup {Absent}])

Word    == ""
Flags   == {"proxy", "remote-use-udp"}
Ports   == {"port", "remote-port"}
Options == Flags \cup Ports \cup {"remote-ip", "log-file", "log-level"}

VARIABLES
  argv,      (* The arguments.                                             *)
  at,        (* i of parse_args.                                           *)
  settings,  (* The settings, by the name of their option.                 *)
  boot       (* How far main has come.                                     *)

bootVars == <<argv, at, settings, boot>>

(* init_settings.                                                          *)
Unset(name) == IF name \in Flags THEN FALSE ELSE IF name \in Ports THEN 0 ELSE Absent

SettingsInit ==
  /\ argv \in Argvs /\ at = 1
  /\ settings = [name \in Options |-> Unset(name)]
  /\ boot = "parse"

(***************************************************************************)
(* parse_args, one option per step.                                        *)
(***************************************************************************)
IsWord(args, i) == i \in 1 .. Len(args) /\ args[i].name = Word

(* The text after "=", or else the next word.                              *)
ValueAt(args, i) ==
  IF args[i].val # Absent THEN args[i].val
  ELSE IF IsWord(args, i + 1) THEN args[i + 1].val
  ELSE Absent

(* Mutant of Consumed: the next word is looked at again.                   *)
ConsumedOne(args, i) == 1

Consumed(args, i) == IF args[i].val = Absent /\ IsWord(args, i + 1) THEN 2 ELSE 1

(* The option handlers: a port is an uint16_t and keeps what fits of the   *)
(* number, a flag ignores its value.                                       *)
PortSize == 65536

Stored(name, val) ==
  IF name \in Flags THEN TRUE ELSE IF name \in Ports THEN val % PortSize ELSE val

IsAccepted(args, i) ==
  /\ args[i].name \in Options
  /\ args[i].name \in Flags \/ ValueAt(args, i) # Absent

ParseArg ==
  /\ boot = "parse" /\ at <= Len(argv) /\ IsAccepted(argv, at)
  /\ settings' = [settings EXCEPT ![argv[at].name] = Stored(argv[at].name, ValueAt(argv, at))]
  /\ at' = at + Consumed(argv, at)
  /\ UNCHANGED <<argv, boot>>

(* "Bad format", "Unknown option" and "requires a value".                  *)
ParseFails ==
  /\ boot = "parse" /\ at <= Len(argv) /\ ~IsAccepted(argv, at)
  /\ boot' = "refused"
  /\ UNCHANGED <<argv, at, settings>>

EndArgs ==
  /\ boot = "parse" /\ at > Len(argv)
  /\ boot' = "parsed"
  /\ UNCHANGED <<argv, at, settings>>

(***************************************************************************)
(* validate_settings and the rest of main.                                 *)
(***************************************************************************)
IsValid(s) ==
  /\ s["port"] # 0
  /\ s["proxy"] => s["remote-ip"] # Absent /\ s["remote-port"] # 0

(* The logger, the backend, the listener and the socket are made, and the  *)
(* arguments are not looked at any more.                                   *)
Start ==
  /\ boot = "parsed" /\ IsValid(settings)
  /\ boot' = "serve"
  /\ argv' = <<>> /\ at' = 1
  /\ UNCHANGED settings

(* The settings are not valid, or one of the four cannot be made.          *)
StartFails ==
  /\ boot = "parsed"
  /\ boot' = "exit"
  /\ UNCHANGED <<argv, at, settings>>

SettingsNext == ParseArg \/ ParseFails \/ EndArgs \/ Start \/ StartFails

-----------------------------------------------------------------------------
(***************************************************************************)
(* What an argument list means, without walking through it.                *)
(***************************************************************************)
(* Every word is the value of the option before it, every other entry an   *)
(* option, with a value if it requires one.                                *)
WellFormed(args) ==
  \A i \in DOMAIN args :
    IF args[i].name = Word
      THEN i > 1 /\ args[i - 1].name # Word /\ args[i - 1].val = Absent
      ELSE IsAccepted(args, i)

(* The last time an option is given counts.                                *)
Meant(args) ==
  [name \in Options |->
     LET given == {i \in DOMAIN args : args[i].name = name} IN
     IF given = {} THEN Unset(name)
     ELSE Stored(name, ValueAt(args, CHOOSE i \in given : \A j \in given : j <= i))]

(* The loop accepts exactly the argument lists that are well formed and    *)
(* reads out of them what they mean, however flags, values after "=",      *)
(* values in words and repetitions mix; and the server never runs without  *)
(* a port, nor as a proxy without a remote.                                *)
SettingsAsGiven ==
  /\ boot = "refused" => ~WellFormed(argv)
  /\ boot = "parsed" => WellFormed(argv) /\ settings = Meant(argv)
  /\ boot = "serve" => IsValid(settings)
=============================================================================
