-------------------------------- MODULE Cli ---------------------------------
(***************************************************************************)
(* The command line (cli/main.go): one process from its arguments to its   *)
(* exit code.  The request it makes, if it makes one, is a call of the Go  *)
(* client, and ends as CallOutcome says.  The applications of CallOutcome, *)
(* which call an SDK themselves, are processes that have no arguments.     *)
(*                                                                         *)
(* Flags are parsed twice by package flag: those before the command, then  *)
(* in a set of its own those behind it.  Parsing stops at the first word   *)
(* that is no flag.  Every flag here takes the next word, whatever it is.  *)
(***************************************************************************)
EXTENDS CallOutcome, Sequences

CONSTANTS
  CommandLines,  \* the arguments processes are started with
  Loadable,      \* the files loadContract can read and decode
  Numerals       \* the words that flag.Int and flag.Float64 accept

\* A flag that was not given; main.go tells it by the empty string.
Unset == ""

ASSUME CommandLinesAssumption == CommandLines \subseteq Seq(STRING)

VARIABLES
  stage,    \* "app"; or of the command line "flags", "calling", "exited"
  args,     \* os.Args[1:]
  at,       \* the word to look at next
  command,  \* the subcommand, once it has been read
  given,    \* the value of each flag
  request,  \* what the client is asked to send
  exit      \* the exit code

cliVars == <<stage, args, at, command, given, request, exit>>

Explain == {"-contract", "-policy"}

FlagsOf ==
  [none |-> {"-url"}, contract |-> Explain, validate |-> Explain, eligible |-> Explain,
   chat |-> Explain \cup {"-prompt"},
   decisions |-> {"-limit", "-offset", "-task", "-model"},
   replay |-> {"-baseline", "-policy", "-limit"},
   train |-> {"-version", "-min-samples", "-tcos-weight", "-hold-out"},
   usage |-> {}]

Commands == DOMAIN FlagsOf \ {"none"}

Numeric == {"-limit", "-offset", "-min-samples", "-tcos-weight", "-hold-out"}

DefinedFlags == UNION {FlagsOf[c] : c \in DOMAIN FlagsOf}

\* "-x" stands for a flag nobody defined.
Flags == DefinedFlags \cup {"-h", "-x"}

\* The flag a subcommand insists on.
Required ==
  [c \in Commands |->
     CASE c \in {"contract", "validate", "eligible", "chat"} -> {"-contract"}
       [] c = "train" -> {"-version"}
       [] c = "replay" -> {"-baseline"}
       [] OTHER -> {}]

\* $NOETIVELA_URL or http://localhost:8080.
DefaultURL == "defaultURL"

\* The default that command c declares for its flag f.  A number stands for
\* every way to write it.
Declared(c, f) ==
  CASE f = "-limit" -> IF c = "decisions" THEN "50" ELSE "0"
    [] f \in {"-offset", "-hold-out"} -> "0"
    [] f = "-min-samples" -> "10"
    [] f = "-tcos-weight" -> "0.5"
    [] OTHER -> Unset

CliInit ==
  /\ Init
  /\ \/ stage = "app" /\ args = <<>>
     \/ stage = "flags" /\ sdk = "go" /\ args \in CommandLines
  /\ at = 1
  /\ command = "none"
  /\ given = [f \in DefinedFlags |-> IF f = "-url" THEN DefaultURL ELSE Unset]
  /\ request = [method |-> "none"]
  /\ exit = "none"

Exit(code) ==
  /\ stage' = "exited"
  /\ exit' = code
  /\ UNCHANGED <<args, at, command, given, request, vars>>

-----------------------------------------------------------------------------
(* Flags. *)

\* runUsage has no flag set: what follows usage is not looked at.
AtFlag ==
  /\ stage = "flags" /\ command # "usage"
  /\ at <= Len(args) /\ args[at] \in Flags

FlagFits ==
  /\ args[at] \in FlagsOf[command]
  /\ at < Len(args)
  /\ args[at] \in Numeric => args[at + 1] \in Numerals

TakeFlag ==
  /\ AtFlag /\ FlagFits
  /\ given' = [given EXCEPT ![args[at]] = args[at + 1]]
  /\ at' = at + 2
  /\ UNCHANGED <<stage, args, command, request, exit, vars>>

\* ExitOnError: a flag that is not defined here, lacks its value or has a value
\* of another type ends the process; asking for help is no error.
StopAtFlag ==
  /\ AtFlag /\ ~FlagFits
  /\ Exit(IF args[at] = "-h" THEN "0" ELSE "2")

-----------------------------------------------------------------------------
(* main and the functions it dispatches to. *)

AtCommand == stage = "flags" /\ command = "none" /\ ~AtFlag

\* The function of the command makes its flags, with their defaults.
Dispatch ==
  /\ AtCommand
  /\ at <= Len(args) /\ args[at] \in Commands
  /\ command' = args[at]
  /\ given' = [f \in DefinedFlags |->
                 IF f \in FlagsOf[args[at]] THEN Declared(args[at], f) ELSE given[f]]
  /\ at' = at + 1
  /\ UNCHANGED <<stage, args, request, exit, vars>>

\* version is printed; no command and an unknown one print the usage.
NoRequest ==
  /\ AtCommand
  /\ at <= Len(args) => args[at] \notin Commands
  /\ Exit(IF at <= Len(args) /\ args[at] = "version" THEN "0" ELSE "2")

Parsed == stage = "flags" /\ command # "none" /\ ~AtFlag

Complete ==
  /\ \A f \in Required[command] : given[f] # Unset
  /\ "-contract" \in Required[command] => given["-contract"] \in Loadable

\* A required flag is missing or empty, or loadContract fails.
Refuse == Parsed /\ ~Complete /\ Exit("1")

\* Mutant of ReplayArguments: the two strings of Replay in the wrong order.
ReplayArgumentsSwapped ==
  [baseline |-> given["-policy"], policy |-> given["-baseline"], limit |-> given["-limit"]]

ReplayArguments ==
  [baseline |-> given["-baseline"], policy |-> given["-policy"], limit |-> given["-limit"]]

\* What is passed to the method of the client: the file of the contract and the
\* policy for Validate, Eligible and, as a client of its own, Chat; the options
\* of Decisions and Train; the arguments of Replay; nothing for Usage.
Sent ==
  CASE command \in {"contract", "validate", "eligible"} ->
         [contract |-> given["-contract"], policy |-> given["-policy"]]
    [] command = "chat" ->
         [contract |-> given["-contract"], policy |-> given["-policy"],
          model |-> "auto", prompt |-> given["-prompt"]]
    [] command = "decisions" ->
         [limit |-> given["-limit"], offset |-> given["-offset"],
          task |-> given["-task"], model |-> given["-model"]]
    [] command = "replay" -> ReplayArguments
    [] command = "train" ->
         [version |-> given["-version"], minSamples |-> given["-min-samples"],
          tcosWeight |-> given["-tcos-weight"], holdOut |-> given["-hold-out"]]
    [] OTHER -> [nothing |-> Unset]

Request ==
  [method |-> IF command = "contract" THEN "validate" ELSE command,
   url |-> given["-url"],
   sent |-> Sent]

Call ==
  /\ Parsed /\ Complete
  /\ request' = Request
  /\ Ask /\ op' = Request.method
  /\ stage' = "calling"
  /\ UNCHANGED <<args, at, command, given, exit>>

\* Mutant of Finish: the error is printed, and main returns.
FinishZero ==
  /\ stage = "calling" /\ pc = "idle"
  /\ Exit("0")

Finish ==
  /\ stage = "calling" /\ pc = "idle"
  /\ Exit(IF outcome \in {"answer", "hollow"} THEN "0" ELSE "1")

-----------------------------------------------------------------------------

CliStep == TakeFlag \/ StopAtFlag \/ Dispatch \/ NoRequest \/ Refuse \/ Call \/ Finish

Application == stage = "app" /\ (Ask \/ Stopped) /\ UNCHANGED cliVars

\* The gateway, the network and the client, whoever called.
CallStep == (Answer \/ Fail \/ Read \/ SdkStep) /\ UNCHANGED cliVars

Exited == stage = "exited" /\ UNCHANGED <<vars, cliVars>>

CliNext == CliStep \/ Application \/ CallStep \/ Exited

\* The process goes on by itself; context.WithTimeout ends its call in 60 s,
\* headers and body included.
CliSpec ==
  /\ CliInit /\ [][CliNext]_<<vars, cliVars>>
  /\ WF_vars(SdkStep /\ UNCHANGED cliVars) /\ WF_vars(TimesOut /\ UNCHANGED cliVars)
  /\ WF_<<vars, cliVars>>(CliStep)

-----------------------------------------------------------------------------
(* Properties. *)

\* A command line as package flag's documentation has it: the command, then
\* pairs of a flag of it and a value that is no flag itself.
Pairs == {2 * n : n \in 1 .. Len(args) \div 2}

WellFormed ==
  /\ Len(args) % 2 = 1
  /\ args[1] \in Commands
  /\ \A k \in Pairs :
       /\ args[k] \in FlagsOf[args[1]]
       /\ args[k + 1] \notin Flags
       /\ args[k] \in Numeric => args[k + 1] \in Numerals

\* The value such a line gives to flag f: the last one, or the command's default.
Value(f) ==
  LET places == {k \in Pairs : args[k] = f}
  IN  IF places = {} THEN Declared(args[1], f)
      ELSE args[1 + CHOOSE k \in places : \A l \in places : l <= k]

\* Which flag the usage text describes each part of a request by.
Flag ==
  [contract |-> "-contract", policy |-> "-policy", prompt |-> "-prompt",
   limit |-> "-limit", offset |-> "-offset", task |-> "-task", model |-> "-model",
   baseline |-> "-baseline", version |-> "-version", minSamples |-> "-min-samples",
   tcosWeight |-> "-tcos-weight", holdOut |-> "-hold-out"]

\* The request has the method the line names, and a part for every flag of the
\* command, with the value the line gives to it.
Described ==
  /\ request.method = (IF args[1] = "contract" THEN "validate" ELSE args[1])
  /\ op = request.method
  /\ request.url = DefaultURL
  /\ \A part \in DOMAIN Flag :
       Flag[part] \in FlagsOf[args[1]] =>
         part \in DOMAIN request.sent /\ request.sent[part] = Value(Flag[part])

\* A process started with such a line makes the one request it describes: the
\* method of its command, with the contract, policy, texts and numbers given
\* last, each in its place, and the defaults for the rest; or none, if it lacks
\* what the command insists on or its contract cannot be loaded.
RequestAsWritten ==
  stage \in {"calling", "exited"} /\ WellFormed =>
    IF /\ \A f \in Required[args[1]] : Value(f) # Unset
       /\ "-contract" \in Required[args[1]] => Value("-contract") \in Loadable
    THEN count = 1 /\ Described
    ELSE stage = "exited" /\ exit = "1" /\ count = 0

\* Scripts rely on the exit code: 0 only if the gateway answered the request
\* with success and a JSON body, read to its end; without a request only if
\* the version or help was asked for.
ExitZeroMeansAnswered ==
  stage = "exited" /\ exit = "0" =>
    IF count = 0 THEN \E k \in DOMAIN args : args[k] \in {"version", "-h"}
    ELSE reply[1] = "ok" /\ net = "up" /\ reply[2] \notin {"empty", "garbage"}

\* Whatever its arguments, the process exits: with a gateway that does not
\* answer too.
Exits == stage # "app" ~> stage = "exited"
=============================================================================
