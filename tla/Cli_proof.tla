----------------------------- MODULE Cli_proof ------------------------------
(***************************************************************************)
(* Proofs about Cli, and with it about CallOutcome, for any number of      *)
(* calls, any command lines, any loadable files and any numerals.          *)
(*                                                                         *)
(* A call is settled when its outcome is what the SDK's table says of the  *)
(* reply: that is the invariant behind everything the application may      *)
(* conclude from an outcome.  Of the command line, the flags taken so far  *)
(* have the values a reader gives to the words before the one looked at.   *)
(***************************************************************************)
EXTENDS Cli, TLAPS

\* What each SDK makes of a reply that was read to its end.
Success(body) ==
  CASE sdk = "go" -> GoSuccess(body)
    [] sdk = "python" -> PySuccess(body)
    [] sdk = "typescript" -> TsSuccess(body)

Refusal(status, body) ==
  CASE sdk = "go" -> GoRefusal(body)
    [] sdk = "python" -> PyRefusal(status, body)
    [] sdk = "typescript" -> TsRefusal(status, body)

Told == IF reply[1] = "ok" THEN Success(reply[2]) ELSE Refusal(reply[1], reply[2])

Settled ==
  /\ pc # "idle" => outcome = "none"
  /\ outcome \notin {"none", "transport"} =>
       net = "up" /\ reply \in Replies /\ outcome = Told

CallInv == TypeOK /\ Settled

-----------------------------------------------------------------------------
(* A call. *)

\* The SDKs are those three, and a reply has a status and a body of its kind.
LEMMA Kinds ==
  ASSUME TypeOK
  PROVE  /\ sdk \in {"go", "python", "typescript"}
         /\ reply \in Replies =>
              /\ reply = <<reply[1], reply[2]>>
              /\ \/ reply[1] = "ok" /\ reply[2] \in Answers
                 \/ reply[1] \in {"422", "failure"} /\ reply[2] \in Refusals
BY SdksAssumption DEF TypeOK, Replies

\* Whatever the reply, the tables have an outcome for it.
LEMMA TableTypes ==
  ASSUME TypeOK, reply \in Replies
  PROVE  Told \in Outcomes
<1>1. ASSUME NEW body PROVE Success(body) \in Outcomes
  BY Kinds DEF Success, GoSuccess, PySuccess, TsSuccess, Outcomes
<1>2. ASSUME NEW status, NEW body PROVE Refusal(status, body) \in Outcomes
  BY Kinds DEF Refusal, GoRefusal, PyRefusal, TsRefusal, Outcomes
<1> QED
  BY <1>1, <1>2 DEF Told

LEMMA CallInit == Init => CallInv
<1> SUFFICES ASSUME Init PROVE CallInv
  OBVIOUS
<1>1. TypeOK
  BY MaxCallsAssumption DEF Init, TypeOK
<1>2. Settled
  BY DEF Init, Settled
<1> QED
  BY <1>1, <1>2 DEF CallInv

LEMMA AskKeeps == ASSUME CallInv, Ask PROVE CallInv'
<1>1. TypeOK'
  BY MaxCallsAssumption DEF CallInv, TypeOK, Ask
<1>2. Settled'
  BY DEF Ask, Settled
<1> QED
  BY <1>1, <1>2 DEF CallInv

LEMMA AnswerKeeps == ASSUME CallInv, Answer PROVE CallInv'
<1>0. NoReply \notin Replies
  BY DEF NoReply, Replies
<1>1. TypeOK'
  BY <1>0 DEF CallInv, TypeOK, Answer
<1>2. Settled'
  BY DEF CallInv, Settled, Answer
<1> QED
  BY <1>1, <1>2 DEF CallInv

LEMMA FailKeeps == ASSUME CallInv, Fail PROVE CallInv'
<1>1. TypeOK'
  BY DEF CallInv, TypeOK, Fail
<1>2. Settled'
  BY DEF CallInv, Settled, Fail
<1> QED
  BY <1>1, <1>2 DEF CallInv

\* A call that returns what the table says of its reply is settled.
LEMMA MappedKeeps ==
  ASSUME CallInv, pc = "mapping", Return(Told)
  PROVE  CallInv'
<1>1. net = "up" /\ reply \in Replies
  BY DEF CallInv, TypeOK
<1>2. Told \in Outcomes
  BY <1>1, TableTypes DEF CallInv
<1>3. TypeOK'
  BY <1>2 DEF CallInv, TypeOK, Return
<1>4. Told' = Told
  BY DEF Return, Told, Success, Refusal, GoSuccess, PySuccess, TsSuccess,
         WholeAnswer, GoRefusal, PyRefusal, TsRefusal
<1>5. Settled'
  BY <1>1, <1>4 DEF Settled, Return
<1> QED
  BY <1>3, <1>5 DEF CallInv

LEMMA SdkStepKeeps == ASSUME CallInv, Read \/ SdkStep PROVE CallInv'
<1>1. CASE GiveUp
  <2>1. TypeOK'
    BY <1>1 DEF CallInv, TypeOK, GiveUp, Return, Outcomes
  <2>2. Settled'
    BY <1>1 DEF Settled, GiveUp, Return
  <2> QED
    BY <2>1, <2>2 DEF CallInv
<1>2. CASE Read
  <2>1. TypeOK'
    BY <1>2 DEF CallInv, TypeOK, Read
  <2>2. Settled'
    BY <1>2 DEF CallInv, Settled, Read
  <2> QED
    BY <2>1, <2>2 DEF CallInv
<1>3. CASE MapSuccess
  <2>1. Return(Told)
    BY <1>3 DEF MapSuccess, Told, Success
  <2> QED
    BY <1>3, <2>1, MappedKeeps DEF MapSuccess
<1>4. CASE MapRefusal
  <2>1. Return(Told)
    BY <1>4 DEF MapRefusal, Told, Refusal
  <2> QED
    BY <1>4, <2>1, MappedKeeps DEF MapRefusal
<1> QED
  BY <1>1, <1>2, <1>3, <1>4 DEF SdkStep

LEMMA CallStutters == ASSUME CallInv, UNCHANGED vars PROVE CallInv'
<1>1. TypeOK'
  BY DEF CallInv, TypeOK, vars
<1>2. Told' = Told
  BY DEF vars, Told, Success, Refusal, GoSuccess, PySuccess, TsSuccess,
         WholeAnswer, GoRefusal, PyRefusal, TsRefusal
<1>3. Settled'
  BY <1>2 DEF CallInv, Settled, vars
<1> QED
  BY <1>1, <1>3 DEF CallInv

-----------------------------------------------------------------------------
(* The command line. *)

\* The value that the words of a line before the n-th give to flag f: the last
\* one.
EvenOf(line) == {2 * n : n \in 1 .. Len(line) \div 2}

LastOf(line, default, places) ==
  IF places = {} THEN default
  ELSE line[1 + CHOOSE k \in places : \A l \in places : l <= k]

ValueBefore(line, f, n) ==
  LastOf(line, Declared(line[1], f), {k \in EvenOf(line) : k < n /\ line[k] = f})

\* How far a process with a well-formed line has come.
OnTheWay ==
  /\ given["-url"] = DefaultURL
  /\ IF command = "none" THEN stage = "flags" /\ at = 1
     ELSE /\ command = args[1]
          /\ at \in 1 .. Len(args) + 1 /\ at % 2 = 0
          /\ \A f \in FlagsOf[command] : given[f] = ValueBefore(args, f, at)
          /\ stage # "flags" => at = Len(args) + 1

Requested == stage = "calling" \/ (stage = "exited" /\ count = 1)

LineInv ==
  /\ stage \in {"app", "flags", "calling", "exited"}
  /\ args \in Seq(STRING)
  /\ at \in Nat \ {0}
  /\ command \in DOMAIN FlagsOf
  /\ DOMAIN given = DefinedFlags
  /\ stage # "app" => sdk = "go" /\ count = IF Requested THEN 1 ELSE 0
  /\ stage \in {"flags", "exited"} => pc = "idle"
  /\ stage # "app" /\ Requested => request = Request /\ op = Request.method
  /\ stage = "exited" /\ exit = "0" =>
       IF count = 0 THEN \E k \in DOMAIN args : args[k] \in {"version", "-h"}
       ELSE outcome \in {"answer", "hollow"}
  /\ stage # "app" /\ WellFormed =>
       /\ OnTheWay
       /\ Requested => Complete
       /\ stage = "exited" /\ ~Requested => ~Complete /\ exit = "1"

CliInv == CallInv /\ LineInv

\* No word is both a command and a flag; what a subcommand has is a flag.
LEMMA CommandsAreNoFlags == Commands \cap Flags = {}
BY DEF Commands, Flags, DefinedFlags, FlagsOf, Explain

LEMMA FlagsDefined ==
  ASSUME NEW c \in DOMAIN FlagsOf, NEW f \in FlagsOf[c]
  PROVE  f \in DefinedFlags /\ f \in Flags
BY DEF DefinedFlags, Flags

\* -url belongs to no command.
LEMMA UrlIsGlobal == "-url" \in DefinedFlags /\ \A c \in Commands : "-url" \notin FlagsOf[c]
BY DEF DefinedFlags, Commands, FlagsOf, Explain

\* The even places of a well-formed line, and the words there.
LEMMA EvenPlaces ==
  ASSUME args \in Seq(STRING), WellFormed, NEW n \in 1 .. Len(args), n % 2 = 0
  PROVE  /\ n \in Pairs /\ n < Len(args) /\ n + 1 \in 1 .. Len(args)
         /\ args[n] \in FlagsOf[args[1]] /\ args[n] \in Flags
         /\ args[1] # "usage"
         /\ args[n] \in Numeric => args[n + 1] \in Numerals
<1>1. Len(args) \in Nat /\ Len(args) % 2 = 1
  BY DEF WellFormed
<1>2. PICK m \in Nat : n = 2 * m
  BY <1>1
<1>3. m \in 1 .. Len(args) \div 2 /\ n < Len(args)
  BY <1>1, <1>2
<1>4. n \in Pairs
  BY <1>2, <1>3 DEF Pairs
<1>5. /\ args[n] \in FlagsOf[args[1]] /\ args[1] \in Commands
      /\ args[n] \in Numeric => args[n + 1] \in Numerals
  BY <1>4 DEF WellFormed
<1>6. args[n] \in Flags
  BY <1>5, FlagsDefined DEF Commands
<1>7. FlagsOf["usage"] = {}
  BY DEF FlagsOf
<1> QED
  BY <1>1, <1>3, <1>4, <1>5, <1>6, <1>7

\* A last value is added by the word looked at, and only to its own flag.
LEMMA OneMoreValue ==
  ASSUME NEW line \in Seq(STRING), NEW n \in EvenOf(line), NEW f
  PROVE  ValueBefore(line, f, n + 2) =
           IF f = line[n] THEN line[n + 1] ELSE ValueBefore(line, f, n)
<1> DEFINE before == {k \in EvenOf(line) : k < n /\ line[k] = f}
           upto == {k \in EvenOf(line) : k < n + 2 /\ line[k] = f}
<1>0. EvenOf(line) \subseteq Nat /\ n \in Nat /\ \A k \in EvenOf(line) : k % 2 = 0
  BY DEF EvenOf
<1>1. \A k \in EvenOf(line) : k < n + 2 <=> k < n \/ k = n
  BY <1>0
<1>2. CASE f = line[n]
  <2>1. n \in upto /\ \A l \in upto : l <= n
    BY <1>0, <1>1, <1>2
  <2>2. \A k \in upto : (\A l \in upto : l <= k) => k = n
    BY <2>1, <1>0
  <2>3. (CHOOSE k \in upto : \A l \in upto : l <= k) = n
    BY <2>1, <2>2
  <2>4. upto # {}
    BY <2>1
  <2>5. ValueBefore(line, f, n + 2) = line[1 + n]
    BY <2>3, <2>4 DEF ValueBefore, LastOf
  <2> QED
    BY <2>5, <1>0, <1>2
<1>3. CASE f # line[n]
  <2>1. upto = before
    BY <1>1, <1>3
  <2> QED
    BY <2>1, <1>3, Zenon DEF ValueBefore
<1> QED
  BY <1>2, <1>3

\* Before the first pair nothing is given, behind the last everything is.
LEMMA NoValueYet ==
  ASSUME NEW line \in Seq(STRING), NEW f
  PROVE  ValueBefore(line, f, 2) = Declared(line[1], f)
<1>1. {k \in EvenOf(line) : k < 2 /\ line[k] = f} = {}
  BY DEF EvenOf
<1> QED
  BY <1>1 DEF ValueBefore, LastOf

LEMMA AllValues ==
  ASSUME args \in Seq(STRING), NEW f
  PROVE  ValueBefore(args, f, Len(args) + 1) = Value(f)
<1>1. \A k \in Pairs : k < Len(args) + 1
  BY DEF Pairs
<1>2. {k \in Pairs : k < Len(args) + 1 /\ args[k] = f} = {k \in Pairs : args[k] = f}
  BY <1>1
<1>3. Value(f) = LastOf(args, Declared(args[1], f), {k \in Pairs : args[k] = f})
  BY Zenon DEF Value, LastOf
<1>4. Pairs = EvenOf(args)
  BY Zenon DEF Pairs, EvenOf
<1> QED
  BY <1>2, <1>3, <1>4, Zenon DEF ValueBefore

-----------------------------------------------------------------------------
(* The steps of the command line. *)

LEMMA LineInit == CliInit => CliInv
<1> SUFFICES ASSUME CliInit PROVE CliInv
  OBVIOUS
<1>1. CallInv /\ pc = "idle" /\ count = 0
  BY CallInit DEF CliInit, Init
<1>2. args \in Seq(STRING)
  <2>1. args = <<>> \/ args \in CommandLines
    BY DEF CliInit
  <2>2. <<>> \in Seq(STRING)
    OBVIOUS
  <2> QED
    BY <2>1, <2>2, CommandLinesAssumption
<1>3. "none" \in DOMAIN FlagsOf
  BY DEF FlagsOf
<1>4. stage \in {"app", "flags"} /\ at = 1 /\ command = "none"
  BY DEF CliInit
<1>5. DOMAIN given = DefinedFlags /\ given["-url"] = DefaultURL
  BY UrlIsGlobal DEF CliInit
<1>6. stage # "app" => sdk = "go"
  BY DEF CliInit
<1>7. LineInv
  <2>1. WellFormed /\ stage # "app" => OnTheWay /\ ~Requested /\ stage # "exited"
    BY <1>4, <1>5 DEF OnTheWay, Requested
  <2>2. ~Requested /\ stage # "exited" /\ at \in Nat \ {0}
    BY <1>4 DEF Requested
  <2>3. DOMAIN given = DefinedFlags
    BY <1>5
  <2> QED
    BY <2>1, <2>2, <2>3, <1>1, <1>2, <1>3, <1>4, <1>6 DEF LineInv
<1> QED
  BY <1>1, <1>7 DEF CliInv

LEMMA TakeFlagKeeps == ASSUME CliInv, TakeFlag PROVE CliInv'
<1>1. CallInv' /\ UNCHANGED vars
  BY CallStutters DEF CliInv, TakeFlag
<1>2. /\ args \in Seq(STRING) /\ at \in Nat \ {0} /\ command \in DOMAIN FlagsOf
      /\ DOMAIN given = DefinedFlags
      /\ stage = "flags" /\ pc = "idle" /\ count = 0 /\ sdk = "go"
  BY DEF CliInv, LineInv, TakeFlag, AtFlag, Requested
<1>3. /\ at \in 1 .. Len(args) /\ at + 1 \in 1 .. Len(args)
      /\ args[at] \in FlagsOf[command] /\ args[at] \in DefinedFlags
      /\ args[at + 1] \in STRING
  BY <1>2, FlagsDefined DEF TakeFlag, AtFlag, FlagFits
<1>4. /\ given' = [given EXCEPT ![args[at]] = args[at + 1]]
      /\ at' = at + 2 /\ UNCHANGED <<stage, args, command, request, exit>>
  BY DEF TakeFlag
<1>5. DOMAIN given' = DefinedFlags /\ at' \in Nat \ {0}
  BY <1>2, <1>3, <1>4
<1>6. WellFormed' = WellFormed
  BY <1>4 DEF WellFormed, Pairs
<1>7. WellFormed => command # "none" 
  <2> SUFFICES ASSUME WellFormed, command = "none" PROVE FALSE
    OBVIOUS
  <2>1. at = 1 /\ args[1] \in Commands
    BY <1>2 DEF CliInv, LineInv, OnTheWay, WellFormed
  <2> QED
    BY <2>1, CommandsAreNoFlags DEF TakeFlag, AtFlag
<1>8. ASSUME WellFormed PROVE OnTheWay'
  <2>1. /\ command = args[1] /\ at % 2 = 0
        /\ \A f \in FlagsOf[command] : given[f] = ValueBefore(args, f, at)
    BY <1>2, <1>7, <1>8 DEF CliInv, LineInv, OnTheWay
  <2>2. at \in EvenOf(args)
    BY <2>1, <1>2, <1>3, <1>8, EvenPlaces DEF Pairs, EvenOf
  <2>3. \A f \in FlagsOf[command] :
           ValueBefore(args, f, at + 2) =
             IF f = args[at] THEN args[at + 1] ELSE ValueBefore(args, f, at)
    BY <2>2, <1>2, OneMoreValue
  <2>4. \A f \in FlagsOf[command] : given'[f] = ValueBefore(args, f, at + 2)
    BY <2>1, <2>3, <1>2, <1>3, <1>4, FlagsDefined
  <2>6. given'["-url"] = DefaultURL
    <3>1. given["-url"] = DefaultURL /\ command \in Commands
      BY <1>2, <1>7, <1>8 DEF CliInv, LineInv, OnTheWay, Commands
    <3> QED
      BY <3>1, <1>2, <1>3, <1>4, UrlIsGlobal
  <2>5. at' \in 1 .. Len(args) + 1 /\ at' % 2 = 0
    BY <2>1, <1>2, <1>3, <1>4
  <2> QED
    BY <2>1, <2>4, <2>5, <2>6, <1>2, <1>4, <1>7, <1>8 DEF OnTheWay
<1>9. LineInv'
  <2>1. Requested' = Requested
    BY <1>1, <1>4 DEF Requested, vars
  <2>2. stage' = "flags" /\ ~Requested
    BY <1>2, <1>4 DEF Requested
  <2> QED
    BY <2>1, <2>2, <1>1, <1>2, <1>4, <1>5, <1>6, <1>8 DEF LineInv, vars
<1> QED
  BY <1>1, <1>9 DEF CliInv
\* A well-formed line is never left at a flag.
LEMMA FlagsFit ==
  ASSUME CliInv, AtFlag, WellFormed
  PROVE  FlagFits
<1>1. /\ args \in Seq(STRING) /\ at \in Nat \ {0}
      /\ stage = "flags" /\ at \in 1 .. Len(args) /\ args[at] \in Flags
      /\ OnTheWay /\ args[1] \in Commands
  BY DEF CliInv, LineInv, AtFlag, WellFormed
<1>2. command = args[1] /\ at % 2 = 0
  BY <1>1, CommandsAreNoFlags DEF OnTheWay
<1> QED
  BY <1>1, <1>2, EvenPlaces DEF FlagFits

\* Once all its flags are taken, a well-formed line has been read to its end and
\* every flag has the value it is given.
LEMMA ReadToEnd ==
  ASSUME CliInv, Parsed, WellFormed
  PROVE  command = args[1] /\ at = Len(args) + 1
<1>1. /\ args \in Seq(STRING) /\ Len(args) \in Nat /\ stage = "flags" /\ OnTheWay
      /\ command # "none" /\ ~AtFlag
  BY DEF CliInv, LineInv, Parsed
<1>2. command = args[1] /\ at \in 1 .. Len(args) + 1 /\ at % 2 = 0
  BY <1>1 DEF OnTheWay
<1>3. ASSUME at \in 1 .. Len(args) PROVE FALSE
  BY <1>1, <1>2, <1>3, EvenPlaces DEF AtFlag
<1> QED
  BY <1>1, <1>2, <1>3

LEMMA StopAtFlagKeeps == ASSUME CliInv, StopAtFlag PROVE CliInv'
<1>1. UNCHANGED <<args, at, command, given, request>> /\ UNCHANGED vars
  BY DEF StopAtFlag, Exit
<1>2. CallInv'
  BY <1>1, CallStutters DEF CliInv
<1>3. ~WellFormed /\ WellFormed' = WellFormed
  BY <1>1, FlagsFit DEF StopAtFlag, WellFormed, Pairs
<1>4. /\ args \in Seq(STRING) /\ at \in Nat \ {0} /\ at <= Len(args)
      /\ stage = "flags" /\ count = 0 /\ sdk = "go" /\ pc = "idle"
  BY DEF CliInv, LineInv, StopAtFlag, AtFlag, Requested
<1>5. stage' = "exited" /\ (exit' = "0" => args[at] = "-h")
  BY DEF StopAtFlag, Exit
<1>6. at \in DOMAIN args
  BY <1>4
<1>7. ~Requested'
  BY <1>1, <1>4, <1>5 DEF Requested, vars
<1>8. LineInv'
  BY <1>1, <1>3, <1>4, <1>5, <1>6, <1>7 DEF CliInv, LineInv, vars
<1> QED
  BY <1>2, <1>8 DEF CliInv
LEMMA DispatchKeeps == ASSUME CliInv, Dispatch PROVE CliInv'
<1>1. /\ UNCHANGED <<stage, args, request, exit>> /\ UNCHANGED vars
      /\ command' = args[at] /\ at' = at + 1 /\ args[at] \in Commands
      /\ given' = [f \in DefinedFlags |->
                    IF f \in FlagsOf[args[at]] THEN Declared(args[at], f) ELSE given[f]]
  BY DEF Dispatch
<1>2. CallInv'
  BY <1>1, CallStutters DEF CliInv
<1>3. WellFormed' = WellFormed
  BY <1>1 DEF WellFormed, Pairs
<1>4. /\ args \in Seq(STRING) /\ at \in Nat \ {0} /\ at <= Len(args)
      /\ stage = "flags" /\ count = 0 /\ sdk = "go" /\ pc = "idle"
      /\ command = "none" /\ DOMAIN given = DefinedFlags
  BY DEF CliInv, LineInv, Dispatch, AtCommand, Requested
<1>5. ~Requested /\ ~Requested'
  BY <1>1, <1>4 DEF Requested
<1>6. command' \in DOMAIN FlagsOf /\ command' # "none"
  BY <1>1 DEF Commands
<1>7. ASSUME WellFormed PROVE OnTheWay'
  <2>1. at = 1 /\ given["-url"] = DefaultURL
    BY <1>4, <1>7 DEF CliInv, LineInv, OnTheWay
  <2>2. \A f \in FlagsOf[args[1]] : ValueBefore(args, f, 2) = Declared(args[1], f)
    BY <1>4, NoValueYet
  <2>3. at' = 2 /\ at' \in 1 .. Len(args) + 1 /\ at' % 2 = 0
    <3>1. Len(args) \in Nat /\ 1 <= Len(args)
      BY <1>4, <2>1
    <3>2. at' = 2
      BY <1>1, <2>1
    <3> QED
      BY <3>1, <3>2
  <2>4. \A f \in FlagsOf[args[1]] : given'[f] = ValueBefore(args, f, 2)
    BY <1>1, <2>1, <2>2, FlagsDefined DEF Commands
  <2>5. given'["-url"] = DefaultURL
    BY <1>1, <2>1, UrlIsGlobal
  <2> QED
    BY <2>1, <2>3, <2>4, <2>5, <1>1, <1>4, <1>6 DEF OnTheWay
<1>8. LineInv'
  BY <1>1, <1>3, <1>4, <1>5, <1>6, <1>7 DEF CliInv, LineInv, vars
<1> QED
  BY <1>2, <1>8 DEF CliInv

LEMMA NoRequestKeeps == ASSUME CliInv, NoRequest PROVE CliInv'
<1>1. UNCHANGED <<args, at, command, given, request>> /\ UNCHANGED vars
  BY DEF NoRequest, Exit
<1>2. CallInv'
  BY <1>1, CallStutters DEF CliInv
<1>3. /\ args \in Seq(STRING) /\ at \in Nat \ {0}
      /\ stage = "flags" /\ count = 0 /\ sdk = "go" /\ pc = "idle"
      /\ command = "none"
  BY DEF CliInv, LineInv, NoRequest, AtCommand, Requested
<1>4. ~WellFormed /\ WellFormed' = WellFormed
  <2>1. ASSUME WellFormed PROVE FALSE
    <3>0. OnTheWay /\ Len(args) \in Nat
      BY <1>3, <2>1 DEF CliInv, LineInv
    <3>1. at = 1 /\ args[1] \in Commands /\ Len(args) % 2 = 1
      BY <3>0, <1>3, <2>1 DEF OnTheWay, WellFormed
    <3>2. at <= Len(args)
      BY <3>0, <3>1
    <3> QED
      BY <3>1, <3>2 DEF NoRequest
  <2> QED
    BY <2>1, <1>1 DEF WellFormed, Pairs
<1>5. stage' = "exited" /\ (exit' = "0" => at \in DOMAIN args /\ args[at] = "version")
  BY <1>3 DEF NoRequest, Exit
<1>6. ~Requested'
  BY <1>1, <1>3, <1>5 DEF Requested, vars
<1>7. LineInv'
  BY <1>1, <1>3, <1>4, <1>5, <1>6 DEF CliInv, LineInv, vars
<1> QED
  BY <1>2, <1>7 DEF CliInv

LEMMA RefuseKeeps == ASSUME CliInv, Refuse PROVE CliInv'
<1>1. /\ UNCHANGED <<args, at, command, given, request>> /\ UNCHANGED vars
      /\ stage' = "exited" /\ exit' = "1" /\ Parsed /\ ~Complete
  BY DEF Refuse, Exit
<1>2. CallInv'
  BY <1>1, CallStutters DEF CliInv
<1>3. /\ args \in Seq(STRING) /\ at \in Nat \ {0}
      /\ stage = "flags" /\ count = 0 /\ sdk = "go" /\ pc = "idle"
      /\ command # "none"
  BY <1>1 DEF CliInv, LineInv, Parsed, Requested
<1>4. WellFormed' = WellFormed /\ Complete' = Complete
  BY <1>1 DEF WellFormed, Pairs, Complete
<1>5. ~Requested'
  BY <1>1, <1>3 DEF Requested, vars
<1>6. WellFormed => OnTheWay'
  BY <1>1, <1>3, ReadToEnd DEF CliInv, LineInv, OnTheWay
<1>7. LineInv'
  BY <1>1, <1>3, <1>4, <1>5, <1>6 DEF CliInv, LineInv, vars
<1> QED
  BY <1>2, <1>7 DEF CliInv

LEMMA CallKeeps == ASSUME CliInv, Call PROVE CliInv'
<1>1. /\ UNCHANGED <<args, at, command, given, exit>> /\ Ask
      /\ stage' = "calling" /\ Parsed /\ Complete
  BY DEF Call
<1>2. CallInv'
  BY <1>1, AskKeeps DEF CliInv
<1>3. /\ args \in Seq(STRING) /\ at \in Nat \ {0}
      /\ stage = "flags" /\ count = 0 /\ sdk = "go" /\ pc = "idle"
      /\ command # "none"
  BY <1>1 DEF CliInv, LineInv, Parsed, Requested
<1>4. WellFormed' = WellFormed /\ Complete' = Complete
  BY <1>1 DEF WellFormed, Pairs, Complete
<1>5. /\ Requested' /\ count' = 1 /\ sdk' = "go"
      /\ request' = Request' /\ op' = Request.method /\ Request' = Request
  <2>1. Request' = Request
    BY <1>1 DEF Request, Sent, ReplayArguments
  <2> QED
    BY <1>1, <1>3, <2>1 DEF Requested, Ask, Call
<1>6. WellFormed => OnTheWay'
  BY <1>1, <1>3, ReadToEnd DEF CliInv, LineInv, OnTheWay
<1>7. LineInv'
  BY <1>1, <1>3, <1>4, <1>5, <1>6 DEF CliInv, LineInv
<1> QED
  BY <1>2, <1>7 DEF CliInv

LEMMA FinishKeeps == ASSUME CliInv, Finish PROVE CliInv'
<1>1. /\ UNCHANGED <<args, at, command, given, request>> /\ UNCHANGED vars
      /\ stage = "calling" /\ pc = "idle" /\ stage' = "exited"
      /\ exit' = "0" => outcome \in {"answer", "hollow"}
  BY DEF Finish, Exit
<1>2. CallInv'
  BY <1>1, CallStutters DEF CliInv
<1>3. args \in Seq(STRING) /\ at \in Nat \ {0} /\ count = 1 /\ sdk = "go" /\ Requested
  BY <1>1 DEF CliInv, LineInv, Requested
<1>4. WellFormed' = WellFormed /\ Complete' = Complete
  BY <1>1 DEF WellFormed, Pairs, Complete
<1>5. Requested' /\ UNCHANGED <<request, op>> /\ Request' = Request
  BY <1>1, <1>3 DEF Requested, vars, Request, Sent, ReplayArguments
<1>6. WellFormed => OnTheWay'
  BY <1>1, <1>3 DEF CliInv, LineInv, OnTheWay
<1>7. LineInv'
  BY <1>1, <1>3, <1>4, <1>5, <1>6 DEF CliInv, LineInv, vars
<1> QED
  BY <1>2, <1>7 DEF CliInv

\* The client, the gateway and the network do not touch the command line, and
\* have nothing to do before its request and after its exit.
LEMMA CallStepKeeps == ASSUME CliInv, CallStep PROVE CliInv'
<1>1. UNCHANGED cliVars /\ (Answer \/ Fail \/ Read \/ SdkStep)
  BY DEF CallStep
<1>2. CallInv'
  BY <1>1, AnswerKeeps, FailKeeps, SdkStepKeeps DEF CliInv
<1>3. pc # "idle" /\ UNCHANGED <<count, sdk, op>>
  BY <1>1 DEF Answer, Fail, SdkStep, GiveUp, Read, MapSuccess, MapRefusal, Return
<1>4. stage \in {"app", "calling"}
  BY <1>3 DEF CliInv, LineInv
<1>5. Requested' = Requested /\ WellFormed' = WellFormed /\ Complete' = Complete
  BY <1>1, <1>3 DEF Requested, WellFormed, Pairs, Complete, cliVars
<1>6. OnTheWay' = OnTheWay /\ Request' = Request
  BY <1>1 DEF OnTheWay, Request, Sent, ReplayArguments, cliVars
<1>7. LineInv'
  BY <1>1, <1>3, <1>4, <1>5, <1>6 DEF CliInv, LineInv, cliVars
<1> QED
  BY <1>2, <1>7 DEF CliInv

LEMMA ApplicationKeeps == ASSUME CliInv, Application PROVE CliInv'
<1>1. UNCHANGED cliVars /\ stage = "app" /\ (Ask \/ UNCHANGED vars)
  BY DEF Application, Stopped
<1>2. CallInv'
  BY <1>1, AskKeeps, CallStutters DEF CliInv
<1>3. LineInv'
  BY <1>1 DEF CliInv, LineInv, cliVars
<1> QED
  BY <1>2, <1>3 DEF CliInv

LEMMA CliStutters == ASSUME CliInv, UNCHANGED <<vars, cliVars>> PROVE CliInv'
<1>1. CallInv'
  BY CallStutters DEF CliInv
<1>2. Requested' = Requested /\ WellFormed' = WellFormed /\ Complete' = Complete
      /\ OnTheWay' = OnTheWay /\ Request' = Request
  BY DEF Requested, WellFormed, Pairs, Complete, OnTheWay, Request, Sent, ReplayArguments,
         vars, cliVars
<1>3. LineInv'
  BY <1>2 DEF CliInv, LineInv, vars, cliVars
<1> QED
  BY <1>1, <1>3 DEF CliInv

LEMMA NextCliInv == CliInv /\ [CliNext]_<<vars, cliVars>> => CliInv'
BY TakeFlagKeeps, StopAtFlagKeeps, DispatchKeeps, NoRequestKeeps, RefuseKeeps,
   CallKeeps, FinishKeeps, CallStepKeeps, ApplicationKeeps, CliStutters
   DEF CliNext, CliStep, Exited

LEMMA Invariance == CliSpec => []CliInv
<1>1. CliInit => CliInv
  BY LineInit
<1>2. CliInv /\ [CliNext]_<<vars, cliVars>> => CliInv'
  BY NextCliInv
<1> QED
  BY <1>1, <1>2, PTL DEF CliSpec

\* A request made with the values of a line is the one the line describes.
LEMMA RequestDescribes ==
  ASSUME args[1] \in Commands, command = args[1], request = Request, op = Request.method,
         given["-url"] = DefaultURL, \A f \in FlagsOf[command] : given[f] = Value(f)
  PROVE  Described
<1>1. /\ request.method = (IF args[1] = "contract" THEN "validate" ELSE args[1])
      /\ op = request.method /\ request.url = DefaultURL /\ request.sent = Sent
  BY DEF Request
<1>2. ASSUME NEW part \in DOMAIN Flag, Flag[part] \in FlagsOf[command]
      PROVE  part \in DOMAIN Sent /\ Sent[part] = given[Flag[part]]
  <2>1. CASE command \in {"contract", "validate", "eligible"}
    BY <1>2, <2>1 DEF Flag, FlagsOf, Explain, Sent
  <2>2. CASE command = "chat"
    BY <1>2, <2>2 DEF Flag, FlagsOf, Explain, Sent
  <2>3. CASE command = "decisions"
    BY <1>2, <2>3 DEF Flag, FlagsOf, Explain, Sent
  <2>4. CASE command = "replay"
    BY <1>2, <2>4 DEF Flag, FlagsOf, Explain, Sent, ReplayArguments
  <2>5. CASE command = "train"
    BY <1>2, <2>5 DEF Flag, FlagsOf, Explain, Sent
  <2>6. CASE command = "usage"
    BY <1>2, <2>6 DEF Flag, FlagsOf, Explain, Sent
  <2> QED
    BY <2>1, <2>2, <2>3, <2>4, <2>5, <2>6 DEF Commands, FlagsOf
<1> QED
  BY <1>1, <1>2 DEF Described

-----------------------------------------------------------------------------
(* What an outcome and an exit code mean. *)

\* The variables of a call and of the process keep their types, for any number
\* of calls; a body is read only of a reply that has come (do, _request, request).
THEOREM TypeCorrect == CliSpec => []TypeOK
<1>1. CliInv => TypeOK
  BY DEF CliInv, CallInv
<1> QED
  BY <1>1, Invariance, PTL

\* Whatever the gateway and the network do, no SDK takes anything but the whole
\* body of a documented answer for an answer, and an error, a torn body or text
\* without JSON not even for an empty value; an empty body becomes one in Python
\* and TypeScript only (do, _request, request and their callers).
THEOREM Whole == CliSpec => []AnswersAreWhole
<1>1. ASSUME CliInv PROVE AnswersAreWhole
  <2> SUFFICES ASSUME outcome \in {"answer", "hollow"}
               PROVE  /\ reply[1] = "ok" /\ net = "up"
                      /\ outcome = "answer" => WholeAnswer(reply[2])
                      /\ reply[2] # "garbage"
                      /\ reply[2] = "empty" => sdk # "go"
    BY DEF AnswersAreWhole
  <2>1. net = "up" /\ outcome = Told
    BY <1>1 DEF CliInv, CallInv, Settled
  <2>2. sdk \in {"go", "python", "typescript"}
    BY <1>1, Kinds DEF CliInv, CallInv
  <2>3. reply[1] = "ok"
    BY <2>1, <2>2 DEF Told, Refusal, GoRefusal, PyRefusal, TsRefusal
  <2>4. reply[2] # "garbage"
    BY <2>1, <2>2, <2>3 DEF Told, Success, GoSuccess, PySuccess, TsSuccess, WholeAnswer
  <2>5. outcome = "answer" => WholeAnswer(reply[2])
    BY <2>1, <2>2, <2>3 DEF Told, Success, GoSuccess, PySuccess, TsSuccess
  <2>6. reply[2] = "empty" => sdk # "go"
    BY <2>1, <2>2, <2>3 DEF Told, Success, GoSuccess, WholeAnswer
  <2> QED
    BY <2>1, <2>3, <2>4, <2>5, <2>6
<1> QED
  BY <1>1, Invariance, PTL

\* The refusal documented for an unsatisfiable contract reaches every Python
\* and TypeScript chat with its gates (_request, request).
THEOREM Typed == CliSpec => []UnsatisfiableTyped
<1>1. ASSUME CliInv PROVE UnsatisfiableTyped
  <2> SUFFICES ASSUME DocumentedRefusal, sdk # "go" PROVE outcome = "unsatisfiable"
    BY DEF UnsatisfiableTyped
  <2>1. reply[1] = "422" /\ reply[2] = "gateObjects" /\ outcome = Told
    BY <1>1 DEF DocumentedRefusal, CliInv, CallInv, Settled
  <2>2. sdk \in {"python", "typescript"}
    BY <1>1, Kinds DEF CliInv, CallInv
  <2> QED
    BY <2>1, <2>2 DEF Told, Refusal, PyRefusal, TsRefusal
<1> QED
  BY <1>1, Invariance, PTL

\* mapError tells a Go caller of an unsatisfiable contract only if that is what
\* the gateway's body says.
THEOREM Meant == CliSpec => []UnsatisfiableMeant
<1>1. ASSUME CliInv PROVE UnsatisfiableMeant
  <2> SUFFICES ASSUME sdk = "go", outcome \in {"unsatisfiable", "unsatisfiableNoGates"}
               PROVE  reply[2] \in Unsatisfiable
    BY DEF UnsatisfiableMeant
  <2>1. outcome = Told
    BY <1>1 DEF CliInv, CallInv, Settled
  <2>2. reply[1] # "ok"
    BY <2>1 DEF Told, Success, GoSuccess
  <2> QED
    BY <2>1, <2>2 DEF Told, Refusal, GoRefusal, Unsatisfiable
<1> QED
  BY <1>1, Invariance, PTL

\* What no error type of an SDK covers is raised on a body of another shape than
\* the code expects and on no other: never in Go, in TypeScript by a success only
\* (chat, eligible, embeddings, decisions), in Python by a success or by a 422
\* (_request and its callers).
THEOREM Crashes == CliSpec => []CrashesMeanShape
<1>1. ASSUME CliInv PROVE CrashesMeanShape
  <2> SUFFICES ASSUME outcome = "crash"
               PROVE  /\ sdk # "go"
                      /\ IF reply[1] = "ok" THEN ~WholeAnswer(reply[2]) ELSE sdk = "python"
                      /\ reply[2] \notin {"garbage", "gateObjects", "gateless", "otherError"}
    BY DEF CrashesMeanShape
  <2>1. outcome = Told
    BY <1>1 DEF CliInv, CallInv, Settled
  <2>2. sdk \in {"go", "python", "typescript"}
    BY <1>1, Kinds DEF CliInv, CallInv
  <2>3. CASE reply[1] = "ok"
    <3>1. sdk # "go" /\ ~WholeAnswer(reply[2])
      BY <2>1, <2>2, <2>3
         DEF Told, Success, GoSuccess, PySuccess, TsSuccess, WholeAnswer, PyReturnedAsIs
    <3>2. reply[2] \in {"shallow", "bare", "array", "null", "empty"}
      BY <2>1, <2>2, <2>3 DEF Told, Success, GoSuccess, PySuccess, TsSuccess
    <3> QED
      BY <2>3, <3>1, <3>2
  <2>4. CASE reply[1] # "ok"
    <3>1. sdk = "python"
      BY <2>1, <2>2, <2>4 DEF Told, Refusal, GoRefusal, TsRefusal
    <3>2. reply[2] \in {"gateStrings", "stringError", "array"}
      BY <2>1, <2>4, <3>1 DEF Told, Refusal, PyRefusal
    <3> QED
      BY <2>4, <3>1, <3>2
  <2> QED
    BY <2>3, <2>4
<1> QED
  BY <1>1, Invariance, PTL

\* Whatever the command line, a process exits with 0 only when the gateway
\* answered with success and JSON, or when it was only asked for the version or
\* for help (main and the functions it dispatches to).
THEOREM ExitZero == CliSpec => []ExitZeroMeansAnswered
<1>1. ASSUME CliInv PROVE ExitZeroMeansAnswered
  <2> SUFFICES ASSUME stage = "exited", exit = "0", count # 0
               PROVE  reply[1] = "ok" /\ net = "up" /\ reply[2] \notin {"empty", "garbage"}
    BY <1>1 DEF ExitZeroMeansAnswered, CliInv, LineInv
  <2>1. sdk = "go" /\ outcome \in {"answer", "hollow"}
    BY <1>1 DEF CliInv, LineInv
  <2>2. net = "up" /\ outcome = Told
    BY <1>1, <2>1 DEF CliInv, CallInv, Settled
  <2>3. reply[1] = "ok"
    BY <2>1, <2>2 DEF Told, Refusal, GoRefusal
  <2>4. reply[2] \notin {"empty", "garbage"}
    BY <2>1, <2>2, <2>3 DEF Told, Success, GoSuccess, WholeAnswer
  <2> QED
    BY <2>2, <2>3, <2>4
<1> QED
  BY <1>1, Invariance, PTL

\* A process started with any well-formed line, of any length and with any
\* flags repeated, makes the one request the line describes: the method of its
\* command, every value in its place, the one given last or the default; or says
\* why not (main, the flag sets and the run functions of main.go).
THEOREM Written == CliSpec => []RequestAsWritten
<1>1. ASSUME CliInv PROVE RequestAsWritten
  <2> SUFFICES ASSUME stage \in {"calling", "exited"}, WellFormed
               PROVE  IF /\ \A f \in Required[args[1]] : Value(f) # Unset
                         /\ "-contract" \in Required[args[1]] => Value("-contract") \in Loadable
                      THEN count = 1 /\ Described
                      ELSE stage = "exited" /\ exit = "1" /\ count = 0
    BY DEF RequestAsWritten
  <2>1. /\ args \in Seq(STRING) /\ count = IF Requested THEN 1 ELSE 0
        /\ OnTheWay
        /\ Requested => Complete /\ request = Request /\ op = Request.method
        /\ stage = "exited" /\ ~Requested => ~Complete /\ exit = "1"
    BY <1>1 DEF CliInv, LineInv
  <2>2. /\ command = args[1] /\ at = Len(args) + 1 /\ given["-url"] = DefaultURL
        /\ \A f \in FlagsOf[command] : given[f] = ValueBefore(args, f, at)
    BY <2>1 DEF OnTheWay
  <2>3. \A f \in FlagsOf[command] : given[f] = Value(f)
    BY <2>1, <2>2, AllValues
  <2>4. Required[command] \subseteq FlagsOf[command]
    <3>1. command \in Commands
      BY <2>2 DEF WellFormed
    <3> QED
      BY <3>1 DEF Required, Commands, FlagsOf, Explain
  <2>8. Requested => Described
    BY <2>1, <2>2, <2>3, RequestDescribes DEF WellFormed
  <2>5. Complete <=> /\ \A f \in Required[args[1]] : Value(f) # Unset
                     /\ "-contract" \in Required[args[1]] => Value("-contract") \in Loadable
    BY <2>2, <2>3, <2>4 DEF Complete
  <2>6. Requested => count = 1
    BY <2>1
  <2>7. ~Requested => stage = "exited" /\ exit = "1" /\ count = 0 /\ ~Complete
    BY <2>1 DEF Requested
  <2> QED
    BY <2>1, <2>5, <2>6, <2>7, <2>8
<1> QED
  BY <1>1, Invariance, PTL
=============================================================================
