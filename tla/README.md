# Formal models of NOETIVELA-open

TLA+ models of the client side of the NOETIVELA inference fabric, the runs of
TLC that check them on small instances, and theorems about them that TLAPS
checks for every value of the constants. `src/` in the text below is the
repository; `C` stands for `src/sdk/go/client/client.go`.

The repository has no server in it: the gateway and the controller are
described by two OpenAPI files and otherwise live elsewhere. Every model treats
them as an environment that may answer anything, at any time, or not at all.

## 1. Inventory

| part | state | operations | talks to |
|---|---|---|---|
| Go streaming chat (`C:252-297`, `sse.go`) | per call: a goroutine, an unbuffered channel of chunks, an error channel with one slot, the response body | `ChatStream`, the scanner's `Next` | caller over two channels, gateway over a body that may break |
| Go client values (`C:136-191`) | a client: base URL, contract pointer, policy name | `New`, `WithContract`, field assignments, `newRequest` | shares contracts with the application and its clones |
| Go calls (`C:193-250, 299-510`) | per call: request, reply | `do`, `Chat`, `Embeddings`, `ValidateContract`, `EligibleCandidates`, `GetDecision`, `Decisions`, `Train`, `Replay`, `Usage`, `mapError` | gateway |
| Go policy parser (`src/sdk/go/policy`) | tokens, position, call stack, policy under construction | lexer `next`; one function per grammar rule | called by the server's policy engine |
| Python SDK (`src/sdk/python/noetivela`) | contract dataclasses; per stream: a buffer and a suspended generator | `_request` and its callers, `chat_stream`, `to_dict` | gateway, consumer of the generator |
| TypeScript SDK (`src/sdk/typescript/src`) | the same, with a `TextDecoder` | `request` and its callers, `chatStream` | gateway, consumer of the async generator |
| CLI (`src/cli/main.go`) | per process: arguments, flags, exit code | two rounds of flag parsing, nine subcommands, `loadContract` | Go SDK, contract files, scripts that read the exit code |
| Contracts (`src/contracts`) | - | schema, policy grammar, OpenAPI | what the code is compared with |
| Extension interfaces, examples | - | - | no behaviour of their own |

What is hard here, and what makes each part correct:

- **Streaming in Go.** Three parties interleave: the network, the goroutine and
  the caller, who polls for an error without blocking once the chunk channel is
  closed. Correct means: the poll never misses an error; a stream that ended
  was delivered whole and in order; nothing outlives the call; every call ends.
- **Streaming in Python and TypeScript.** The body arrives in pieces that
  respect neither lines nor characters. Correct means: where the pieces end
  makes no difference, and the connection is given back however the generator
  is left. (Python keeps that of a refused call.)
- **Contracts.** Four encoders of one document. Correct means: what the
  application demanded is what the gateway reads, hard gates first of all.
- **Clients.** Clones share pointers and one method works after it has
  returned. Correct means: a request says what its caller had bound.
- **Replies.** Three decoders of one error answer. Correct means: an error is
  never taken for an answer, and a refusal reaches the caller as what it is.
- **Policies.** A hand-written lexer and parser of hard gates. Correct means:
  the tokens are those of the text, the parser returns, stays within its input,
  and loses or invents no gate.
- **Command lines.** Flags are parsed by a library with rules of its own.
  Correct means: the request is the one the line describes, and the exit code
  says what came of it.

The hazards, each at its line, are listed in `PROJECT.json`.

## 2. Modules

| module | models | state and actions |
|---|---|---|
| `StreamDelivery` | what a stream promises: chunks in order, none skipped between two of them, nothing after the end | the log, what the caller has, a verdict |
| `SseDelivery` | what a streaming generator promises: contents in order, none that is due skipped, none after the end, and all of them when the stream is reported complete | the body, the numbers of the contents given, a verdict |
| `ChatStream` | `C:252-297` with `sse.go`, and the receive loop of `TestChatStream` | `pc` is the place in the goroutine, `bodyOpen`/`chClosed`/`errCh` the resources, `stop` remembers why the loop ended; one action per way through the code (`RequestFails`, `Refused`, `TakeChunk`, `TakeBad`, `BodyEnds`, `ReadFails`, `Handoff`, `Poll`, ...) |
| `SseStream` | `chat_stream` (Python) and `chatStream` (TypeScript); `sdk` is chosen once | bytes on the wire, `buffer`, what is left of the `event`, `contents` still to yield; two-byte characters and CRLF are bytes of their own. `Read` takes one byte; a chunk of TypeScript is any number of them in a row (`pc = "chunk"`), before the loops over the buffer run. `Refused` is an end of its own: the response to a refusal stays open |
| `MCSseStream` | the kinds of line and the line ends each of the two is given | - |
| `ContractWire` | the encoders of the three SDKs and `loadContract` | per field: absent, zero or set; `Build` with an SDK, then `Load` and `Write` by the CLI in any alternation |
| `GoClient` | which contract and policy a request carries | `heap` of contracts, `clients`, `calls`; `WithContract`, `SetPolicy`, `Change`, `Do`, `Explain`, `ChatStream`, `Marshal` |
| `SdkRequests` | `GoClient` with the Python and TypeScript clients, and what bodies say of contract and policy; `sdk` is chosen once | `bodies` next to `calls`; `Construct`, `Assign`, `ExplainInBody`, `GoExplain`, `Replay` |
| `CallOutcome` | plain calls of one SDK, from request to what the caller is told; `sdk` is chosen once | class of reply, connection, outcome; one table per SDK and decoder, over bodies whole, partly there, of another shape, empty, torn or no JSON |
| `Cli` | `main.go`, from the arguments to the exit code; the call in between is one of `CallOutcome` | `at` and `given` are what package `flag` has parsed, `request` what is passed to which method of the client; `TakeFlag`, `StopAtFlag`, `Dispatch`, `Refuse`, `Call`, `Finish` |
| `MCCli` | the documented command lines, and all that are one word away from them | - |
| `PolicyLexer` | `parser.go:10-109`: the lexer, and the loop of `Parse` that calls it | `at` in the text, `tokens` collected; one action per branch of `next` |
| `PolicyParser` | `parser.go:111-423` over tokens | `stack` is the Go call stack, one frame per recursive call or loop test; `Panic` is an index beyond the tokens |
| `PolicyText` | `Parse`: the lexer to the end of the text, then the parser | both; `Lex` hands over the tokens, or passes on the lexer's error |
| `PolicyGrammar` | the plain part of `grammar.ebnf`: phrases as sets of token positions, and the ways to cut the tokens of a policy into clauses (`PlainCuts`) | reference only |
| `PlainPolicies` | what the parser makes of those policies | property only |
| `MCPolicyText` | all of these, on a corpus of policies and everything one edit away, in three ways of writing them down, and on short texts of any symbols | - |
| `ChatStream_proof`, `SseStream_proof`, `ContractWire_proof`, `SdkRequests_proof`, `Cli_proof`, `PolicyLexer_proof`, `PolicyParser_proof`, `PolicyText_proof` | theorems about the module of that name and those it extends | - |

`ChatStream` instantiates `StreamDelivery` with a refinement mapping: `wire` and
`got` map to themselves, and the verdict is read off the caller (`clean` or
`error` once it has finished, `abandoned` if it left). The environment actions
`WriteLine` and `Break` are steps of the abstract log; every internal step of
the goroutine is a stutter.

`SseStream` instantiates `SseDelivery` in the same way: `wire` is the body, `out`
the contents given, by number, and `pc` the verdict once the generator has
returned (`complete`), raised (`error`) or been closed (`left`). What is due in
`SseDelivery` depends on the whole body, not on what was read of it.

How the modules compose: `Cli` extends `CallOutcome`, so that one run holds both
the applications that call an SDK and the processes of the command line, whose
call is the same machine. `SdkRequests` extends `GoClient` in the same way.
`PolicyText` extends `PolicyParser` and instantiates `PolicyLexer` on variables
of its own; the parser has an end mark alone to look at until the lexer is
through. `loadContract` is one action, `Load`, of `ContractWire`; `Cli` needs of
it only whether it succeeds (`Loadable`).

Definitions whose comment starts with "Mutant of" are not part of any
specification: each is a version of the definition after it with a plausible
bug, kept to show that the properties notice it.

## 3. Runs

| run | checks | shows |
|---|---|---|
| `chat_stream` | `TypeOK PollSeesError ReleasedWhenFinished WholeWhenEnded CallerFinishes ExitsOrAbandoned ImplementsDelivery` | a caller that ranges to the end gets everything it was promised; the send on `ch` is the only place the goroutine can be left behind |
| `chat_stream_errors` | `StreamErrorsSurface`: violated | a cut body looks like a complete one |
| `sse_streams` | `TypeOK ChunkingInvisible DeltasIntact ClosedAtEnd Finishes Released ImplementsDelivery` | both generators yield exactly what the bytes call for wherever a read ends, TypeScript also inside a character; a generator that returns has given everything, and one whose read fails does not return; both end, and give the connection back, Python at once, with the response of a refusal as the one exception |
| `sse_bytes` | `ContentsIntact`: violated | Python destroys every character outside ASCII |
| `contract` | `TypeOK MeaningKept ValuesSurvive` | Python and TypeScript headers mean what was asked for; with Go and the CLI a value that is set survives any number of hands |
| `contract_gates` | `GatesKept`: violated | the CLI drops gates that the Go type has no field for |
| `sdk_requests` | `TypeOK SentAsAsked ExplainedAsRouted` | no clone, explain call or late stream leaks into a request of any SDK; Python and TypeScript explain a contract under the policy it would be routed by |
| `calls` | `TypeOK AnswersAreWhole UnsatisfiableTyped UnsatisfiableMeant CrashesMeanShape RequestAsWritten ExitZeroMeansAnswered CallsReturn Exits` | only the whole answer of a success is taken for an answer; a value without one comes from JSON, or in Python and TypeScript from an empty body; Python and TypeScript report the documented 422 with its reasons, Go takes no other refusal for it; an exception past the error types of an SDK means a body of another shape; a command line makes the one request it describes, method, contract, policy, texts and numbers, and exit code 0 means that the gateway answered; calls return and processes exit |
| `cli_documented` | `DocumentedWork`: violated | the documented `contract validate -contract ...` makes no request |
| `outcome_gates` | `GoUnsatisfiableTyped`: violated | Go does not decode the documented 422 |
| `policies` | `TypeOK LexerTypeOK NothingLost TokensAsAssumed TextAsTokens PanicsOnlyAfterOptimize GatesKept FirstBraceCloses PlainPoliciesParsed Returns ParseIsLinear` | from the characters on: the lexer loses nothing and hands over the tokens that were meant; the parser returns, after a number of steps that is linear in the text; each `require` of the policy it returns is a gate of its own, unless it stands where a name does; the policy ends at the first closing brace of the text; and the plain part of the grammar is taken clause by clause |
| `parser_neverpanics` | `NeverPanics`: violated | a policy cut after `optimize` makes `Parse` panic |

### Bounds, and why they are enough

- `MaxLines = 4` in `ChatStream`. The goroutine holds one line at a time and
  `errCh` one value; four lines put a chunk before and after any of the other
  kinds, and a failure at every point between. The theorems of section 5 need
  no bound at all.
- `SseStream`: four lines. Two events of two lines each, or an event with its
  end mark, cover a cut inside a line, between the two newlines and between two
  events in one read. Python is given seven kinds of line and one line end;
  TypeScript three kinds and both line ends, since a read of any size multiplies
  its states. The separator is recognised on the text alone, so the kind of line
  does not matter to it. `DONE` differs from `finish` in its text only, and
  `role` from `noise` in why it is skipped: both are left out of the runs. The
  safety properties are theorems for all kinds, all line ends and any number of
  lines; what needs the bound is liveness.
- `ContractWire`: seven fields vary at a time, one of every combination the
  encoders tell apart (flag with default true, flag, string, number, list,
  enumeration; with and without a section neighbour). Fields do not influence
  each other except through their section.
- `SdkRequests`: two addresses, two contents, two policies (one of them none),
  two clients, two calls; enough for a clone that shares a contract and for a
  stream that is late while the client it came from is used again. The
  properties of the run are theorems without a bound.
- `CallOutcome` and `Cli`: two calls, to see that nothing of the first is left
  in the second; every method, every class of body (seven of a success, seven of
  a refusal, by what the three decoders tell apart). Command lines: those of
  README.md:138-144 and every line one word away from them, where words are all
  flags, all subcommands, a flag nobody defined, files that do and do not load,
  and a number. One word is enough to drop, double or misplace a flag, its value
  or the subcommand; lines with a doubled flag are added by hand. The safety
  properties are theorems for lines of any length.
- `MCPolicyText`: ten policies that use every clause and every form of
  expression, and from each of them every prefix, every deletion of a token and
  every replacement by one of 25 tokens, including strings with the text of
  brackets and braces. Each policy is written with blanks, without any that can be left
  out, and with comments that hold quotes and braces between all tokens. Next to
  these the lexer reads every text of up to three of 15 symbols, one or more of
  each class it tells apart, among them three bytes from 0x80 on, of which
  `IsLetter` and `IsSpace` take one each; it looks at two to tell what starts, so
  three show each start with something before or behind it. All properties of the run but `Returns` are also theorems, for every
  text.

### Fairness, and why the code justifies it

- `ChatStream`: weak fairness of the goroutine, of the hand-over, of a caller
  that has not left, and of `Break`: `New` sets `http.Client.Timeout` to 120 s,
  which covers reading the body, so a body the gateway leaves open is cut.
  Nothing is assumed of the gateway; nothing forces a caller to leave.
- `SseStream`: weak fairness of the generator, of the consumer (it asks again
  or closes), of `Break` and of `Abort`. In TypeScript `AbortSignal.timeout`
  covers the whole call. In Python the timeout covers one socket operation, so
  the models rely on the gateway falling silent in the end, which it does
  because `MaxLines` bounds what it writes: a gateway that drips for ever keeps
  a Python generator for ever.
- `CallOutcome` and `Cli`: weak fairness of the SDK's own steps, of the timeout
  of a whole call (`TimesOut`) and of the process. `http.Client.Timeout` of Go
  and `AbortSignal.timeout` of TypeScript cover the call, body included; the CLI
  gives each command a context of 60 s (`main.go:43`), under the 120 s of
  `http.Client`, which ends a call in the same way (`Fail`). The timeout of
  Python bounds one operation on the socket (`client.py:137`), so for Python
  `Fail` may happen and need not. Of the gateway nothing is assumed: it may never
  answer, and never finish a body (`Answer`, `Read` have no fairness). This is
  why `CallsReturn` says of Python only that a call returns once its body is
  complete or its connection has failed.
- `PolicyText`: weak fairness of its next step; `Parse` runs in one goroutine.
- `SdkRequests` and `ContractWire` state safety only.

Deadlock is checked in every run; the only states without a step are final ones
(`Terminated`, `Stopped`, `Exited`, `Returned`), which stutter. A goroutine whose caller
has left for good is one of them.

## 4. What the models leave out

Texts, numbers and the fields of answers; tenant, principal and base URL; query
strings; the order of HTTP headers and whether a text fits into one; what the
CLI prints. A failed read may lose bytes that had already arrived, which is more
than one transport does but nothing any of them rules out. The end of a body is
what the transport takes for one: a connection closed short of its
`Content-Length` is an error in Go and `fetch`, and an end under Python's
`read(1)`. In `ChatStream` a
chunk is any data line that decodes: `[DONE]`, which the Go SDK does not know, is
one that does not. `bufio.Scanner` is modelled by what it gives its caller:
lines in order, the fragment it holds at an error as a last token, and an end at
a line beyond 64 KiB.

`Cli` writes a flag as one word and its value as the next: the forms `-f=v`,
`--f` and the end mark `--` of package `flag` are left out. In `PolicyLexer` a
symbol is a byte, or stands for a run of letters, which no branch of the lexer
tells from a single one (`HighBytes` are the bytes from 0x80 on, `Utf8` what
`string(c)` makes of them), and `TextOf` says what string a sequence of symbols spells. In
`PolicyParser` the trees below the root of an expression are left out, and
numbers keep only whether `ParseFloat` takes them.

Not modelled at all: `src/contracts/go/extension` and `src/examples`, which
declare types or call the Go SDK in a straight line; the gateway and the
controller, which are not in the repository; the schemas no code here reads.

## 5. Theorems

All are checked by TLAPS without assumptions beyond those named in the modules
and, for the lexer and the texts, those in the theorem itself: `ClassAssumption`
(the classes of symbols are disjoint, and what is not ASCII is encoded in bytes
that are not) and `TextsSpell` (`TextOf` returns strings,
the empty one for no symbols). `TextsSpell` ranges over all sequences of symbols
and cannot be evaluated by TLC.

| module | theorem | statement |
|---|---|---|
| `ChatStream_proof` | `TypeCorrect ErrorSeen Released Whole` | the four invariants of the run, for every `MaxLines` |
| `ChatStream_proof` | `DeliveryRefined` | `Spec => ImplementsDelivery` |
| `SseStream_proof` | `TypeCorrect Chunking Deltas Closing` | the four invariants of `sse_streams`, for every body and every way of cutting it |
| `SseStream_proof` | `DeliveryRefined` | `Spec => ImplementsDelivery` |
| `ContractWire_proof` | `TypeCorrect Survival Meant` | the three invariants of `contract`, for any fields that vary and any number of hands |
| `SdkRequests_proof` | `TypeCorrect Sent` | of the Go client alone (`Spec`): the type invariant for any sets and bounds, and `SentAsAsked` from `Disciplined` |
| `SdkRequests_proof` | `SdkTypes SdkSent Explained` | of the three SDKs (`SdkSpec`): the same two, and `ExplainedAsRouted` with no discipline at all |
| `Cli_proof` | `TypeCorrect Whole Typed Meant Crashes ExitZero Written` | the seven invariants of `calls`, for any number of calls and any command lines |
| `PolicyLexer_proof` | `TypeCorrect Lossless` | the lexer's types and `NothingLost`, for every text over every classification of symbols, from `ClassAssumption` |
| `PolicyParser_proof` | `TypeCorrect PanicOnlyThere GatesOrdered FirstBrace PlainParsed` | the parser's five safety invariants (`GatesOrdered` is `GatesKept`, `FirstBrace` is `FirstBraceCloses`), for every set of well-lexed token sequences |
| `PolicyText_proof` | `LexerTypes TextKept TextMeant TokensFit TextTypes TextPanics TextGates TextFirstBrace TextPlain` | the nine invariants of the run `policies`, for every text, from `TextsSpell` |
| `PolicyText_proof` | `TextLinear` | `TextSpec => ParseIsLinear`, an action property, from `TextsSpell` |

**ChatStream** (assumes `BoundAssumption`). The four
invariants are not inductive: that the poll is enough depends on the
error being in `errCh` before `ch` is closed, on every path, and that delivery
is whole on what the scanner has passed since the last hand-over. `IInv` ties
`pc` to the resources (which of body, channel and buffer are in which state at
each place), `errCh` and `seen` to `stop`, and says that between `LastGot` and
`rd` there is only noise, apart from the chunk on offer. The refinement is one
lemma over the actions, most of them stutters: only `WriteLine`, `Break`,
`Handoff`, `Poll` and `Abandon` change what the caller can see.

**SseStream** (assumes `SdksAssumption`, `BoundAssumption`, `WrittenAssumption`,
`EndsAssumption`: which generators and lines there are). `ChunkingInvisible`
compares what was yielded with what the bytes call for, and nothing in the
state says how the two belong together except the place each character of a
text carries. `IInv` says that the bytes read fall into three stretches
(`Laid`): up to `front` all is handled, the event lists what is visible of the
stretch behind it, an empty line ends at `base`, and the buffer lists the rest
(`Listing`). The contents yielded and about to be yielded are, in order, those
of the lines up to `front`, and none of these ends the stream. A read
makes the buffer's list one longer, or leaves it alone when the byte is the
first of a character and waits in `TextDecoder`. Two facts carry the rest: line
feeds are next to each other in the text exactly when they are in the body
(`AdjacentInText`, `AdjacentInBody`), so cutting the buffer finds the empty
lines of the body, and no earlier or later ones; and a line starts behind a line
feed in the text too (`LineStarts`), so what a handler takes or skips is one
whole line and nothing of the next. Both need that the first byte of a character
is followed by its second and never by a line feed, which the gateway's lines
keep (`WellWritten`, `BodyWritten`). When the generator waits or has stopped by
itself, the buffer has no empty line in it and the event is used up, or begins
with a line that stops the stream (`Pending`): nothing more is due
(`NothingLate`). `ClosedAtEnd` needs of all this only which response is open at
which place: a stream that was accepted is closed by `with resp`, a refusal
ends before it. That places exist where they are looked for (`LineEndIs`, the
first separator) is again that a set of numbers has a least element. The
refinement of `SseDelivery` then needs no more than `ChunkingInvisible` before
and after the step, and how the due of the bytes read lies in the due of the
body: it is in it (`DueOfBody`), comes before everything else in it
(`DueInOrder`), and is all of it where a generator returns (`DueAtEnd`).

**ContractWire** (assumes `UsedAssumption`, `SdksAssumption`). Until the header
is written, object and document are functions of the contract the application
had in mind (`Made`), so that `MeaningKept` is a property of the encoders alone:
field by field, the document means what the contract meant. Behind that point
only a bound is kept, the same for documents and objects (`Survives`): a value
stays, and none appears where the contract meant none. It is inductive because
each of `GoObject` and `GoEncode` keeps it, in any alternation.

**GoClient and SdkRequests** (assume `PointerAssumption`, `PolicyAssumption`,
`CountAssumption`, `DisciplineAssumption`, `SdkAssumption`). `IInv` adds that
clients are what they were bound to, and that a goroutine that has not marshalled
yet would marshal what its caller asked for. The last part is what `Disciplined`
buys: `SetPolicy` and `Change` leave alone what a pending stream reads. Without
the discipline `SentAsAsked` does not hold, and the code gives a caller no way to
know when it may go on other than to hear from the stream. For the other two
SDKs the same invariant holds of the same variables, with `Construct`, `Assign`,
`ExplainInBody` and `Replay` as further steps; `SaidInv` ties each body to the
headers of its own call, which needs that no step touches the headers of a call
that has said something.

**CallOutcome and Cli** (assume `SdksAssumption`, `OpsAssumption`,
`MaxCallsAssumption`, and `CommandLinesAssumption`: a command line is a sequence
of strings). Of a call, the invariant says that a
settled outcome is what the SDK's table makes of a reply read to its end
(`Settled`, `Told`); each statement about outcomes is then one about a table. It
is not enough that the outcome was right when it was set: no step may change the
reply or the connection under it before the next call begins. Of the command
line, `LineInv` says that the flags given so far have the values found in the
words before `at` (`ValueBefore`), however often a flag is repeated, or else the
default the command declares; and that the process has made no request, or
exactly one, put together from these flags, and waits for it, or has exited with
the code that belongs to its outcome. That each part of that request is the flag
the usage text describes it by is then one lemma about `Sent`
(`RequestDescribes`).

**PolicyLexer.** `NothingLost` is inductive: a token starts where the lexer
stands and ends where it goes on, so that the last gap becomes the gap before
the new token, and the new gap is empty; a blank or a comment makes the last gap
longer by what it allows. The text of a token is the text at its place, except
that a mark outside ASCII is re-encoded by `string(c)` and so is longer than
what it was read from (`Character`); two lemmas tell such a mark from an operator of two symbols
(`PairIs`, `MarkIs`). Everything rests on `FirstIs`, that the search for the
next symbol of a set finds the first one, which needs that a set of numbers has
a least element. `EndLast` adds that `tokEOF` is the last token.

What a text means is a property of the text: `IsWriting` says that tokens stand
in it in order, each as what it is (`Writes`: identifiers and numbers as long as
they can be, strings between quotes they do not contain, marks of two symbols
where there are two), with nothing but blanks and comments between them.
`Follows` is the invariant: what the lexer has collected are the first of the
tokens meant, and between the last of them and where it stands there is only
what separates. A step then takes the next token meant and no other, because
what starts there decides the branch and what follows it decides the end
(`StepFollows`).

**PolicyText.** `TextInv` joins the invariants of both parts, and says that the
parser has not begun while the lexer reads. The step where the tokens are handed
over is the one that matters: `EndLast` gives `WellLexed`, all that the theorems
about the parser assume (`HandedWellLexed`). They then hold from the characters
on, and of texts nobody meant. For texts somebody meant (assumes
`WrittenAsMeant`: each input that states its tokens is a writing of them in the
sense of `IsWriting`, which TLC evaluates for all inputs of the run), `MeantInv`
carries `Follows` to the hand-over.

`ParseIsLinear` is a variant: `TextStepsToGo`, nine for each symbol not yet
read and eight for each token not yet taken, with a small credit for what the
frame on top may still do without taking one (`Credit`), falls with every step
but the stutter of a finished parser; that no other step changes nothing, which
an action property cannot say, is in the lemmas (`StepNearer`,
`TextStepNearer`). It is the safety part of `Returns`: no function of the
parser loops or comes back to a token, on any text. That the steps are also
taken is fairness, and left to TLC.

**PolicyParser** (assumes `InputsEndInEOF`: every input is `WellLexed`). `TypeOK` says that `peek` never
looks beyond the tokens while the parser runs, which depends on what each frame
of the stack may assume of the position; the strengthening gives, for each kind
of frame, what was consumed before it, where `from` points while a `require` is
open, and that clause frames stand only at the bottom of the stack. It follows
that `policy p { optimize` at the end of the input is the only way to panic.

`GatesKept` and `FirstBraceCloses` are about what the parser has passed over, in
whatever nesting, and not about where it stands. Their invariant `WordsInv` says
that each `require` behind the parser started a gate, or is the one that is open
now, or stands where a name does; and that each brace behind it stands behind
`optimize`, or is the one that ended the policy. It has one lemma for each way to
take tokens: the functions below an expression take no brace and a `require` only
beside a dot (`ExpressionTakes`), a clause takes its own keyword and
names (`ClauseTakes`), and only `Close` takes a brace as such (`CloseWords`).

`PlainParsed` (assumes `NumbersParse`: `ParseFloat` takes what the grammar calls
a number) is the statement that the parser implements the grammar on its plain
part, and the one about its result: for every way `P` to cut the tokens into
clauses, it reaches the last brace, and the policy has a gate for each require
over exactly its tokens, as many prefers as there are, and of each other kind of
clause one if and only if there is one (`Collected`). The grammar is
nondeterministic and the parser is not, so the invariant follows the parser
through a given cut: `Along(P)` says that it stands at the start of a clause
with the clauses before it collected, or inside one, at a place from which the
rest of the grammar's phrase still reaches the clause's end (`GateBegun`,
`OperandBegun`, `ListBegun`, `WeightsBegun`). That a phrase ends where the
parser stops follows from what stands there: a keyword or the brace, none of
which continues an operand or a list of weights (`CutIs`). Phrases count what is
repeated instead of recursing (`i + 2 * n`), so that none of this needs an
induction over the tokens. `OnlyMarksClose` is a hypothesis and not an
assumption, since the code does not keep it: a string literal with the text `]`
or `)` is taken for the bracket. Without the part about `)`, TLC
finds `require model.eval(")") == true`, which the grammar has and the parser
refuses: the string ends the arguments.

## 6. Model-checked only

Every safety invariant that a passing run checks is a theorem, and so are the
two refinements and the action property `ParseIsLinear`.

Liveness (`CallerFinishes`, `ExitsOrAbandoned`, `Finishes`, `Released`,
`CallsReturn`, `Exits`, `Returns`) rests on fairness and is outside the prover's
reach; of `Returns` the theorem `TextLinear` has the part that needs none. The six
properties that TLC finds violated are of course no theorems.

## 7. Where the code and its documents disagree

Runs that TLC finds violated; `PROJECT.json` quotes both sides.

1. `C:278`: a read error, a timeout or a line over 64 KiB ends `ChatStream` like
   the end of the body; the comment says errors surface (`chat_stream_errors`).
2. `client.py:196`: bytes are decoded one at a time, so characters outside ASCII
   become replacement characters (`sse_bytes`).
3. `main.go:96`: `loadContract` drops hard gates the Go type has no field for
   (`contract_gates`).
4. `C:505`: the documented 422 has gates that are objects; Go expects strings,
   Python fails on strings, so no body with gates serves both (`outcome_gates`).
5. `parser.go:182`: `policy p { optimize` panics instead of returning an error
   (`parser_neverpanics`).
6. `main.go:106`: `contract validate -contract f`, the first command line of
   README.md and of the usage text, parses its flags from `validate` on, and
   fails with "-contract is required" (`cli_documented`).

Met while modelling, and visible in the definitions, without a run of their own:

- `index.ts:115`, `client.py:197`: only LF LF ends an event, so a body with CRLF
  yields nothing (`Separators`).
- `C:56`, `C:68`: `omitempty` drops `prefer_cache_locality: false` and
  `retry_budget: 0`, which the schema's defaults then replace (`GoEncode`).
- `client.py:188`: a refused stream leaves its response open, in the `HTTPError`
  behind `ChatStreamError`; nothing closes it. `index.ts:106` leaves the body of
  a refusal unread until the `AbortSignal` fires (`Refused`).
- `client.py:137`: the timeout is that of one read, so a gateway that drips holds
  a call as long as it likes (`TimesOut`).
- `client.py:167`, `index.ts:91`: `choices: [{}]`, which data-plane.yaml:228
  allows since nothing in a choice is required, raises a `KeyError` in Python
  and a `TypeError` in TypeScript; Go gives an empty text. `null` and arrays end
  in an `AttributeError` of most Python methods and a `TypeError` of some in
  TypeScript; an empty body is `{}` for both (`PySuccess`, `TsSuccess`).
- `index.ts:67`, `client.py:142`: every 422 is an unsatisfiable contract, also
  the one that says no training samples were collected (`TsRefusal`).
- `parser.go:186`: a documented lexicographic `optimize` puts its numbers into
  the order, as empty names (`LexicographicOrder`).
- `parser.go` accepts another language than `grammar.ebnf`: text after the
  closing brace is dropped (line 244); `and` and `or` in a gate are refused
  (164); a string with the text of a bracket or dot is taken for one (150, 330,
  383); words and forms outside the grammar are accepted (138 and others).
- `parser.go:34`: the lexer takes each byte of a UTF-8 text for a character, so
  an identifier with an accented letter falls apart (`Letters`, `Spaces`); and
  line 86 makes of a byte from 0x80 on the two bytes of the character of that
  number (`Character`).
- `parser.go:182`: `optimize }` takes the brace for a dimension without a name, the
  one way for a policy to go on behind its first brace (`FirstBraceCloses`).
- `C:299-333`: the explain calls of Go send no body, although data-plane.yaml
  marks it as required, and replace the client's policy by an empty name when
  none is given, where Python and TypeScript fall back on it (`GoExplain`).
- `main.go:106` and the other commands: what stands behind a stray word, flags
  included, is ignored in silence (`Parsed`).
- `C:362`, `client.py:266`: filters go into a query string as they are;
  `index.ts:166` escapes them with `URLSearchParams`.

## 8. Plan

Done: streaming in the three SDKs with what it promises, contracts, the clients
of the three SDKs, replies, the command line, the policy language from its
characters on.

Every safety property that a passing run checks is a theorem.

Left: the other direction of `PlainPoliciesParsed`, what the parser accepts
outside the grammar. It would take a grammar of its own for the language of the
code, which the list of differences in section 7 is too short to be.

A joint model of the three stream decoders was considered and left out: no
document fixes the shape of a chunk, so that the Go SDK and the other two differ
is all there is to say (`PROJECT.json`, hazard at `C:289`).
