------------------------------- MODULE MCCli --------------------------------
(***************************************************************************)
(* Cli on the command lines of README.md and on all that are one word away *)
(* from them: a word left out, put in or replaced by another.              *)
(***************************************************************************)
EXTENDS Cli

\* README.md:138-144.
Documented ==
  {<<"contract", "validate", "-contract", "f.json", "-policy", "legal">>,
   <<"eligible", "-contract", "f.json", "-policy", "legal">>,
   <<"chat", "-contract", "f.json", "-prompt", "hi", "-policy", "legal">>,
   <<"decisions", "-limit", "50">>,
   <<"usage">>,
   <<"replay", "-baseline", "legal", "-policy", "legal", "-limit", "50">>,
   <<"train", "-version", "legal">>}

Words == Flags \cup Commands \cup {"version", "f.json", "torn.json", "legal", "hi", "50"}

Prefix(s, n) == SubSeq(s, 1, n)
Suffix(s, n) == SubSeq(s, n + 1, Len(s))

MCLines ==
  Documented \cup {<<"version">>}
    \cup UNION {{Prefix(s, i - 1) \o Suffix(s, i) : i \in 1 .. Len(s)} : s \in Documented}
    \cup UNION {{Prefix(s, i) \o <<w>> \o Suffix(s, i) : i \in 0 .. Len(s), w \in Words} : s \in Documented}
    \cup UNION {{[s EXCEPT ![i] = w] : i \in 1 .. Len(s), w \in Words} : s \in Documented}
    \cup {<<"eligible", "-contract", "torn.json", "-contract", "f.json">>,
          <<"contract", "-contract", "f.json", "-policy", "hi", "-policy", "legal">>,
          <<"-url", "hi", "validate", "-contract", "f.json">>}

MCLoadable == {"f.json"}
MCNumerals == {"50"}

\* The command lines of README.md and of the usage text (main.go:80) make
\* their requests.
DocumentedWork == stage = "exited" /\ args \in Documented => count = 1
=============================================================================
