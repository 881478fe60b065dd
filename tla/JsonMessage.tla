---------------------------- MODULE JsonMessage ----------------------------
(***************************************************************************)
(* The "message" of configuration-mode replies. ConfMode::process escapes *)
(* the text of a command or of configd by hand with Rest::mass_replace    *)
(* (src/src/server/common.cc) and hands it to JSON::add_value;            *)
(* JSON::serialize (src/src/server/http.cc) writes a value between two    *)
(* quotes as it is. Texts are sequences of characters; a character is a   *)
(* one-letter string, and "ESC" stands for the byte 0x1B that coloured    *)
(* command output carries.                                                *)
(***************************************************************************)
EXTENDS Naturals, Sequences, SequencesExt

CONSTANTS
  Chars,  \* the characters a command's output may contain
  MaxLen  \* bound: length of that output

Quote == "\""
Backslash == "\\"
LF == "\n"
CR == "\r"
TAB == "\t"
Esc == "ESC"

\* Characters below 0x20: RFC 8259 allows them in a string only escaped
Controls == {LF, CR, TAB, Esc}

ASSUME MaxLen \in Nat \ {0}

-----------------------------------------------------------------------------
(* std::string as a sequence; positions are 0-based as in the code. *)

NotFound == -1

\* s.find(v, from): the first position >= from where v occurs
Find(s, v, from) ==
  LET At == {k \in from .. Len(s) - Len(v) : SubSeq(s, k + 1, k + Len(v)) = v}
  IN IF At = {} THEN NotFound ELSE Min(At)

\* s.replace(j, n, r)
StrReplace(s, j, n, r) == SubSeq(s, 1, j) \o r \o SubSeq(s, j + n + 1, Len(s))

\* Rest::mass_replace: "while ((j = answer.find(victim, j+offset)) != npos)
\* { offset = jump; answer.replace(j, victim.length(), replacement); }"
\* with jump = replacement.length(). Every call passes a non-empty victim,
\* so each round moves past the text it inserted and the loop ends.
RECURSIVE ReplaceFrom(_, _, _, _, _)
ReplaceFrom(answer, victim, repl, j, offset) ==
  LET k == Find(answer, victim, j + offset)
  IN IF k = NotFound THEN answer
     ELSE ReplaceFrom(StrReplace(answer, k, Len(victim), repl),
                      victim, repl, k, Len(repl))

MassReplace(source, victim, repl) == ReplaceFrom(source, victim, repl, 0, 0)

\* The escapes of the handlers, in the order the code applies them.
\* ERROR of a failed command and the commit/save message: quote, then LF.
EscapeQuoteLF(s) ==
  MassReplace(MassReplace(s, <<Quote>>, <<Backslash, Quote>>),
              <<LF>>, <<Backslash, "n">>)

\* A "show" command's output: backslash, quote, CR, LF, TAB.
EscapeShow(s) ==
  LET s1 == MassReplace(s, <<Backslash>>, <<Backslash, Backslash>>)
      s2 == MassReplace(s1, <<Quote>>, <<Backslash, Quote>>)
      s3 == MassReplace(s2, <<CR>>, <<Backslash, "r">>)
      s4 == MassReplace(s3, <<LF>>, <<Backslash, "n">>)
  IN MassReplace(s4, <<TAB>>, <<Backslash, "t">>)

\* JSON::serialize of {"message": v}: the body from the value on is
\* v, a closing quote and "}" (the only key, with debugging off).
AfterKey(v) == v \o <<Quote, "}">>

-----------------------------------------------------------------------------
(* The reference: RFC 8259's reading of a string literal, from after its  *)
(* opening quote. It yields the text, or ok = FALSE, and what follows the *)
(* closing quote.                                                         *)

Unescape == (Quote :> Quote) @@ (Backslash :> Backslash) @@ ("/" :> "/")
            @@ ("n" :> LF) @@ ("r" :> CR) @@ ("t" :> TAB)

Bad == [ok |-> FALSE, text |-> <<>>, rest |-> <<>>]

RECURSIVE Literal(_)
Literal(s) ==
  IF s = <<>> THEN Bad
  ELSE LET c == Head(s) IN
    CASE c = Quote -> [ok |-> TRUE, text |-> <<>>, rest |-> Tail(s)]
      [] c = Backslash ->
           IF Len(s) >= 2 /\ s[2] \in DOMAIN Unescape
             THEN LET r == Literal(Tail(Tail(s)))
                  IN [r EXCEPT !.text = <<Unescape[s[2]]>> \o @]
             ELSE Bad
      [] c \in Controls -> Bad
      [] OTHER -> LET r == Literal(Tail(s))
                  IN [r EXCEPT !.text = <<c>> \o @]

-----------------------------------------------------------------------------
VARIABLES
  msg,  \* the text the handler means to send
  body  \* what its reply holds after {"message":" (<<>>: no reply yet)

vars == <<msg, body>>

\* Texts a command or configd may print; add_value drops an empty value.
Outputs == BoundedSeq(Chars, MaxLen) \ {<<>>}

Init == msg = <<>> /\ body = <<>>

\* Error(session, type, msg): a non-empty msg is reported as the type's
\* text (empty for CONFIGURATION_ERROR) + ": " + msg; add_value drops the
\* empty "error" field of that type.
ErrorMessage(m) == <<":", " ">> \o m

\* ConfMode::process, PUT: execute() returns non-zero; the output, escaped,
\* becomes ERROR(session, CONFIGURATION_ERROR, stdout).
CommandError(out) ==
  /\ msg' = ErrorMessage(out)
  /\ body' = AfterKey(ErrorMessage(EscapeQuoteLF(out)))

\* POST commit/save: configd's text (or its error text), escaped, is the
\* message.
CommitMessage(out) ==
  /\ msg' = out
  /\ body' = AfterKey(EscapeQuoteLF(out))

\* POST show...: the output of cli-shell-api, escaped, is the message.
ShowOutput(out) ==
  /\ msg' = out
  /\ body' = AfterKey(EscapeShow(out))

Next ==
  \E out \in Outputs : CommandError(out) \/ CommitMessage(out) \/ ShowOutput(out)

Spec == Init /\ [][Next]_vars

-----------------------------------------------------------------------------
\* A browser that parses a configuration-mode reply gets back the text the
\* handler meant to send: the value after "message" is a well-formed JSON
\* string whose text is msg, and only "}" follows it. The hand-written
\* escapes before add_value are the only escaping on that path.
MessageDecodesToText ==
  body # <<>> =>
    LET r == Literal(body) IN r.ok /\ r.text = msg /\ r.rest = <<"}">>
=============================================================================
