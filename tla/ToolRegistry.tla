---------------------------- MODULE ToolRegistry ----------------------------
(***************************************************************************)
(* The tools an agent may call and what becomes of their output on its way *)
(* to the model: tools/registry.py with the analysers behind it and the    *)
(* redaction in front of the model.                                        *)
(*                                                                         *)
(* A file under review is a sequence of lines, and a line is what the      *)
(* analysers say of it.  A tool's result is the JSON object it is made     *)
(* into, reduced to the lengths that _json() looks at; the raw values in   *)
(* it are sets of atoms, which a mask hides and a limit may part.           *)
(***************************************************************************)
EXTENDS Naturals, Sequences, FiniteSets

CONSTANTS
  Lines,                 \* the lines under review, by number
  Files,                 \* how many files they are in
  BaseSize,              \* what a result takes before its lists, in the unit
  ItemSize,              \* of the limits; a finding, a raw excerpt, a diff
  ExcerptSize,
  DiffSize,
  MAX_TOOL_OUTPUT_CHARS,
  MAX_OBSERVATION_CHARS,
  Within                 \* Within[tool][l]: what tool quotes of line l

ASSUME LinesAssumption == Lines \subseteq Nat \ {0} /\ IsFiniteSet(Lines)
ASSUME SizesAssumption ==
  {Files, BaseSize, ItemSize, ExcerptSize, DiffSize, MAX_TOOL_OUTPUT_CHARS,
   MAX_OBSERVATION_CHARS} \subseteq Nat

(***************************************************************************)
(* A password in application code, a private key, personal data, a         *)
(* password in a test; a bare except, a long line; nothing; a repair.      *)
(***************************************************************************)
Content ==
  {"leak", "key", "pii", "fixture", "bare", "long", "clean", "fixed"}

TOOLS ==
  {"scan_secrets", "run_bandit", "run_ruff", "run_pytest_coverage",
   "read_file", "list_changed_files", "get_diff"}

AGENT_TOOLS ==
  [CoordinatorAgent |-> {"list_changed_files", "get_diff"},
   SecurityAgent |-> {"scan_secrets", "run_bandit", "read_file"},
   StyleAgent |-> {"run_ruff", "read_file"},
   TestCoverageAgent |-> {"run_pytest_coverage", "read_file"}]

Agents == DOMAIN AGENT_TOOLS

allowed_tools(a) == AGENT_TOOLS[a]

\* A subprocess is run, with a limit on its time and a row of its own.
Analysers == {"run_bandit", "run_ruff", "run_pytest_coverage"}

-----------------------------------------------------------------------------
(***************************************************************************)
(* What the tools find in the working copy.                                *)
(***************************************************************************)
scan_text == {"leak", "key", "pii", "fixture"}
bandit_issues == {"leak", "fixture"}
ruff_violations == {"bare", "long"}

FindingsOf(tool, text) ==
  {l \in Lines :
     \/ tool = "scan_secrets" /\ text[l] \in scan_text
     \/ tool = "run_bandit" /\ text[l] \in bandit_issues
     \/ tool = "run_ruff" /\ text[l] \in ruff_violations}

(***************************************************************************)
(* The JSON object: items is its list of findings, files its list of       *)
(* files, fixed what no rule of _json() can shorten, excerpt the raw       *)
(* output, named whether it says which tool it is from, last whether a     *)
(* list has been cut down to one.                                          *)
(***************************************************************************)
Payload ==
  [items : Nat, files : Nat, fixed : Nat, excerpt : BOOLEAN, named : BOOLEAN,
   last : BOOLEAN]

Result(tool, items) ==
  [items |-> items,
   files |-> IF tool \in {"scan_secrets", "run_pytest_coverage",
                          "list_changed_files"} THEN Files ELSE 0,
   fixed |-> IF tool \in {"get_diff", "read_file"} THEN DiffSize ELSE 0,
   excerpt |-> tool \in Analysers,
   named |-> tool \in Analysers \cup {"scan_secrets"},
   last |-> FALSE]

\* A refusal; an analyser's result with an error and nothing else; one with an
\* error and what the analyser wrote.
ErrorResult ==
  [items |-> 0, files |-> 0, fixed |-> 0, excerpt |-> FALSE, named |-> FALSE,
   last |-> FALSE]

EmptyResult == [ErrorResult EXCEPT !.named = TRUE]

UnreadResult == [EmptyResult EXCEPT !.excerpt = TRUE]

Size(p) ==
  BaseSize + ItemSize * p.items + p.files + p.fixed
    + IF p.excerpt THEN ExcerptSize ELSE 0

Oversize(p) == Size(p) > MAX_TOOL_OUTPUT_CHARS

\* _DROPPABLE goes first.
drop_excerpts(p) == [p EXCEPT !.excerpt = FALSE]

\* The longest of _TRIMMABLE, the findings when two are as long.
Longest(p) == IF p.items >= p.files THEN "items" ELSE "files"

AtLeastOne(n) == IF n > 1 THEN n ELSE 1

\* Mutant: a quarter of three is nothing to drop.
KeepThreeQuarters(n) == AtLeastOne(n - n \div 4)

keep(n) == AtLeastOne(n - AtLeastOne(n \div 4))

\* No list is touched again once one is down to one.
shortened(p) ==
  LET n == keep(p[Longest(p)])
  IN [p EXCEPT ![Longest(p)] = n, !.last = n = 1]

-----------------------------------------------------------------------------
(***************************************************************************)
(* Redaction.  The password of a leak is one with a mail address in it,    *)
(* so two rules match there, one value inside the other.  A rule matches a *)
(* value that stands whole and nothing less.                               *)
(***************************************************************************)
Address == {"user", "host"}
Password == Address \cup {"rest"}
PrivateKey == {"begin", "end"}
TestPassword == {"left", "right"}

Detected == {Address, Password, PrivateKey, TestPassword}

Atoms == UNION Detected

RawOf(content) ==
  CASE content = "leak" -> Password
    [] content = "pii" -> Address
    [] content = "key" -> PrivateKey
    [] content = "fixture" -> TestPassword
    [] OTHER -> {}

\* A text is made of pieces; a piece is what stands of a line's raw value in
\* one place, which a tool may have cut before redaction sees it.
Piece == [cut : BOOLEAN, raw : SUBSET Atoms]

\* A value that a rule matches is replaced wherever it stands whole.
Replaced(p, value) ==
  [p EXCEPT !.raw = IF value \subseteq @ THEN @ \ value ELSE @]

Masked(text, value) == {Replaced(p, value) : p \in text}

\* The rules with nothing to do with one another.
MaskedApart(text) == Masked(Masked(text, TestPassword), PrivateKey)

\* Mutant: the values are masked in the order of the rules, which happens to
\* have the short one first.
RedactInRuleOrder(text) ==
  MaskedApart(Masked(Masked(text, Address), Password))

\* Longest first.
redact(text) == MaskedApart(Masked(Masked(text, Password), Address))

(***************************************************************************)
(* The raw text in a result: the scanner masks its own, the others quote,  *)
(* each within a limit of its own.  Bandit quotes a line twice, within a   *)
(* limit as code_excerpt and whole as issue_text.                          *)
(***************************************************************************)
ASSUME WithinAssumption == Within \in [TOOLS -> [Lines -> SUBSET Atoms]]

Cut(raw, within) == [cut |-> ~(raw \subseteq within), raw |-> raw \cap within]

QuotedBy(tool, text) ==
  LET quoted == IF tool \in {"get_diff", "read_file", "run_pytest_coverage"}
                THEN Lines
                ELSE IF tool = "run_bandit" THEN FindingsOf(tool, text) ELSE {}
      whole == IF tool = "run_bandit" THEN quoted ELSE {}
  IN {Cut(RawOf(text[l]), Within[tool][l]) : l \in quoted}
       \cup {Cut(RawOf(text[l]), Atoms) : l \in whole}

=============================================================================
