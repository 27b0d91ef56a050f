---------------------------- MODULE PythonMarker ----------------------------
(***************************************************************************)
(* EvaluateMarker of pypi/requirement.go: the recursive-descent parser for *)
(* environment markers, over the tokens of tokenizeMarker.                 *)
(*                                                                         *)
(* A token is a record [kind, value, text, holds, isVersion, version]: for *)
(* a string literal and for a variable of the target environment text is   *)
(* the place of its value in the order of strings, holds the texts that    *)
(* are substrings of it, and version the version it parses to, if it does. *)
(* A word that is no variable of markerVariableValue has kind "word".      *)
(***************************************************************************)
EXTENDS PythonVersion

EOF == [kind |-> "eof", value |-> ""]

(* p.current(): tokens end with markerEOF, which nobody steps over. *)
currentToken(tokens, index) == IF index <= Len(tokens) THEN tokens[index] ELSE EOF

Failed == [ok |-> FALSE, value |-> FALSE, index |-> 0]

Parsed(value, index) == [ok |-> TRUE, value |-> value, index |-> index]

isOperand(token) == token.kind \in {"variable", "string"}

pythonVariables == {"python_version", "python_full_version", "implementation_version"}

(* Versions of Python are compared as versions, everything else as text. *)
compareOperands(left, right) ==
    IF /\ \E t \in {left, right} : t.kind = "variable" /\ t.value \in pythonVariables
       /\ left.isVersion /\ right.isVersion
    THEN Compare(left.version, right.version)
    ELSE compareInt(left.text, right.text)

compareMarkerValues(left, right, operator) ==
    LET compared == compareOperands(left, right) IN
    CASE operator = "in" -> left.text \in right.holds
      [] operator = "not in" -> left.text \notin right.holds
      [] operator = "==" -> compared = 0
      [] operator = "!=" -> compared # 0
      [] operator = "<" -> compared < 0
      [] operator = "<=" -> compared <= 0
      [] operator = ">" -> compared > 0
      [] operator = ">=" -> compared >= 0
      [] operator = "~=" -> /\ left.isVersion /\ right.isVersion
                            /\ Compare(left.version, right.version) >= 0
                            /\ compatiblePrefix(left.version, right.version)

(* tokenizeMarker takes at most two characters for an operator: "===" is   *)
(* cut into "==" and "=", and "=" is refused.                              *)
markerOperators == {"==", "!=", "<", "<=", ">", ">=", "~="}

(* The operator at index and the index after it. *)
parseOperator(tokens, index) ==
    LET t == currentToken(tokens, index) IN
    CASE t.kind = "operator" ->
            IF t.value \in markerOperators THEN [ok |-> TRUE, value |-> t.value, index |-> index + 1]
            ELSE Failed
      [] t.value = "in" -> [ok |-> TRUE, value |-> "in", index |-> index + 1]
      [] t.value = "not" /\ currentToken(tokens, index + 1).value = "in" ->
            [ok |-> TRUE, value |-> "not in", index |-> index + 2]
      [] OTHER -> Failed

RECURSIVE parseOr(_, _)
RECURSIVE moreOr(_, _)
RECURSIVE moreAnd(_, _)
RECURSIVE moreAnd_Either(_, _)

parseComparison(tokens, index) ==
    LET operator == parseOperator(tokens, index + 1) IN
    IF /\ isOperand(currentToken(tokens, index))
       /\ operator.ok
       /\ isOperand(currentToken(tokens, operator.index))
    THEN Parsed(compareMarkerValues(currentToken(tokens, index), currentToken(tokens, operator.index), operator.value),
                operator.index + 1)
    ELSE Failed

parseTerm(tokens, index) ==
    IF currentToken(tokens, index).kind # "left"
    THEN parseComparison(tokens, index)
    ELSE LET inner == parseOr(tokens, index + 1) IN
         IF inner.ok /\ currentToken(tokens, inner.index).kind = "right"
         THEN Parsed(inner.value, inner.index + 1)
         ELSE Failed

(* Defect: and and or bind alike, from left to right. *)
moreAnd_Either(tokens, left) ==
    IF ~left.ok \/ currentToken(tokens, left.index).value \notin {"and", "or"} THEN left
    ELSE LET right == parseTerm(tokens, left.index + 1)
             both == IF currentToken(tokens, left.index).value = "and"
                     THEN left.value /\ right.value ELSE left.value \/ right.value
         IN  IF right.ok THEN moreAnd_Either(tokens, Parsed(both, right.index)) ELSE Failed

(* The loops of parseAnd and parseOr, from what they have read so far. *)
moreAnd(tokens, left) ==
    IF ~left.ok \/ currentToken(tokens, left.index).value # "and" THEN left
    ELSE LET right == parseTerm(tokens, left.index + 1) IN
         IF right.ok THEN moreAnd(tokens, Parsed(left.value /\ right.value, right.index)) ELSE Failed

parseAnd(tokens, index) == moreAnd(tokens, parseTerm(tokens, index))

moreOr(tokens, left) ==
    IF ~left.ok \/ currentToken(tokens, left.index).value # "or" THEN left
    ELSE LET right == parseAnd(tokens, left.index + 1) IN
         IF right.ok THEN moreOr(tokens, Parsed(left.value \/ right.value, right.index)) ELSE Failed

parseOr(tokens, index) == moreOr(tokens, parseAnd(tokens, index))

EvaluateMarker(tokens) ==
    LET result == parseOr(tokens, 1) IN
    IF result.ok /\ result.index = Len(tokens) + 1 THEN result ELSE Failed

(***************************************************************************)
(* Reference: the grammar of markers.  The values the tokens from lo to hi *)
(* can have as an expression, a conjunction or a term; none if they are    *)
(* not one.                                                                *)
(***************************************************************************)
RECURSIVE OrValues(_, _, _)
RECURSIVE AndValues(_, _, _)

TermValues(tokens, lo, hi) ==
    IF hi > lo + 1 /\ tokens[lo].kind = "left" /\ tokens[hi].kind = "right"
    THEN OrValues(tokens, lo + 1, hi - 1)
    ELSE IF hi >= lo + 2 /\ isOperand(tokens[lo]) /\ isOperand(tokens[hi])
            /\ parseOperator(tokens, lo + 1).index = hi
         THEN {compareMarkerValues(tokens[lo], tokens[hi], parseOperator(tokens, lo + 1).value)}
         ELSE {}

AndValues(tokens, lo, hi) ==
    TermValues(tokens, lo, hi) \cup
    UNION {{a /\ b : a \in AndValues(tokens, lo, k - 1), b \in TermValues(tokens, k + 1, hi)} :
             k \in {k \in lo..hi : tokens[k].value = "and"}}

OrValues(tokens, lo, hi) ==
    AndValues(tokens, lo, hi) \cup
    UNION {{a \/ b : a \in OrValues(tokens, lo, k - 1), b \in AndValues(tokens, k + 1, hi)} :
             k \in {k \in lo..hi : tokens[k].value = "or"}}

=============================================================================
