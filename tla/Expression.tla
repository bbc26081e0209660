----------------------------- MODULE Expression -----------------------------
(***************************************************************************)
(* The parser of the expressions in a runbook: precedence climbing, by     *)
(* parseExpr and its helpers, against the grammar it stands for.  Every    *)
(* reading of a list of tokens as a tree is made, whatever binds tighter,  *)
(* and of those the ones are kept in which each operator has operands that *)
(* bind at least as tight as it asks.                                      *)
(*                                                                         *)
(* A token is its type: names, numbers and the keys of objects are all     *)
(* alike.  A result is a node and the place after it, or Failed; what is   *)
(* said of an error is left out.                                           *)
(***************************************************************************)
EXTENDS Integers, Sequences, FiniteSetsExt

CONSTANTS
    None,
    Longest,           \* the sets tokens are drawn from, with a bound on their number
    MaxParseDepth

VARIABLES
    alphabet,
    tokens             \* the tokens the lexer has found

exprVars == <<alphabet, tokens>>

Atoms == {"ident", "number"}
Unary == {"-", "+", "!"}
Binary == {"||", "&&", "==", "<", "+", "-", "*", "**"}

TypeOK ==
    /\ alphabet \in DOMAIN Longest
    /\ tokens \in Seq(alphabet) /\ Len(tokens) <= Longest[alphabet]

-----------------------------------------------------------------------------
(* The parser *)

Node(op, sub) == [op |-> op, sub |-> sub]
At(node, pos) == [node |-> node, pos |-> pos]
Failed == At(None, 0)

Peek(w, i) == IF i > Len(w) THEN "EOF" ELSE w[i]

\* Mutation: ** binds as tight as *.
InfixPrecedenceFlat(t) ==
    CASE t = "?" -> 1
      [] t = "||" -> 2
      [] t = "&&" -> 3
      [] t = "==" -> 6
      [] t = "<" -> 7
      [] t \in {"+", "-"} -> 9
      [] t \in {"*", "**"} -> 10
      [] t \in {".", "[", "("} -> 16
      [] OTHER -> -1

InfixPrecedence(t) ==
    CASE t = "?" -> 1
      [] t = "||" -> 2
      [] t = "&&" -> 3
      [] t = "==" -> 6
      [] t = "<" -> 7
      [] t \in {"+", "-"} -> 9
      [] t = "*" -> 10
      [] t = "**" -> 11
      [] t \in {".", "[", "("} -> 16
      [] OTHER -> -1

PrefixPrecedence == 14
IsRightAssoc(t) == t = "**"

Expect(w, r, t) ==
    IF r # Failed /\ Peek(w, r.pos) = t THEN At(r.node, r.pos + 1) ELSE Failed

\* What follows in parseExpr's loop binds to left if it binds tight enough.
RECURSIVE ParseExpr(_, _, _, _), Infix(_, _, _, _), ParseList(_, _, _, _, _)

\* depth is p.depth, before the call.
ParseExpr(w, i, minPrec, depth) ==
    LET t == Peek(w, i)
        Inner(p) == ParseExpr(w, i + 1, p, depth + 1)
        left ==
            CASE t \in Atoms -> At(Node(t, <<>>), i + 1)
              [] t = "(" -> Expect(w, Inner(0), ")")
              [] t = "[" -> ParseList(w, i + 1, <<>>, "]", depth + 1)
              [] t = "{" -> ParseList(w, i + 1, <<>>, "}", depth + 1)
              [] t \in Unary ->
                     LET r == Inner(PrefixPrecedence)
                     IN  IF r = Failed THEN Failed ELSE At(Node(t, <<r.node>>), r.pos)
              [] OTHER -> Failed
    IN  IF depth >= MaxParseDepth THEN Failed ELSE Infix(w, left, minPrec, depth + 1)

Infix(w, left, minPrec, depth) ==
    LET t == Peek(w, left.pos)
        Right(i, p) == ParseExpr(w, i, p, depth)
        Made(op, before, r) ==
            IF r = Failed THEN Failed
            ELSE Infix(w, At(Node(op, before \o <<r.node>>), r.pos), minPrec, depth)
    IN  IF left = Failed THEN Failed
        ELSE
        CASE InfixPrecedence(t) < minPrec -> left
          [] t = "?" ->
                 LET consequent == Expect(w, Right(left.pos + 1, 0), ":")
                 IN  IF consequent = Failed THEN Failed
                     ELSE Made("?", <<left.node, consequent.node>>,
                               Right(consequent.pos, 0))
          [] t = "(" ->
                 LET args == ParseList(w, left.pos + 1, <<>>, ")", depth)
                 IN  IF args = Failed THEN Failed
                     ELSE Infix(w, At(Node("call", <<left.node>> \o args.node.sub), args.pos),
                                minPrec, depth)
          [] t = "." ->
                 IF Peek(w, left.pos + 1) # "ident" THEN Failed
                 ELSE Infix(w, At(Node(".", <<left.node>>), left.pos + 2), minPrec, depth)
          [] t = "[" ->
                 Made("index", <<left.node>>,
                      Expect(w, Right(left.pos + 1, 0), "]"))
          [] OTHER ->
                 Made(t, <<left.node>>,
                      Right(left.pos + 1,
                            InfixPrecedence(t) + (IF IsRightAssoc(t) THEN 0 ELSE 1)))

\* The arguments of a call, the elements of an array, and the values of an
\* object, each after its key: from i, with the elements so far.
ParseList(w, i, sub, close, depth) ==
    LET keyed == close = "}"
        kind == IF close = "]" THEN "array" ELSE IF keyed THEN "object" ELSE "args"
        r == IF ~ keyed THEN ParseExpr(w, i, 0, depth)
             ELSE IF Peek(w, i) = "ident" /\ Peek(w, i + 1) = ":"
             THEN ParseExpr(w, i + 2, 0, depth)
             ELSE Failed
    IN  IF sub = <<>> /\ Peek(w, i) = close THEN At(Node(kind, <<>>), i + 1)
        ELSE IF r = Failed THEN Failed
        ELSE IF Peek(w, r.pos) = ","
        THEN ParseList(w, r.pos + 1, Append(sub, r.node), close, depth)
        ELSE Expect(w, At(Node(kind, Append(sub, r.node)), r.pos), close)

Parse(w) ==
    LET r == ParseExpr(w, 1, 0, 0)
    IN  IF r # Failed /\ Peek(w, r.pos) = "EOF" THEN r ELSE Failed

-----------------------------------------------------------------------------
(* The grammar *)

Part(w, i, j) == SubSeq(w, i, j)

\* The ways to read w as an expression, "()" marking one in parentheses.
RECURSIVE Readings(_), ListReadings(_, _)

Readings(w) ==
    LET n == Len(w)
        Between(i, t) == IF n > i /\ w[n] = t THEN Readings(Part(w, i + 1, n - 1)) ELSE {}
        Prefix == IF n > 1 /\ w[1] \in Unary
                  THEN {Node(w[1], <<x>>) : x \in Readings(Tail(w))} ELSE {}
        Infixes == UNION {{Node(w[i], <<x, y>>) : x \in Readings(Part(w, 1, i - 1)),
                                                  y \in Readings(Part(w, i + 1, n))} :
                          i \in {k \in 2 .. n - 1 : w[k] \in Binary}}
        Ternaries == UNION {{Node("?", <<x, y, z>>) : x \in Readings(Part(w, 1, ij[1] - 1)),
                                                     y \in Readings(Part(w, ij[1] + 1, ij[2] - 1)),
                                                     z \in Readings(Part(w, ij[2] + 1, n))} :
                            ij \in {kl \in (2 .. n) \X (2 .. n) :
                                        kl[1] < kl[2] /\ w[kl[1]] = "?" /\ w[kl[2]] = ":"}}
        Indexed == UNION {{Node("index", <<x, y>>) : x \in Readings(Part(w, 1, i - 1)),
                                                     y \in Between(i, "]")} :
                          i \in {k \in 2 .. n : w[k] = "["}}
        Calls == UNION {{Node("call", <<x>> \o l) : x \in Readings(Part(w, 1, i - 1)),
                                                    l \in ListReadings(Part(w, i + 1, n - 1), FALSE)} :
                        i \in {k \in 2 .. n - 1 : w[k] = "(" /\ w[n] = ")"}}
        Lists == {Node(IF w[1] = "[" THEN "array" ELSE "object", l) :
                      l \in ListReadings(Part(w, 2, n - 1), w[1] = "{")}
    IN  IF n = 0 THEN {}
        ELSE (IF n = 1 /\ w[1] \in Atoms THEN {Node(w[1], <<>>)} ELSE {})
             \cup Prefix \cup Infixes \cup Ternaries \cup Indexed \cup Calls
             \cup (IF w[1] = "(" THEN {Node("()", <<x>>) : x \in Between(1, ")")} ELSE {})
             \cup (IF n > 1 /\ <<w[1], w[n]>> \in {<<"[", "]">>, <<"{", "}">>}
                   THEN Lists ELSE {})
             \cup (IF n > 2 /\ w[n - 1] = "." /\ w[n] = "ident"
                   THEN {Node(".", <<x>>) : x \in Readings(Part(w, 1, n - 2))} ELSE {})

\* The ways to read w as elements with commas between them, each with a key
\* before it if keyed.
Elements(w, keyed) ==
    IF ~ keyed THEN Readings(w)
    ELSE IF Len(w) > 2 /\ w[1] = "ident" /\ w[2] = ":" THEN Readings(Part(w, 3, Len(w))) ELSE {}

ListReadings(w, keyed) ==
    LET More(ws) == UNION {{<<x>> \o l : x \in Elements(Part(ws, 1, i - 1), keyed),
                                         l \in ListReadings(Part(ws, i + 1, Len(ws)), keyed)
                                               \ {<<>>}} :
                           i \in {k \in DOMAIN ws : ws[k] = ","}}
    IN  IF w = <<>> THEN {<<>>} ELSE {<<x>> : x \in Elements(w, keyed)} \cup More(w)

\* The operators, those that bind loosest first.
Looseness == <<{"?"}, {"||"}, {"&&"}, {"=="}, {"<"}, {"+", "-"}, {"*"}, {"**"}>>
Tight == Len(Looseness) + 1       \* a prefix; what is tighter is Tight + 1

Binds(node) ==
    IF Len(node.sub) = 1 /\ node.op \in Unary THEN Tight
    ELSE IF \E k \in DOMAIN Looseness : node.op \in Looseness[k]
    THEN CHOOSE k \in DOMAIN Looseness : node.op \in Looseness[k]
    ELSE Tight + 1

\* Operators of one level group from the left, ** from the right, and the
\* branches of ?: may be anything.
RECURSIVE Respects(_)
Respects(node) ==
    LET x(i) == Binds(node.sub[i])
    IN  /\ \A i \in DOMAIN node.sub : Respects(node.sub[i])
        /\ Len(node.sub) = 1 /\ node.op \in Unary => x(1) >= Tight
        /\ Len(node.sub) = 2 /\ node.op \in Binary =>
               IF node.op = "**" THEN x(1) > Binds(node) /\ x(2) >= Binds(node)
               ELSE x(1) >= Binds(node) /\ x(2) > Binds(node)
        /\ node.op = "?" => x(1) > Binds(node)
        /\ node.op \in {"call", "index", "."} => x(1) > Tight

\* How deep the brackets and right operands of a reading are in one another.
RECURSIVE Nesting(_)
Nesting(node) ==
    LET Held(i) == \/ i > 1 \/ node.op \in {"()", "array", "object"}
                   \/ (node.op \in Unary /\ Len(node.sub) = 1)
    IN  Max({0} \cup {Nesting(node.sub[i]) + (IF Held(i) THEN 1 ELSE 0) : i \in DOMAIN node.sub})

RECURSIVE Bare(_)
Bare(node) ==
    IF node.op = "()" THEN Bare(node.sub[1])
    ELSE Node(node.op, [i \in DOMAIN node.sub |-> Bare(node.sub[i])])

-----------------------------------------------------------------------------

Init == alphabet \in DOMAIN Longest /\ tokens = <<>>

\* An expression goes on while operands and operators take turns; any other
\* token ends it.
Ends == Atoms \cup {")", "]", "}"}
Begins == Atoms \cup Unary \cup {"(", "[", "{"}

TakesTurns(w) ==
    \A i \in 1 .. Len(w) - 1 :
        IF w[i] \in Ends THEN w[i + 1] \notin Atoms \cup {"!", "{"}
        ELSE w[i + 1] \in Begins \cup {")", "]", "}"}

Tokenize(t) ==
    /\ Len(tokens) < Longest[alphabet] /\ TakesTurns(tokens)
    /\ tokens' = Append(tokens, t)
    /\ UNCHANGED alphabet

Next == \E t \in alphabet : Tokenize(t)

Spec == Init /\ [][Next]_exprVars

-----------------------------------------------------------------------------

\* The parser accepts what the grammar reads in one way, up to a depth, and
\* gives that reading: no expression is read in two, none is refused, and what
\* is not one is.
ParsesTheGrammar ==
    LET fit == {x \in Readings(tokens) : Respects(x) /\ Nesting(x) < MaxParseDepth}
        r == Parse(tokens)
    IN  {Bare(x) : x \in fit} = IF r = Failed THEN {} ELSE {r.node}
=============================================================================
