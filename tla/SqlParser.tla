----------------------------- MODULE SqlParser ------------------------------
(***************************************************************************)
(* The recursive descent over expressions (class Parser in                 *)
(* src/src/api/db.cpp).  A token is [kind, text]; the state of the parser  *)
(* is the position `at`, the flag `closed` (closed_paren_) and `ok`, which *)
(* stands for the status; `tree` is what the last call returned.  A tree   *)
(* is [op, text] for a leaf and [op, args] otherwise.                      *)
(***************************************************************************)
EXTENDS Integers, Sequences

CONSTANT MaxArgs   \* bound on the arguments of a call or an IN list

Token(kind, text) == [kind |-> kind, text |-> text]
Leaf(op, text)    == [op |-> op, text |-> text]
Tree(op, args)    == [op |-> op, args |-> args]

NoTree == Leaf("none", "")
Start  == [at |-> 1, closed |-> FALSE, ok |-> TRUE, tree |-> NoTree]

Peek(toks, st) == toks[st.at]

Text(toks, st) == Peek(toks, st).text

\* Accept moves over a token by its text, whatever its kind, and lets a `)`
\* be accepted once more after Expect has moved over it.
Accepts(toks, st, text) ==
  Text(toks, st) = text \/ (text = ")" /\ st.closed)

Accept(toks, st, text) ==
  IF text = ")" /\ st.closed /\ Text(toks, st) # ")" THEN [st EXCEPT !.closed = FALSE]
  ELSE [st EXCEPT !.closed = text = ")" /\ @,
                  !.at = IF Text(toks, st) = text THEN @ + 1 ELSE @]

Failed(st) == [st EXCEPT !.ok = FALSE, !.tree = NoTree]

Expect(toks, st, text) ==
  IF ~Accepts(toks, st, text) THEN Failed(Accept(toks, st, text))
  ELSE [Accept(toks, st, text) EXCEPT !.closed = @ \/ text = ")"]

Step(st)           == [st EXCEPT !.at = @ + 1]
Returning(st, t)   == [st EXCEPT !.tree = t]
Closes(toks, st)   == Accepts(toks, st, ")")

\* The tree of a binary operator, once its right operand has been read.
Combined(op, left, right) == Returning(right, Tree(op, <<left.tree, right.tree>>))

\* The tree t, unless the Expect that ended in st has failed.
IfExpected(st, t) == IF st.ok THEN Returning(st, t) ELSE st

RECURSIVE ParseOr(_, _)
RECURSIVE Operators(_, _, _)
RECURSIVE ParseUnary(_, _)
RECURSIVE InList(_, _, _)
RECURSIVE Arguments(_, _, _)

\* The operands and the operators of one level of precedence.
Operand(level, toks, st) ==
  IF level = "mul" THEN ParseUnary(toks, st)
  ELSE Operators("mul", toks, ParseUnary(toks, st))

Symbols(level) == IF level = "mul" THEN {"*", "/", "%"} ELSE {"+", "-"}

\* The loops of ParseAdd and ParseMul, from the left operand on.
Operators(level, toks, left) ==
  IF Text(toks, left) \notin Symbols(level) THEN left
  ELSE Operators(level, toks,
                 Combined(Text(toks, left), left, Operand(level, toks, Step(left))))

\* Mutant: a - b - c is read from the right.
FromRight(toks, left) ==
  IF Text(toks, left) \notin Symbols("add") THEN left
  ELSE Combined(Text(toks, left), left,
                Operators("add", toks, Operand("add", toks, Step(left))))

ParseAddFromRight(toks, st) == FromRight(toks, Operand("add", toks, st))

ParseAdd(toks, st) == Operators("add", toks, Operand("add", toks, st))

LikeRest(toks, left) ==
  IF left.tree = NoTree THEN left
  ELSE IF Text(toks, left) # "like" THEN Accept(toks, left, "like")
  ELSE Combined("like", left, ParseAdd(toks, Accept(toks, left, "like")))

ParseLike(toks, st) == LikeRest(toks, ParseAdd(toks, st))

\* The candidates of IN, up to the `)`: after one of them comes a comma or
\* the end, which Expect leaves to be accepted once more.
InNext(toks, st, args) ==
  IF ~st.ok \/ Len(args) > MaxArgs THEN Failed(st) ELSE InList(toks, st, args)

InRest(toks, arg, args) ==
  InNext(toks, IF Text(toks, arg) = "," THEN Accept(toks, arg, ",")
               ELSE Expect(toks, Accept(toks, arg, ","), ")"), Append(args, arg.tree))

InList(toks, st, args) ==
  IF Closes(toks, st) THEN Returning(Accept(toks, st, ")"), Tree("in", args))
  ELSE InRest(toks, ParseOr(toks, st), args)

InOpened(toks, st) == IF st.ok THEN InList(toks, st, <<st.tree>>) ELSE st

CompareRest(toks, left) ==
  IF left.tree = NoTree THEN left
  ELSE IF Text(toks, left) = "is"
       THEN IfExpected(Expect(toks, Accept(toks, Step(left), "not"), "null"),
                       Tree(IF Text(toks, Step(left)) = "not" THEN "is not null"
                            ELSE "is null", <<left.tree>>))
  ELSE IF Text(toks, left) = "in" THEN InOpened(toks, Expect(toks, Step(left), "("))
  ELSE IF Peek(toks, left).kind = "operator"
       THEN Combined(Text(toks, left), left, ParseAdd(toks, Step(left)))
  ELSE left

ParseCompare(toks, st) == CompareRest(toks, ParseLike(toks, st))

\* The loops of ParseAnd and ParseOr.
RECURSIVE Conjuncts(_, _)
Conjuncts(toks, left) ==
  IF left.tree = NoTree THEN left
  ELSE IF Text(toks, left) # "and" THEN Accept(toks, left, "and")
  ELSE Conjuncts(toks, Combined("and", left,
                                ParseCompare(toks, Accept(toks, left, "and"))))

ParseAnd(toks, st) == Conjuncts(toks, ParseCompare(toks, st))

RECURSIVE Disjuncts(_, _)
Disjuncts(toks, left) ==
  IF left.tree = NoTree THEN left
  ELSE IF Text(toks, left) # "or" THEN Accept(toks, left, "or")
  ELSE Disjuncts(toks, Combined("or", left, ParseAnd(toks, Accept(toks, left, "or"))))

ParseOr(toks, st) == Disjuncts(toks, ParseAnd(toks, st))

\* The arguments of a call, after the first `(` or `,`.
ArgumentNext(toks, st, args) ==
  IF ~st.ok \/ Len(args) > MaxArgs THEN Failed(st) ELSE Arguments(toks, st, args)

ArgumentRest(toks, arg, args) ==
  IF Closes(toks, arg) THEN Returning(Accept(toks, arg, ")"), Tree("call", args))
  ELSE ArgumentNext(toks, Expect(toks, Accept(toks, arg, ")"), ","), args)

ArgumentRead(toks, arg, args) == ArgumentRest(toks, arg, Append(args, arg.tree))

Arguments(toks, st, args) ==
  ArgumentRead(toks, IF Text(toks, st) = "*"
                     THEN Returning(Accept(toks, st, "*"), Leaf("col", "*"))
                     ELSE ParseOr(toks, Accept(toks, st, "*")), args)

\* A word is a column, qualified perhaps, or the name of a function: st is the
\* state behind the name, with the column as its tree.
CallRest(toks, st) ==
  IF Text(toks, st) # "(" THEN st
  ELSE IF Text(toks, Step(st)) = ")" THEN Returning(Step(Step(st)), Tree("call", <<>>))
  ELSE Arguments(toks, Step(st), <<>>)

\* Identifier: without a word it leaves an error, and the position.
Identifier(toks, st) ==
  IF Peek(toks, st).kind # "word" THEN Failed(st)
  ELSE Returning(Step(st), Leaf("col", Text(toks, st)))

\* The `.` and the word after it.
QualifiedRest(toks, st) ==
  IF Text(toks, st) # "." THEN st
  ELSE Combined("qualified", st, Identifier(toks, Step(st)))

\* The end of a parenthesis.
Closed(st) == IF st.ok THEN st ELSE Failed(st)

ParsePrimary(toks, st) ==
  IF Text(toks, st) = "("
  THEN Closed(Expect(toks, ParseOr(toks, Accept(toks, st, "(")), ")"))
  ELSE CASE \/ Peek(toks, st).kind \in {"number", "string"}
            \/ Peek(toks, st).kind = "word" /\ Text(toks, st) \in {"null", "true", "false"} ->
              Returning(Step(st), Leaf("lit", Text(toks, st)))
         [] Peek(toks, st).kind = "parameter" -> Returning(Step(st), Leaf("param", "?"))
         [] Peek(toks, st).kind = "word" /\ Text(toks, st) \notin {"null", "true", "false"} ->
              CallRest(toks, QualifiedRest(toks, Identifier(toks, st)))
         [] OTHER -> Failed(st)

\* NOT is read here, as a sign is: it binds tighter than any other operator.
Signed(op, inner) == Returning(inner, Tree(op, <<inner.tree>>))

ParseUnary(toks, st) ==
  IF Text(toks, st) \in {"not", "-", "+"}
  THEN Signed(Text(toks, st), ParseUnary(toks, Accept(toks, st, Text(toks, st))))
  ELSE ParsePrimary(toks, [st EXCEPT !.closed = FALSE])

Expression(toks) == ParseOr(toks \o <<Token("end", "")>>, Start)

-----------------------------------------------------------------------------
\* How tight a tree binds, from OR to a leaf.  NOT is where ARCHITECTURE.md:490
\* has it, looser than a comparison; in the code it binds as a sign does.
Tightness(t) ==
  CASE t.op = "or"  -> 1
    [] t.op = "and" -> 2
    [] t.op = "not" -> 3
    [] t.op \in {"=", "<", "is null", "is not null", "in"} -> 4
    [] t.op = "like" -> 5
    [] t.op \in {"+", "-"} /\ Len(t.args) = 2 -> 6
    [] t.op \in {"*", "/", "%"} -> 7
    [] t.op \in {"+", "-"} -> 8
    [] OTHER -> 9

Paren(toks) == <<Token("punctuation", "(")>> \o toks \o <<Token("punctuation", ")")>>

RECURSIVE Written(_, _)
RECURSIVE WrittenAll(_)

\* The arguments, separated by commas.
WrittenAll(args) ==
  IF args = <<>> THEN <<>>
  ELSE Written(Head(args), 1)
         \o (IF Tail(args) = <<>> THEN <<>> ELSE <<Token("punctuation", ",")>>)
         \o WrittenAll(Tail(args))

\* The tokens of a tree, with the parentheses that precedence calls for: for
\* NOT, those that the document calls for and those that the code does.
Written(t, tightness) ==
  LET p    == Tightness(t)
      body ==
        CASE t.op = "lit"  -> <<Token("number", t.text)>>
          [] t.op = "col"  -> <<Token("word", t.text)>>
          [] t.op = "qualified" -> <<Token("word", t.args[1].text), Token("punctuation", "."),
                                     Token("word", t.args[2].text)>>
          [] t.op = "call" -> <<Token("word", "f")>> \o Paren(WrittenAll(t.args))
          [] t.op = "in"   -> Written(t.args[1], 5) \o
                                <<Token("word", "in"), Token("punctuation", "(")>> \o
                                WrittenAll(Tail(t.args)) \o <<Token("in list", ")")>>
          [] t.op = "is null" -> Written(t.args[1], 5) \o
                                   <<Token("word", "is"), Token("word", "null")>>
          [] p \in {3, 8} -> <<Token("word", t.op)>> \o
                               Written(t.args[1], IF p = 3 /\ t.args[1].op = "not" THEN 3 ELSE 8)
          [] OTHER -> Written(t.args[1], IF p \in {4, 5} THEN p + 1 ELSE p) \o
                        <<Token(IF p \in {1, 2, 5} THEN "word" ELSE "operator", t.op)>> \o
                        Written(t.args[2], IF p = 4 THEN 6 ELSE p + 1)
  IN  IF p < tightness THEN Paren(body) ELSE body

\* An expression is read as precedence and parentheses say: the tree that was
\* printed comes back and every token is used.  Next to NOT there are
\* parentheses wherever the two readings of it differ: `NOT a = b` is
\* NOT (a = b) in ARCHITECTURE.md:490 and (NOT a) = b in the code.  A list of IN
\* that ends directly before another `)` is left out, because the loop over the
\* list takes that `)` for its own and the parentheses around it are found
\* unbalanced.
ParsesBack(t) ==
  LET toks == Written(t, 1)
      read == Expression(toks)
  IN  (\E i \in 1..Len(toks) - 1 : toks[i].kind = "in list" /\ toks[i + 1].text = ")")
      \/ (read.ok /\ read.tree = t /\ read.at = Len(toks) + 1)
=============================================================================
