----------------------------- MODULE BasicExpr -----------------------------
(***************************************************************************)
(* How MY-BASIC evaluates an expression (_calc_expression, my_basic.c):    *)
(* the two stacks, the brackets, the handlers of unary operators,          *)
(* functions and subscripts, which evaluate their operand with a nested    *)
(* call, and the depth that makes that call stop after one operand.        *)
(* Values are the trees of what was computed; a token is its kind: "1" a   *)
(* number, "x" a variable, "arr" a one-dimensional array, "f" a function   *)
(* of one argument, "neg" and "not", brackets, the binary operators.  The  *)
(* end of the statement follows the tokens, and nothing follows that.      *)
(* Each expression is evaluated twice, as in a loop.                       *)
(***************************************************************************)
EXTENDS Integers, Sequences, FiniteSets, SequencesExt

CONSTANTS Expressions,  \* sequences of tokens
          Divisions     \* may a division find a zero divisor

Infinity == -1
Unary == {"neg", "not"}
Comparisons == {"=", ">", "<", ">=", "<=", "<>"}
Binary == {"+", "-", "*", "/", "MOD", "^", "AND", "OR", "IS"} \cup Comparisons
IsOperator(c) == c \in Binary \cup {"(", ")", "#"}

\* The priority table, by groups of rows and columns that agree; "#" is the
\* dummy assignment that frames an expression.
Group(c) == CASE c \in {"+", "-"} -> "sum" [] c \in {"*", "/"} -> "product"
              [] c \in Comparisons -> "comparison" [] c \in {"AND", "OR", "IS"} -> "logic"
              [] OTHER -> c

\* A plausible bug: operators of one rank group from the right.
LooserFromTheRight(c) ==
    CASE Group(c) = "^" -> {"product", "MOD", "sum", "comparison", "logic"}
      [] Group(c) = "product" -> {"MOD", "sum", "comparison", "logic"}
      [] Group(c) = "MOD" -> {"sum", "comparison", "logic"}
      [] Group(c) = "sum" -> {"comparison", "logic"}
      [] OTHER -> {}

Looser(c) == CASE Group(c) = "^" -> {"^", "product", "MOD", "sum", "comparison", "logic"}
               [] Group(c) = "product" -> {"product", "MOD", "sum", "comparison", "logic"}
               [] Group(c) = "MOD" -> {"MOD", "sum", "comparison", "logic"}
               [] Group(c) = "sum" -> {"sum", "comparison", "logic"}
               [] OTHER -> {"logic"}
Priority(top, c) ==
    CASE top = "(" -> IF c = ")" THEN "match" ELSE IF c = "#" THEN "none" ELSE "push"
      [] top = ")" -> IF c = "(" THEN "none" ELSE "reduce"
      [] top = "#" -> IF c = ")" THEN "none" ELSE IF c = "#" THEN "match" ELSE "push"
      [] c = "(" -> "push"
      [] c \in {")", "#"} -> "reduce"
      [] Group(top) = "comparison" /\ Group(c) = "comparison" -> "none"
      [] OTHER -> IF Group(c) \in Looser(top) THEN "reduce" ELSE "push"

VARIABLES
    tokens,  \* the expression
    stack,   \* the calls of _calc_expression, the innermost last
    ret,     \* what a call has returned and its caller has not yet taken
    depth,   \* running->calc_depth: operands left, or Infinity
    error,   \* s->last_error
    warned,  \* an operator has raised a warning
    const,   \* the tokens marked is_const
    first    \* what the first evaluation returned
exprVars == <<tokens, stack, ret, depth, error, warned, const, first>>

Eos == Len(tokens) + 1
NoToken == Len(tokens) + 2
Tok(p) == IF p <= Len(tokens) THEN tokens[p] ELSE "eos"
None == [code |-> "none"]
Calc(kind, p) ==
    [kind |-> kind, start |-> p, at |-> p + 1, c |-> Tok(p), optr |-> <<"#">>, opnd |-> <<>>,
     f |-> 0, br |-> 0, hack |-> FALSE, errn |-> FALSE, saved |-> depth, res |-> "ok"]
Inner == stack[Len(stack)]
Become(fr) == stack' = Append(Front(stack), fr)

Yield(fr, code, val) ==
    /\ ret' = [code |-> code, val |-> val, at |-> fr.at, kind |-> fr.kind, saved |-> fr.saved]
    /\ stack' = Front(stack)
\* _handle_error_on_obj: only the first error of a program changes the result.
Fail(fr, e) ==
    /\ error' = IF error = "none" THEN e ELSE error
    /\ Yield(fr, IF error = "none" THEN "error" ELSE fr.res, <<"nil">>)

Finished(fr) == fr.c = "#" /\ Last(fr.optr) = "#"
Ready == stack # <<>> /\ ret = None /\ Inner.start \notin const
Looping == Ready /\ ~Finished(Inner)
Brackets(fr) == IF fr.hack THEN fr.br
                ELSE CASE fr.c = "(" -> fr.br + 1 [] fr.c = ")" -> fr.br - 1 [] OTHER -> fr.br
Counted(fr) == [fr EXCEPT !.br = Brackets(fr), !.hack = FALSE]
NextToken(fr) == [fr EXCEPT !.c = Tok(fr.at), !.at = @ + 1]

\* The bracket that ends a subscript or an argument is left to the caller.
Unmatched ==
    /\ Looping /\ Inner.c = ")" /\ Brackets(Inner) < 0
    /\ Become([Inner EXCEPT !.c = "#", !.at = @ - 1, !.br = -1])
    /\ UNCHANGED <<tokens, ret, depth, error, warned, const, first>>

\* The end of the statement; the closing brackets it misses are put on the
\* stack of operators.
Terminal ==
    /\ Looping /\ Inner.c = "eos"
    /\ LET missing == Inner.br IN
       Become([Inner EXCEPT !.c = "#", !.at = IF @ = NoToken THEN @ ELSE @ - 1, !.hack = FALSE, !.br = 0,
                          !.optr = @ \o [i \in 1..missing |-> ")"],
                          !.f = IF missing > 0 THEN 0 ELSE @, !.errn = missing > 0])
    /\ UNCHANGED <<tokens, ret, depth, error, warned, const, first>>

\* What follows an operand: the depth is spent, and the next token taken.
Spend(d) == IF d = Infinity THEN d ELSE d - 1
AfterOperand(fr, v, d) ==
    LET g == [Counted(fr) EXCEPT !.opnd = Append(@, v), !.f = @ + 1]
        more == g.at # NoToken /\ Spend(d) # 0
    IN  /\ depth' = Spend(d)
        /\ IF more /\ Tok(g.at) \in Unary \cup {"f"}
             THEN Fail(g, "COLON_EXPECTED")
             ELSE /\ Become(IF more THEN NextToken(g) ELSE [g EXCEPT !.c = "#"])
                  /\ ret' = None /\ UNCHANGED error
Refuse(fr, e) == Fail(fr, e) /\ UNCHANGED depth

\* A plausible bug: an operand where an operator is due.
OperandUnchecked ==
    /\ Looping
    /\ (Inner.c \in {"1", "x"}) \/ (Inner.c = "arr" /\ Tok(Inner.at) # "(")
    /\ IF Inner.c = "x" /\ Tok(Inner.at) = "(" THEN Refuse(Inner, "INVALID_ID_USAGE")
       ELSE AfterOperand(Inner, <<Inner.c, Inner.at - 1>>, depth)
    /\ UNCHANGED <<tokens, warned, const, first>>

Operand ==
    /\ Looping
    /\ (Inner.c \in {"1", "x"}) \/ (Inner.c = "arr" /\ Tok(Inner.at) # "(")
    /\ IF Inner.c = "x" /\ Tok(Inner.at) = "(" THEN Refuse(Inner, "INVALID_ID_USAGE")
       ELSE IF Inner.c # "arr" /\ Inner.f > 0 THEN Refuse(Inner, "OPERATOR_EXPECTED")
       ELSE AfterOperand(Inner, <<Inner.c, Inner.at - 1>>, depth)
    /\ UNCHANGED <<tokens, warned, const, first>>

\* A unary operator or a function calls its handler, an array computes its
\* index: each evaluates what follows with a call of its own.  A unary
\* operator without brackets allows one operand; in brackets an end of line
\* is skipped, and after the last one there is nothing to evaluate.
Nested(kind, p, d) ==
    /\ depth' = d
    /\ stack' = Append(stack, Calc(kind, p))
    /\ UNCHANGED <<ret, error>>
InBrackets(d) ==
    IF Inner.at + 1 >= Eos THEN Yield(Inner, "crash", <<"nil">>) /\ UNCHANGED <<depth, error>>
    ELSE Nested("bracketed", Inner.at + 1, d)
Handler ==
    /\ Looping
    /\ \/ Inner.c \in Unary /\ Tok(Inner.at) = "(" /\ InBrackets(depth)
       \/ Inner.c \in Unary /\ Tok(Inner.at) # "(" /\ Nested("bare", Inner.at, 1)
       \/ Inner.c = "f" /\ Tok(Inner.at) = "(" /\ InBrackets(Infinity)
       \/ Inner.c = "f" /\ Tok(Inner.at) # "(" /\ Refuse(Inner, "OPEN_BRACKET_EXPECTED")
       \/ /\ Inner.c = "arr" /\ Tok(Inner.at) = "("
          /\ IF Tok(Inner.at + 1) # ")" THEN Nested("index", Inner.at + 1, depth)
             ELSE IF Inner.f > 0 THEN Refuse(Inner, "OPERATOR_EXPECTED")
             ELSE AfterOperand([Inner EXCEPT !.at = @ + 2], <<"arr", <<"nil">>>>, depth)
    /\ UNCHANGED <<tokens, warned, const, first>>

\* The caller takes what the nested call returned; an error is passed on.
Resume ==
    /\ stack # <<>> /\ ret # None
    /\ LET fr == [Inner EXCEPT !.at = IF ret.kind = "bare" THEN ret.at ELSE ret.at + 1, !.res = "ok"]
           after == IF ret.kind = "index" THEN depth ELSE ret.saved
       IN  IF ret.code # "ok" THEN Yield([fr EXCEPT !.at = ret.at], ret.code, <<"nil">>) /\ UNCHANGED <<depth, error>>
           ELSE IF ret.kind # "bare" /\ Tok(ret.at) # ")" THEN Refuse(fr, "CLOSE_BRACKET_EXPECTED")
           ELSE IF fr.f > 0 THEN Refuse(fr, "OPERATOR_EXPECTED")
           ELSE IF ret.kind # "index" /\ Tok(fr.at) = "(" THEN Refuse(fr, "SYNTAX_ERROR")
           ELSE AfterOperand(fr, <<fr.c, ret.val>>, after)
    /\ UNCHANGED <<tokens, warned, const, first>>

Operator == Looping /\ IsOperator(Inner.c) /\ ~(Inner.c = ")" /\ Brackets(Inner) < 0)
Ranked(p) == Operator /\ Priority(Last(Inner.optr), Inner.c) = p
Push ==
    /\ Ranked("push")
    /\ Become(NextToken([Counted(Inner) EXCEPT !.optr = Append(@, Inner.c), !.f = 0]))
    /\ UNCHANGED <<tokens, ret, depth, error, warned, const, first>>
Match ==
    /\ Ranked("match")
    /\ Become(NextToken([Counted(Inner) EXCEPT !.optr = Front(@)]))
    /\ UNCHANGED <<tokens, ret, depth, error, warned, const, first>>
Clash ==
    /\ Ranked("none")
    /\ Refuse(Inner, "OPERATION_FAILED")
    /\ UNCHANGED <<tokens, warned, const, first>>

\* _operate_operand; a warning leaves a result and is the call's result only
\* until the next operator.
Reduce ==
    /\ Ranked("reduce")
    /\ LET op == Last(Inner.optr)
           n == Len(Inner.opnd)
           fr == [Counted(Inner) EXCEPT !.optr = Front(@), !.hack = (Inner.c = ")")]
       IN  IF op = ")" \/ n < 2
             THEN Refuse(fr, "OPERATION_FAILED") /\ UNCHANGED warned
             ELSE \E warning \in {FALSE} \cup (IF op = "/" THEN {Divisions} ELSE {}) :
                    /\ Become([fr EXCEPT !.opnd = Append(SubSeq(@, 1, n - 2), <<op, @[n - 1], @[n]>>),
                                         !.res = IF warning /\ error = "none" THEN "warning" ELSE "ok"])
                    /\ error' = IF warning /\ error = "none" THEN "DIVIDE_BY_ZERO" ELSE error
                    /\ warned' = (warned \/ warning)
                    /\ UNCHANGED <<ret, depth>>
    /\ UNCHANGED <<tokens, const, first>>

\* A plausible bug: every expression is taken for a single number.
AloneAlways(fr) == TRUE

\* The end; a number that was the whole expression is marked constant.
Alone(fr) == fr.at # NoToken /\ fr.at - 1 = fr.start
EndCalc ==
    /\ Ready /\ Finished(Inner)
    /\ IF Inner.errn THEN Refuse(Inner, "CLOSE_BRACKET_EXPECTED") /\ UNCHANGED const
       ELSE IF Inner.opnd = <<>> THEN Refuse(Inner, "UNEXPECTED_TYPE") /\ UNCHANGED const
       ELSE /\ Yield(Inner, Inner.res, Last(Inner.opnd))
            /\ const' = IF Alone(Inner) /\ Tok(Inner.start) = "1" THEN const \cup {Inner.start} ELSE const
            /\ UNCHANGED <<depth, error>>
    /\ UNCHANGED <<tokens, warned, first>>
Fast ==
    /\ stack # <<>> /\ ret = None /\ Inner.start \in const
    /\ Yield(Inner, "ok", <<"1", Inner.start>>)
    /\ UNCHANGED <<tokens, depth, error, warned, const, first>>

ExprInit ==
    /\ tokens \in Expressions
    /\ depth = Infinity /\ error = "none" /\ warned = FALSE /\ const = {}
    /\ ret = None /\ first = None
    /\ stack = <<Calc("top", 1)>>
Again ==
    /\ stack = <<>> /\ ret # None /\ first = None /\ ret.code = "ok"
    /\ first' = ret /\ ret' = None
    /\ stack' = <<Calc("top", 1)>>
    /\ UNCHANGED <<tokens, depth, error, warned, const>>
ExprNext == \/ Unmatched \/ Terminal \/ Operand \/ Handler \/ Resume \/ Push \/ Match \/ Clash
            \/ Reduce \/ EndCalc \/ Fast \/ Again
ExprSpec == ExprInit /\ [][ExprNext]_exprVars
-----------------------------------------------------------------------------
(* The grammar: the root is the last of the loosest binary operators outside
   brackets; comparisons do not chain; a unary operator takes one operand. *)
Balanced(i, j) ==
    LET Open(k) == Cardinality({m \in i..k : tokens[m] = "("}) - Cardinality({m \in i..k : tokens[m] = ")"})
    IN  (\A k \in i..j : Open(k) >= 0) /\ Open(j) = 0
Level(op) == CASE op = "^" -> 6 [] op \in {"*", "/"} -> 5 [] op = "MOD" -> 4
               [] op \in {"+", "-"} -> 3 [] op \in Comparisons -> 2 [] OTHER -> 1
RECURSIVE Trees(_, _)
Trees(i, j) ==
    LET splits == {k \in (i + 1)..(j - 1) : tokens[k] \in Binary /\ Balanced(i, k - 1)}
        loosest == {k \in splits : \A m \in splits : Level(tokens[k]) <= Level(tokens[m])}
    IN  IF i > j \/ ~Balanced(i, j) THEN {}
        ELSE IF splits # {}
          THEN LET k == CHOOSE m \in loosest : \A n \in loosest : n <= m
               IN  IF Level(tokens[k]) = 2 /\ Cardinality(loosest) > 1 THEN {}
                   ELSE {<<tokens[k], a, b>> : a \in Trees(i, k - 1), b \in Trees(k + 1, j)}
        ELSE IF i = j THEN IF tokens[i] \in {"1", "x", "arr"} THEN {<<tokens[i], i>>} ELSE {}
        ELSE IF tokens[i] \in Unary THEN {<<tokens[i], v>> : v \in Trees(i + 1, j)}
        ELSE IF tokens[j] # ")" THEN {}
        ELSE IF tokens[i] = "(" THEN Trees(i + 1, j - 1)
        ELSE IF tokens[i] \in {"f", "arr"} /\ tokens[i + 1] = "("
          THEN {<<tokens[i], v>> : v \in Trees(i + 2, j - 1)}
        ELSE {}

(* Where the code leaves the grammar.  The depth of a unary operator reaches
   into the subscript of its operand, and into the brackets of a second unary
   operator; an opening bracket forgets that an operand stands before it, an
   array that it follows one; empty brackets count for nothing. *)
Starved ==
    \E p \in DOMAIN tokens : /\ tokens[p] \in Unary
                             /\ Tok(p + 1) \in Unary \cup {"arr"} /\ Tok(p + 2) = "("
Juxtaposed ==
    \E p \in DOMAIN tokens :
        \/ tokens[p] \in {"1", ")"} /\ Tok(p + 1) = "("
        \/ tokens[p] \in {"1", "x", "arr", ")"} /\ Tok(p + 1) = "arr"
        \/ tokens[p] = "(" /\ Tok(p + 1) = ")"

Over == stack = <<>> /\ ret # None

\* A sentence of the grammar is accepted, and its value is its tree: every
\* operator gets the operands that priority, order and brackets give it.
ValueOfSentence ==
    Over /\ ~Starved /\ Trees(1, Len(tokens)) # {} =>
        ret.code = "ok" /\ {ret.val} = Trees(1, Len(tokens))

\* What is accepted is a sentence, up to where the evaluation stopped: no
\* operand is dropped and none is used twice.
AcceptedIsSentence ==
    Over /\ ret.code = "ok" /\ ~Starved /\ ~Juxtaposed =>
        {ret.val} = Trees(1, IF ret.at = NoToken THEN Len(tokens) ELSE ret.at - 1)

\* An expression in a loop has the same value each time: what the first
\* evaluation marked as constant is the whole of an expression.
Repeatable == Over /\ first # None => ret = first

\* my_basic_config.h: a warning is treated as an error.
WarningIsError == Over /\ warned => ret.code # "ok"
=============================================================================
