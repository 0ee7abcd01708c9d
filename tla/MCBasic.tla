------------------------------- MODULE MCBasic -------------------------------
(***************************************************************************)
(* Three questions about the interpreter, in one run: how an expression is *)
(* evaluated, how execution moves from statement to statement, and which   *)
(* lists are freed.  A behaviour takes one and leaves the others in one    *)
(* initial state.                                                          *)
(***************************************************************************)
EXTENDS BasicExpr, BasicFlow, MCBasicGc

VARIABLE question

-----------------------------------------------------------------------------
(* Expressions.                                                            *)

\* The tokens the parser can produce: a minus after an operand is binary.
Lexed(e) == \A i \in 1..(Len(e) - 1) : e[i + 1] = "neg" => e[i] \notin {"1", "x", "arr", ")"}
Over_(kinds, n) == {e \in UNION {[1..k -> kinds] : k \in 1..n} : Lexed(e)}
Short == Over_({"1", "x", "neg", "+", "*", "<", "(", ")", "f", "arr"}, 5)
Chains == {e \in [1..7 -> {"1", "+", "*", "MOD", "^", "<", "AND", "IS"}] :
             \A i \in 1..7 : (i % 2 = 1) <=> e[i] = "1"}
MCExpressions == Short \cup Chains

\* For the run with zero divisors.
Divided == Over_({"1", "/", "+"}, 5)

-----------------------------------------------------------------------------
(* Programs.                                                               *)

O(n) == <<"out", n>>
OneIf(t) == <<"one", <<t>>, <<>>>>
OneIfElse(t, e) == <<"one", <<t>>, <<e>>>>

Each(f(_), s) == FlattenSeq([k \in DOMAIN s |-> f(s[k])])

\* A body put into each construct.
Loops(v, b) ==
    <<<<"for", v, 1, 2, 1, b, TRUE>>, <<"for", v, 2, 1, -1, b, FALSE>>,
      <<"while", b>>, <<"do", b>>>>
Blocks(b) ==
    <<<<"if", <<b>>, <<>>>>, <<"if", <<<<O(7)>>, b>>, <<O(8)>>>>, <<"if", <<<<O(7)>>>>, b>>>>
Within(v, b) == Loops(v, b) \o Blocks(b)

Around(s) == <<O(4), s, O(5)>>
Bodies == <<<<O(1)>>, <<OneIfElse(O(1), O(2)), O(3)>>, <<<<"line", <<O(1), O(2)>>>>>>>>
NestedLoops == Each(LAMBDA s : Within("i", Around(s)), Each(LAMBDA b : Within("j", b), Bodies))

\* A loop left, or continued, from an IF or a nested loop.  NEXT as a statement is for
\* FOR, on a line it does not begin: _skip_struct takes one that does for the end of
\* the loop.
OnLine(s) == <<OneIf(s), OneIfElse(O(1), s), <<"line", <<O(1), s>>>>>>
InBlock(s) == <<<<"if", <<<<O(1), s>>>>, <<O(2)>>>>, <<"if", <<<<O(1)>>>>, <<s>>>>>>
Jumps(s) == IF s[1] = "next" THEN OnLine(s) ELSE OnLine(s) \o InBlock(s)
Counting(v, b) == <<<<"for", v, 1, 2, 1, b, TRUE>>, <<"for", v, 2, 1, -1, b, FALSE>>>>
LoopsOf(s, v, b) == IF s[1] = "next" THEN Counting(v, b) ELSE Loops(v, b)
Leaving(s, v) == Each(LAMBDA t : LoopsOf(s, v, Around(t)), Jumps(s))
Left == Each(LAMBDA s : Leaving(s, "i"), <<<<"exit">>, <<"next", "">>, <<"next", "i">>>>)
LeftInner ==
    Each(LAMBDA s : Each(LAMBDA t : Loops("i", Around(t)), Leaving(s, "j")),
         <<<<"exit">>, <<"next", "">>>>)
NamedNext ==
    Each(LAMBDA t : Counting("i", Around(t)),
         Each(LAMBDA t : Counting("j", Around(t)), <<OneIf(<<"next", "i">>), OneIfElse(O(1), <<"next", "i">>)>>))

\* What a routine, or a subroutine, may do.
Straight == <<<<O(1)>>, <<O(1), OneIf(<<"return">>), O(2)>>>>
Returning == Jumps(<<"return">>)
Deep == LET inner == Each(LAMBDA s : Within("j", Around(s)), Returning)
        IN [k \in DOMAIN inner |-> <<O(1), inner[k], O(2)>>]
Flat == [k \in DOMAIN Returning |-> <<O(1), Returning[k], O(2)>>]
        \o LET inner == Each(LAMBDA s : Blocks(Around(s)), Returning)
           IN [k \in DOMAIN inner |-> <<O(1), inner[k], O(2)>>]
Call_ == <<"call", "f">>
Recursive == <<<<O(1), OneIf(Call_), O(2)>>, <<O(1), OneIf(Call_)>>,
               <<O(1), <<"if", <<<<O(2), Call_>>>>, <<O(3)>>>>>>,
               <<O(1), <<"while", <<Call_>>>>>>, <<O(1), OneIf(<<"return">>), Call_>>>>

Program(style, body, s) ==
    [style |-> style, subs |-> <<<<"f", body>>>>, main |-> <<O(0), s, O(9)>>]
ProgramsOf(style, bodies, sites) ==
    Each(LAMBDA body : [k \in DOMAIN sites |-> Program(style, body, sites[k])], bodies)

OnALine(s) == <<s, OneIf(s), <<"line", <<O(3), s, O(6)>>>>>>
Calls(s) == OnALine(s) \o <<OneIfElse(s, O(6)), OneIfElse(O(6), s)>> \o Within("i", Around(s))
WhileOrDo(b) == <<<<"while", b>>, <<"do", b>>>>

LabelLoop(b) == <<"again", "l", b>>
Agains == Each(LAMBDA b : <<LabelLoop(b)>> \o Within("i", Around(LabelLoop(b))),
               <<<<O(1)>>, <<O(1), OneIf(O(2)), O(3)>>>>) 
          \o Each(LAMBDA b : [k \in DOMAIN Within("i", b) |-> LabelLoop(<<Within("i", b)[k]>>)], <<<<O(1)>>>>)
Gosub == <<"gosub", "f">>

Plain(s) == [style |-> "def", subs |-> <<>>, main |-> <<O(0), s, O(9)>>]
MCPrograms ==
    LET plain == NestedLoops \o Left \o LeftInner \o NamedNext \o Agains
    IN [k \in DOMAIN plain |-> Plain(plain[k])]
       \o ProgramsOf("def", Straight \o Deep, Calls(Call_))
       \o ProgramsOf("def", Recursive, Calls(Call_))
       \o ProgramsOf("gosub", Straight \o Deep, OnALine(Gosub))
       \o ProgramsOf("gosub", Straight \o Flat, WhileOrDo(Around(Gosub)))

Single == <<Plain(O(1))>>

-----------------------------------------------------------------------------
MCInit ==
    /\ GcInit
    /\ \/ question = "expressions" /\ which = 1 /\ Init /\ ExprInit
       \/ question = "flow" /\ tokens = <<"1">> /\ Init /\ ExprInit
       \/ question = "lists" /\ which = 1 /\ tokens = <<"1">> /\ Init /\ ExprInit

MCNext ==
    \/ question = "expressions" /\ ExprNext /\ UNCHANGED <<question, vars, gcVars>>
    \/ question = "flow" /\ Next /\ UNCHANGED <<question, exprVars, gcVars>>
    \/ question = "lists" /\ GcNext /\ UNCHANGED <<question, vars, exprVars>>

MCSpec == MCInit /\ [][MCNext]_<<question, vars, exprVars, gcVars>>
=============================================================================
