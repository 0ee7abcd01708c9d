------------------------------ MODULE BasicFlow ------------------------------
(***************************************************************************)
(* The control flow of MY-BASIC (sdk/mybasic/my_basic.c): the list of      *)
(* nodes a program is parsed into, and the functions that walk it.  There  *)
(* is no syntax tree: _execute_statement runs the statement at a node and  *)
(* leaves the node to go on at; IF, FOR, WHILE, DO and routine calls run   *)
(* statements in turn from C frames of their own, step back over the       *)
(* separator that _execute_statement stepped over, and search forward for  *)
(* the end of what they skip.                                              *)
(*                                                                         *)
(* A node is its position in the list, 0 the head of the list and any      *)
(* position behind the last the null pointer.  A condition is one node     *)
(* whose value is chosen freely and noted in decisions.                    *)
(***************************************************************************)
EXTENDS BasicProgram

CONSTANTS
    Programs,   \* a sequence of programs, as trees
    Decisions   \* conditions evaluated at most

VARIABLES
    which,      \* the program
    prog,       \* its nodes, <<kind, argument>>
    ast,        \* the node execution is at
    mode,       \* "exec": run the statement at ast for the frame on top; "back":
                \* it has run, with result res; "test": the frame evaluates its
                \* condition at ast; "ended": mb_run returned
    res,        \* result code of what ran last
    frames,     \* the C frames, the innermost first
    subStack,   \* s->sub_stack
    skipToEoi,  \* s->skip_to_eoi, 0 for none
    lastRoutine,\* s->last_routine
    nextVar,    \* running->next_loop_var
    jumpSet,    \* s->jump_set
    entries,    \* func.basic.entry of the routines defined so far
    value,      \* loop variables
    decisions,  \* history: the conditions evaluated
    trace       \* history: what the program put out

vars == <<which, prog, ast, mode, res, frames, subStack, skipToEoi, lastRoutine,
          nextVar, jumpSet, entries, value, decisions, trace>>

Null(a) == a > Len(prog)
Kind(a) == IF a \in DOMAIN prog THEN prog[a][1] ELSE "none"
Arg(a)  == prog[a][2]
Back(s) == IF s = <<>> THEN 0 ELSE Last(s)     \* _ls_back

\* _is_flow, and the functions that _do_nothing stands for when they are reached.
Reached == {"THEN", "ELSEIF", "ELSE", "ENDIF", "TO", "STEP", "WEND", "UNTIL"}
Flow    == Reached \cup {"IF", "FOR", "NEXT", "WHILE", "DO", "EXIT", "GOTO", "GOSUB",
                         "RETURN", "END"}
Bracket == {"(", ")"}                          \* of the operators
Func    == Flow \cup Bracket \cup {"OUT", "DEF", "ENDDEF"}

-----------------------------------------------------------------------------
(* Searching forward.  Each returns the node it stops at and whether it    *)
(* found what it looked for.                                               *)

\* The first of the nodes found from a on.
First(a, found) ==
    LET hits == (a .. Len(prog)) \cap found
    IN IF hits = {} THEN [ok |-> FALSE, at |-> IF Null(a) THEN a ELSE Len(prog)]
       ELSE [ok |-> TRUE, at |-> Min(hits)]

OfKind(kinds) == {p \in DOMAIN prog : Kind(p) \in kinds}

\* _skip_to
SkipTo(a, kinds) == First(a, OfKind(kinds))

EndOfLine(a) == SkipTo(a, {"EOS"})

\* _skip_single_line_struct skips the line of a, unless func is the last on it.
SingleLine(a, func) == \E eol \in {EndOfLine(a)} : eol.ok /\ Kind(eol.at - 1) # func

\* A plausible bug: every close function counts.
SkipStructAnyClose(a, open, post, close) ==
    LET skip[p \in 0 .. Len(prog) + 1, count \in 0 .. Len(prog)] ==
            IF count = 0 THEN [ok |-> TRUE, at |-> p]
            ELSE IF Null(p) \/ Null(p + 1) THEN [ok |-> FALSE, at |-> p]
            ELSE IF Kind(p + 1) = open /\ post # "" /\ SingleLine(p + 1, post)
                 THEN skip[EndOfLine(p + 1).at, count]
            ELSE IF Kind(p + 1) = open THEN skip[p + 1, count + 1]
            ELSE skip[p + 1, IF Kind(p + 1) = close THEN count - 1 ELSE count]
    IN skip[a, 1]

\* _skip_struct: to the close function that belongs to a, which counts at the
\* beginning of a line only.
SkipStruct(a, open, post, close) ==
    LET skip[p \in 0 .. Len(prog) + 1, count \in 0 .. Len(prog)] ==
            IF count = 0 THEN [ok |-> TRUE, at |-> p]
            ELSE IF Null(p) \/ Null(p + 1) THEN [ok |-> FALSE, at |-> p]
            ELSE IF Kind(p + 1) = open /\ post # "" /\ SingleLine(p + 1, post)
                 THEN skip[EndOfLine(p + 1).at, count]
            ELSE IF Kind(p + 1) = open THEN skip[p + 1, count + 1]
            ELSE skip[p + 1, IF Kind(p + 1) = close /\ Kind(p) = "EOS" THEN count - 1
                             ELSE count]
    IN skip[a, 1]

\* The chunk that begins at p, if it does at this depth, or else what comes after.
ChunkOr(p, nested, after) ==
    IF nested = 0 /\ Kind(p) \in {"ELSEIF", "ELSE", "ENDIF"} THEN [ok |-> TRUE, at |-> p]
    ELSE after

\* _skip_if_chunk: to the ELSEIF, ELSE or ENDIF that belongs to the IF around a.  The
\* mask for inner IFs whose THEN does not end the line is left out: those lines are
\* passed over as a whole.
SkipIfChunk(a) ==
    LET skip[p \in 0 .. Len(prog) + 1, nested \in 0 .. Len(prog)] ==
            IF Null(p) THEN [ok |-> FALSE, at |-> Len(prog)]
            ELSE IF Kind(p + 1) = "IF" /\ SingleLine(p + 1, "THEN")
                 THEN ChunkOr(p, nested, skip[EndOfLine(p + 1).at, nested])
            ELSE IF Kind(p + 1) = "IF" THEN skip[p + 1, nested + 1]
            ELSE IF nested > 0 /\ Kind(p + 1) = "ENDIF"
                 THEN ChunkOr(p, nested - 1, skip[p + 2, nested - 1])
            ELSE ChunkOr(p, nested, skip[p + 1, nested])
    IN skip[a, 0]

-----------------------------------------------------------------------------
(* The end of _execute_statement.                                          *)

Outcome(r, a, sub, skip) == [r |-> r, at |-> a, sub |-> sub, skip |-> skip]

\* Step over what ends the statement.
Stepped(r, a, force, sub, skip) ==
    CASE Null(a) -> Outcome(r, a, sub, skip)
      [] Kind(a) = "EOS" ->
           Outcome(r, IF force \/ r # "return" THEN a + 1 ELSE a, sub, skip)
      [] Kind(a) = "VAR" -> Outcome("error", a, sub, skip)
      [] Kind(a) = "ENDDEF" /\ r # "return" ->
           Outcome(r, IF sub = <<>> THEN Len(prog) + 1 ELSE Last(sub),
                   IF sub = <<>> THEN sub ELSE Front(sub), skip)
      [] Kind(a) \in Func \ (Flow \cup Bracket) -> Outcome(r, a, sub, skip)
      [] OTHER -> Outcome(r, a + 1, sub, skip)

\* After a GOSUB in an IF on one line, the rest of that line is skipped.
Post(r, a, force, sub, skip) ==
    LET o == Stepped(r, a, force, sub, skip)
    IN IF r \notin {"ok", "return"} THEN Outcome(r, a, sub, skip)
       ELSE IF \/ o.r = "error" \/ Kind(a) = ":"
               \/ skip = 0 \/ skip # Back(o.sub) THEN o
       ELSE IF Null(o.at) THEN Outcome("crash", o.at, o.sub, 0)
       ELSE LET eol == EndOfLine(o.at)
            IN Outcome(IF eol.ok THEN o.r ELSE "error", eol.at, o.sub, 0)

\* The statement ran for the frame on top of rest; FOR's body alone does not force
\* the step over the end of line after a return.
Done(r, a, rest, sub, skip) ==
    LET o == Post(r, a, Head(rest).fn # "for", sub, skip)
    IN /\ mode' = "back"
       /\ res' = o.r
       /\ ast' = o.at
       /\ frames' = rest
       /\ subStack' = o.sub
       /\ skipToEoi' = o.skip

Finish(r, a) == Done(r, a, frames, subStack, skipToEoi)

\* A function with a frame returns.
Leave(r, a) == Done(r, a, Tail(frames), subStack, skipToEoi)

\* The frame on top has a statement, or its condition, to run.
GoOn(m, a, top) ==
    /\ mode' = m
    /\ ast' = a
    /\ frames' = top
    /\ UNCHANGED <<res, subStack, skipToEoi>>

Top == Head(frames)
\* The node at which the body of the loop on top ends.
BodyEnd == \/ Top.fn = "for" /\ Kind(ast) = "NEXT"
           \/ Top.fn = "while" /\ Kind(ast) = "WEND"
           \/ Top.fn = "do" /\ Kind(ast) = "UNTIL"
Statement(kinds) == mode = "exec" /\ ~BodyEnd /\ Kind(ast) \in kinds
Returned(fn) == mode = "back" /\ Top.fn = fn

Same == UNCHANGED <<which, prog, lastRoutine, nextVar, jumpSet, entries, value, decisions, trace>>
SameData == UNCHANGED <<which, prog, jumpSet, entries, decisions, trace>>

-----------------------------------------------------------------------------
(* Statements without a frame.                                             *)

\* No statement.
Nothing == Statement({"EOS", ":", "LABEL"}) /\ Finish("ok", ast) /\ Same

\* What belongs inside a statement (_do_nothing), a bracket or an operand.
Misplaced ==
    /\ Statement({"NUM", "COND"} \cup Reached \cup Bracket)
    /\ Finish("error", ast)
    /\ Same

Out ==
    /\ Statement({"OUT"})
    /\ trace' = Append(trace, Arg(ast))
    /\ Finish("ok", ast + 1)
    /\ UNCHANGED <<which, prog, lastRoutine, nextVar, jumpSet, entries, value, decisions>>

Exit == Statement({"EXIT"}) /\ Finish("break", ast) /\ Same
End  == Statement({"END"}) /\ Finish("end", ast) /\ Same

Next_ ==
    /\ Statement({"NEXT"})
    /\ nextVar' = IF Kind(ast + 1) = "VAR" THEN Arg(ast + 1)[1] ELSE nextVar
    /\ Finish("continue", ast + 1)
    /\ UNCHANGED lastRoutine /\ SameData /\ UNCHANGED value

\* The node before the label, or the label when it is the first.
Target(name) ==
    LET label == CHOOSE p \in DOMAIN prog :
                    Kind(p) = "LABEL" /\ Arg(p) = name /\ Kind(p - 1) \notin {"GOTO", "GOSUB"}
    IN IF label = 1 THEN 1 ELSE label - 1

\* _using_jump_set_of_instructional and _using_jump_set_of_structured
Using(set) == jumpSet \in {"none", set} /\ jumpSet' = set

GotoOrGosub ==
    /\ Statement({"GOTO", "GOSUB"})
    /\ IF jumpSet = "structured" THEN Finish("error", ast) /\ UNCHANGED jumpSet
       ELSE /\ Using("instructional")
            /\ Done("ok", Target(Arg(ast + 1)), frames,
                    IF Kind(ast) = "GOSUB" THEN Append(subStack, ast) ELSE subStack, skipToEoi)
    /\ UNCHANGED <<which, prog, lastRoutine, nextVar, entries, value, decisions, trace>>

\* A plausible bug: the return point is left on the stack.
ReturnKeeping ==
    /\ Statement({"RETURN", "ENDDEF"})
    /\ IF subStack = <<>> THEN Finish("error", ast)
       ELSE Done("return", Last(subStack), frames, subStack, skipToEoi)
    /\ Same

\* RETURN and ENDDEF
Return ==
    /\ Statement({"RETURN", "ENDDEF"})
    /\ IF subStack = <<>> THEN Finish("error", ast)
       ELSE Done("return", Last(subStack), frames, Front(subStack), skipToEoi)
    /\ Same

Def ==
    /\ Statement({"DEF"})
    /\ IF jumpSet = "instructional" \/ Arg(ast) \in DOMAIN entries
       THEN Finish("error", ast) /\ UNCHANGED <<jumpSet, entries>>
       ELSE /\ Using("structured")
            /\ entries' = [f \in DOMAIN entries \cup {Arg(ast)} |->
                              IF f = Arg(ast) THEN ast + 3 ELSE entries[f]]
            /\ Finish("ok", SkipTo(ast, {"ENDDEF"}).at + 1)
    /\ UNCHANGED <<which, prog, lastRoutine, nextVar, value, decisions, trace>>

-----------------------------------------------------------------------------
(* Conditions.                                                             *)

Decide(d) == Len(decisions) < Decisions /\ decisions' = Append(decisions, d)

-----------------------------------------------------------------------------
(* IF.                                                                     *)

\* _exit of _core_if: multi_line and skip as they are there.
IfExit(r, a, multi, skip, rest, eoi) ==
    IF r = "return" THEN Done(r, IF Null(a) THEN a ELSE a - 1, rest, subStack, eoi)
    ELSE IF multi /\ skip
    THEN \E s \in {SkipStruct(a, "IF", "THEN", "ENDIF")} :
           Done(IF s.ok \/ r \in {"end", "break", "continue"} THEN r ELSE "error",
                s.at, rest, subStack, eoi)
    ELSE Done(r, a, rest, subStack, eoi)

\* The end of the true branch: on to the end of its line.
ThenEnd(a, multi, rest, eoi) ==
    \E eol \in {EndOfLine(a)} :
       IfExit(IF eol.ok THEN "ok" ELSE "error", eol.at, multi, TRUE, rest,
              IF Kind(a) = "EOS" THEN eoi ELSE 0)

\* A branch ends at a.
Ends(a, multi, part, rest, eoi) ==
    \/ part = "then" /\ ThenEnd(a, multi, rest, eoi)
    \/ part = "else" /\ IfExit("ok", a, multi, TRUE, rest, eoi)

\* Run the statement of a branch behind a, or end the branch.
Branch(a, multi, part, rest, eoi) ==
    \E b \in {First(a + 1, DOMAIN prog \ OfKind({"EOS"}))} :
       IF ~b.ok THEN IfExit(IF part = "then" THEN "ok" ELSE "error", Len(prog) + 1,
                            multi, TRUE, rest, eoi)
       ELSE IF Kind(b.at) = "ENDIF" \/
               (part = "then" /\ multi /\ Kind(b.at) \in {"ELSE", "ELSEIF"})
       THEN Ends(IF Kind(b.at) = "ENDIF" THEN b.at - 1 ELSE b.at, multi, part, rest, eoi)
       ELSE /\ mode' = "exec"
            /\ ast' = b.at
            /\ frames' = <<[fn |-> "if", multi |-> multi, part |-> part]>> \o rest
            /\ skipToEoi' = eoi
            /\ UNCHANGED <<res, subStack>>

If ==
    /\ Statement({"IF"})
    /\ GoOn("test", ast + 1, <<[fn |-> "if", multi |-> FALSE, part |-> "test"]>> \o frames)
    /\ Same

IfTrue ==
    /\ mode = "test" /\ Top.fn = "if"
    /\ Decide(TRUE)
    /\ LET then == ast + 1
           multi == Kind(then + 1) = "EOS"
       IN IF Kind(then) # "THEN" THEN Leave("error", then)
          ELSE Branch(then, multi \/ Top.multi, "then", Tail(frames),
                      IF ~multi /\ jumpSet # "structured" THEN Back(subStack) ELSE skipToEoi)
    /\ UNCHANGED <<which, prog, lastRoutine, nextVar, jumpSet, entries, value, trace>>

\* On one line to its ELSE or its end, else to the next chunk.
ToElse(a, multi) ==
    \E else \in {SkipTo(a, {"ELSE", "EOS"})} :
       IF else.ok /\ Kind(else.at) = "ELSE"
       THEN Branch(else.at, multi, "else", Tail(frames), skipToEoi)
       ELSE IfExit(IF else.ok THEN "ok" ELSE "error", else.at, multi, FALSE, Tail(frames),
                   skipToEoi)

IfFalse ==
    /\ mode = "test" /\ Top.fn = "if"
    /\ Decide(FALSE)
    /\ \E block \in {Kind(ast + 2) = "EOS"} :
       \E a \in {IF block THEN SkipIfChunk(ast + 1).at ELSE ast + 1} :
          IF (block \/ Top.multi) /\ Kind(a) = "ELSEIF"
          THEN GoOn("test", a + 1, <<[Top EXCEPT !.multi = TRUE]>> \o Tail(frames))
          ELSE IF (block \/ Top.multi) /\ Kind(a) = "ENDIF" THEN Leave("ok", a)
          ELSE ToElse(a, block \/ Top.multi)
    /\ UNCHANGED <<which, prog, lastRoutine, nextVar, jumpSet, entries, value, trace>>

IfReturned ==
    /\ Returned("if")
    /\ LET a == ast - 1
           more == \/ ~Top.multi /\ Kind(a) = ":"
                   \/ Top.multi /\ ~Null(ast) /\
                        Kind(ast) \notin (IF Top.part = "then" THEN {"ELSEIF", "ELSE", "ENDIF"}
                                          ELSE {"ENDIF"})
       IN IF res # "ok" \/ Null(ast)
          THEN IfExit(res, ast, Top.multi, TRUE, Tail(frames), skipToEoi)
          ELSE IF more THEN Branch(a, Top.multi, Top.part, Tail(frames), skipToEoi)
          ELSE Ends(a, Top.multi, Top.part, Tail(frames), skipToEoi)
    /\ Same

-----------------------------------------------------------------------------
(* FOR.                                                                    *)

\* The assignment runs as a statement and leaves TO behind it.
For ==
    /\ Statement({"FOR"})
    /\ LET start == Arg(ast + 1)
           o == Post("ok", ast + 2, TRUE, subStack, skipToEoi)
           to == o.at - 1
       IN IF Kind(ast + 1) # "VAR" THEN Finish("error", ast + 1) /\ UNCHANGED value
          ELSE /\ value' = [value EXCEPT ![start[1]] = start[2]]
               /\ IF o.r # "ok" \/ Kind(to) # "TO"
                  THEN Done("error", o.at, frames, o.sub, o.skip)
                  ELSE /\ mode' = "test" /\ ast' = to + 1
                       /\ frames' = <<[fn |-> "for", var |-> start[1], to |-> to + 1]>> \o frames
                       /\ skipToEoi' = o.skip /\ subStack' = o.sub
                       /\ UNCHANGED res
    /\ UNCHANGED <<lastRoutine, nextVar>> /\ SameData

Step(to) == IF Kind(to + 1) = "STEP" THEN Arg(to + 2) ELSE 1
Body(to) == IF Kind(to + 1) = "STEP" THEN to + 3 ELSE to + 1

\* Leave a loop: behind the end of its structure, on the end of that line.
LoopEnd(r, a, open, close, whenBroken) ==
    \E s \in {SkipStruct(a, open, "", close)} :
       IF s.ok THEN Leave(r, EndOfLine(s.at).at) ELSE Leave(whenBroken, s.at)

ForTest ==
    /\ mode = "test" /\ Top.fn = "for"
    /\ LET to == Top.to
           over == \/ Step(to) > 0 /\ value[Top.var] > Arg(to)
                   \/ Step(to) < 0 /\ value[Top.var] < Arg(to)
       IN IF over THEN LoopEnd("ok", Body(to), "FOR", "NEXT", "error")
          ELSE GoOn("exec", Body(to), frames)
    /\ Same

\* NEXT of this loop, reached or executed: the variable moves, the limit is
\* evaluated again.
ForNext ==
    /\ Top.fn = "for"
    /\ \/ mode = "exec" /\ Kind(ast) = "NEXT" /\ UNCHANGED nextVar
       \/ /\ mode = "back" /\ res = "continue" /\ nextVar \in {"", Top.var}
          /\ nextVar' = ""
    /\ value' = [value EXCEPT ![Top.var] = @ + Step(Top.to)]
    /\ GoOn("test", Top.to, frames)
    /\ UNCHANGED lastRoutine /\ SameData

ForReturned ==
    /\ Returned("for")
    /\ ~(res = "continue" /\ nextVar \in {"", Top.var})
    /\ CASE res = "ok" -> IF Null(ast) THEN Leave("error", ast) ELSE GoOn("exec", ast, frames)
         [] res = "continue" -> LoopEnd(res, ast, "FOR", "NEXT", res)
         [] res = "break" -> LoopEnd("ok", ast, "FOR", "NEXT", "ok")
         [] OTHER -> Leave(res, ast)
    /\ Same

-----------------------------------------------------------------------------
(* WHILE and DO.                                                           *)

While ==
    /\ Statement({"WHILE"})
    /\ GoOn("test", ast + 1, <<[fn |-> "while", begin |-> ast + 1]>> \o frames)
    /\ Same

WhileTest ==
    /\ mode = "test" /\ Top.fn = "while"
    /\ \E d \in BOOLEAN :
          /\ Decide(d)
          /\ IF d THEN GoOn("exec", ast + 1, frames)
             ELSE LoopEnd("ok", ast + 1, "WHILE", "WEND", "ok")
    /\ UNCHANGED <<which, prog, lastRoutine, nextVar, jumpSet, entries, value, trace>>

Do ==
    /\ Statement({"DO"})
    /\ IF Kind(ast + 1) # "EOS" THEN Finish("error", ast + 1)
       ELSE GoOn("exec", ast + 2, <<[fn |-> "do", begin |-> ast + 2]>> \o frames)
    /\ Same

DoTest ==
    /\ mode = "test" /\ Top.fn = "do"
    /\ \E d \in BOOLEAN :
          /\ Decide(d)
          /\ IF d THEN Leave("ok", EndOfLine(ast + 1).at)
             ELSE GoOn("exec", Top.begin, frames)
    /\ UNCHANGED <<which, prog, lastRoutine, nextVar, jumpSet, entries, value, trace>>

\* The end of the body is a condition, in front of it or behind it.
LoopBody ==
    /\ mode = "exec" /\ BodyEnd
    /\ \/ Top.fn = "while" /\ GoOn("test", Top.begin, frames)
       \/ Top.fn = "do" /\ GoOn("test", ast + 1, frames)
    /\ Same

\* A RETURN from a GOSUB goes on in the loop; one from a routine leaves it, two nodes
\* before the one it found.
LoopReturned ==
    /\ mode = "back" /\ Top.fn \in {"while", "do"}
    /\ CASE res = "break" ->
              IF Top.fn = "while" THEN LoopEnd("ok", ast, "WHILE", "WEND", res)
              ELSE LoopEnd("ok", ast, "DO", "UNTIL", res)
         [] res = "return" /\ lastRoutine # "" -> Leave(res, IF ast < 2 THEN ast ELSE ast - 2)
         [] res \in {"ok", "return"} /\ ~(res = "return" /\ lastRoutine # "") ->
              IF Null(ast) THEN Leave("error", ast) ELSE GoOn("exec", ast, frames)
         [] OTHER -> Leave(res, ast)
    /\ Same

-----------------------------------------------------------------------------
(* Routines.                                                               *)

\* The call is the last statement of the routine that runs.
TailCall(f) ==
    lastRoutine = f /\ \E eol \in {EndOfLine(ast)} : eol.ok /\ Kind(eol.at + 1) = "ENDDEF"

\* _core_call and _eval_script_routine: the name, "(" and ")".
Call ==
    /\ Statement({"CALL"})
    /\ LET f == Arg(ast)
       IN IF TailCall(f) THEN Finish("ok", entries[f]) /\ UNCHANGED lastRoutine
          ELSE IF f \notin DOMAIN entries THEN Finish("error", ast) /\ UNCHANGED lastRoutine
          ELSE /\ mode' = "exec"
               /\ ast' = entries[f]
               /\ subStack' = Append(subStack, ast + 3)
               /\ frames' = <<[fn |-> "call", previous |-> lastRoutine]>> \o frames
               /\ lastRoutine' = f
               /\ UNCHANGED <<res, skipToEoi>>
    /\ UNCHANGED <<nextVar, value>> /\ SameData

CallReturned ==
    /\ Returned("call")
    /\ IF res = "ok" /\ ~Null(ast) THEN GoOn("exec", ast, frames) /\ UNCHANGED lastRoutine
       ELSE /\ lastRoutine' = Top.previous
            /\ Leave(IF res = "return" THEN "ok" ELSE res, IF Null(ast) THEN ast ELSE ast - 1)
    /\ UNCHANGED <<nextVar, value>> /\ SameData

\* The loop of mb_run.
Run ==
    /\ Returned("run")
    /\ IF res \in {"ok", "return"} /\ ~Null(ast) THEN GoOn("exec", ast, frames)
       ELSE GoOn("ended", ast, frames)
    /\ Same

-----------------------------------------------------------------------------
Init ==
    /\ which \in DOMAIN Programs
    /\ prog = Flatten(Programs[which])
    /\ ast = 1
    /\ mode = "exec"
    /\ res = "ok"
    /\ frames = <<[fn |-> "run"]>>
    /\ subStack = <<>>
    /\ skipToEoi = 0
    /\ lastRoutine = ""
    /\ nextVar = ""
    /\ jumpSet = "none"
    /\ entries = <<>>
    /\ value = [v \in {"i", "j"} |-> 0]
    /\ decisions = <<>>
    /\ trace = <<>>

Simple == Nothing \/ Misplaced \/ Out \/ Exit \/ End \/ Next_ \/ GotoOrGosub \/ Return \/ Def

Next ==
    \/ Simple
    \/ If \/ IfTrue \/ IfFalse \/ IfReturned
    \/ For \/ ForTest \/ ForNext \/ ForReturned
    \/ While \/ WhileTest \/ Do \/ DoTest \/ LoopBody \/ LoopReturned
    \/ Call \/ CallReturned \/ Run

Spec == Init /\ [][Next]_vars
FairSpec == Spec /\ WF_vars(Next)

-----------------------------------------------------------------------------
(* Properties.                                                             *)

Ended == mode = "ended"

\* The program does what its structure says, statement for statement: after every step
\* what it put out is what the tree puts out for the conditions evaluated so far, and
\* when it ends it ends without an error, with everything put out and no condition
\* evaluated more often than the tree does.
TraceIsStructured ==
    LET run == Meaning(Programs[which], decisions)
    IN mode # "exec" =>
       /\ IsPrefix(trace, run.out)
       /\ Ended => /\ res \in {"ok", "return", "end"}
                   /\ run.how = "ok"
                   /\ trace = run.out
                   /\ run.used = Len(decisions)

\* A program that ended leaves nothing behind that a later run, or a later return,
\* would take for its own.
ReturnPointsUsed == Ended => subStack = <<>> /\ lastRoutine = "" /\ nextVar = ""
=============================================================================
