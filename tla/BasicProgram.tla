---------------------------- MODULE BasicProgram ----------------------------
(***************************************************************************)
(* BASIC programs as trees, what they mean, and the nodes they are parsed  *)
(* into: the reference for module BasicFlow.                               *)
(*                                                                         *)
(* A statement is <<"out", n>>, <<"line", stmts>> (joined with ":"),       *)
(* <<"one", then, else>> (an IF on one line, else = <<>> for none),        *)
(* <<"if", arms, else>> (IF, ELSEIF ..., ENDIF, else = <<>> for none),     *)
(* <<"for", v, from, to, step, body, name>> (name: whether NEXT names v),  *)
(* <<"while", body>>, <<"do", body>>, <<"exit">>, <<"next", v>> (v = "" for *)
(* the innermost loop), <<"call", f>>, <<"gosub", f>>, <<"return">>,       *)
(* <<"again", f, body>> (body, then IF condition THEN GOTO f in front of   *)
(* it).  A program is [subs, main]: subs a sequence of <<name, body>>,     *)
(* routines if style is "def", else subroutines behind END.                *)
(***************************************************************************)
EXTENDS Integers, Sequences, SequencesExt

-----------------------------------------------------------------------------
(* The nodes.                                                              *)

Token(kind) == <<kind, "">>
EOL == Token("EOS")

RECURSIVE Line(_), Lines(_), Inline(_)

\* A statement without the end of its line; only these may share a line.
Inline(s) ==
    CASE s[1] = "out" -> <<<<"OUT", s[2]>>>>
      [] s[1] = "exit" -> <<Token("EXIT")>>
      [] s[1] = "return" -> <<Token("RETURN")>>
      [] s[1] = "next" ->
           <<Token("NEXT")>> \o (IF s[2] = "" THEN <<>> ELSE <<<<"VAR", <<s[2], 0>>>>>>)
      [] s[1] = "call" -> <<<<"CALL", s[2]>>, Token("("), Token(")")>>
      [] s[1] = "gosub" -> <<Token("GOSUB"), <<"LABEL", s[2]>>>>
      [] s[1] = "one" ->
           <<Token("IF"), Token("COND"), Token("THEN")>> \o Line(s[2])
           \o (IF s[3] = <<>> THEN <<>> ELSE <<Token("ELSE")>> \o Line(s[3]))

\* Statements joined with ":".
Line(stmts) ==
    IF Len(stmts) = 1 THEN Inline(stmts[1])
    ELSE Inline(stmts[1]) \o <<Token(":")>> \o Line(Tail(stmts))

Arms(arms) ==
    FlattenSeq([k \in DOMAIN arms |->
        <<Token(IF k = 1 THEN "IF" ELSE "ELSEIF"), Token("COND"), Token("THEN"), EOL>>
        \o Lines(arms[k])])

Block(s) ==
    CASE s[1] = "line" -> Line(s[2]) \o <<EOL>>
      [] s[1] = "if" ->
           Arms(s[2]) \o (IF s[3] = <<>> THEN <<>> ELSE <<Token("ELSE"), EOL>> \o Lines(s[3]))
           \o <<Token("ENDIF"), EOL>>
      [] s[1] = "for" ->
           <<Token("FOR"), <<"VAR", <<s[2], s[3]>>>>, Token("TO"), <<"NUM", s[4]>>>>
           \o (IF s[5] = 1 THEN <<>> ELSE <<Token("STEP"), <<"NUM", s[5]>>>>)
           \o <<EOL>> \o Lines(s[6]) \o Inline(<<"next", IF s[7] THEN s[2] ELSE "">>) \o <<EOL>>
      [] s[1] = "while" ->
           <<Token("WHILE"), Token("COND"), EOL>> \o Lines(s[2]) \o <<Token("WEND"), EOL>>
      [] s[1] = "do" ->
           <<Token("DO"), EOL>> \o Lines(s[2]) \o <<Token("UNTIL"), Token("COND"), EOL>>
      [] s[1] = "again" ->
           <<<<"LABEL", s[2]>>, EOL>> \o Lines(s[3])
           \o <<Token("IF"), Token("COND"), Token("THEN"), Token("GOTO"), <<"LABEL", s[2]>>, EOL>>
      [] OTHER -> Inline(s) \o <<EOL>>

Lines(stmts) == FlattenSeq([k \in DOMAIN stmts |-> Block(stmts[k])])

Sub(p, s) ==
    IF p.style = "def"
    THEN <<<<"DEF", s[1]>>, Token("("), Token(")"), EOL>> \o Lines(s[2]) \o <<Token("ENDDEF"), EOL>>
    ELSE <<<<"LABEL", s[1]>>, EOL>> \o Lines(s[2]) \o <<Token("RETURN"), EOL>>

Flatten(p) ==
    LET subs == FlattenSeq([k \in DOMAIN p.subs |-> Sub(p, p.subs[k])])
    IN IF p.style = "def" THEN subs \o Lines(p.main)
       ELSE Lines(p.main) \o <<Token("END"), EOL>> \o subs

-----------------------------------------------------------------------------
(* The meaning.  A run is [out, used, how]: what was put out, how many of  *)
(* the conditions ds were evaluated, and how the statement ended: "ok",    *)
(* "exit", "next" with the loop's variable in name, "return", or "cut" if  *)
(* there are no more conditions.                                           *)

RECURSIVE Stmt(_, _, _, _), Stmts(_, _, _, _), ForRun(_, _, _, _, _), LoopRun(_, _, _, _, _)

Cut(ds, run) == run.used = Len(ds)
Taken(run) == [run EXCEPT !.used = @ + 1]
With(run, how) == [run EXCEPT !.how = how]

Stmts(p, ss, ds, run) ==
    IF ss = <<>> \/ run.how # "ok" THEN run
    ELSE Stmts(p, Tail(ss), ds, Stmt(p, Head(ss), ds, run))

\* What the end of a body means to its loop.
Broken(run, v) ==
    \/ run.how \in {"exit", "return", "cut"}
    \/ run.how = "next" /\ v # "*" /\ run.name \notin {"", v}
    \/ run.how = "next" /\ v = "*"
After(run) == IF run.how = "exit" THEN With(run, "ok") ELSE run

ForRun(p, s, k, ds, run) ==
    IF (s[5] > 0 /\ k > s[4]) \/ (s[5] < 0 /\ k < s[4]) THEN run
    ELSE LET r == Stmts(p, s[6], ds, run)
         IN IF Broken(r, s[2]) THEN After(r)
            ELSE ForRun(p, s, k + s[5], ds, With(r, "ok"))

\* A loop with a condition, at its beginning or its end; goesOn is the value it goes on at.
LoopRun(p, s, atHead, ds, run) ==
    LET body(r) == IF s[1] = "again" THEN Stmts(p, s[3], ds, r) ELSE Stmts(p, s[2], ds, r)
        goesOn == s[1] # "do"
    IN IF atHead
       THEN IF Cut(ds, run) THEN With(run, "cut")
            ELSE IF ds[run.used + 1] # goesOn THEN Taken(run)
            ELSE LET r == body(Taken(run))
                 IN IF Broken(r, "*") THEN After(r) ELSE LoopRun(p, s, TRUE, ds, r)
       ELSE LET r == body(run)
            IN IF Broken(r, "*") THEN IF s[1] = "again" THEN r ELSE After(r)
               ELSE IF Cut(ds, r) THEN With(r, "cut")
               ELSE IF ds[r.used + 1] # goesOn THEN Taken(r)
               ELSE LoopRun(p, s, FALSE, ds, Taken(r))

RECURSIVE IfRun(_, _, _, _, _)
IfRun(p, arms, else, ds, run) ==
    IF arms = <<>> THEN Stmts(p, else, ds, run)
    ELSE IF Cut(ds, run) THEN With(run, "cut")
    ELSE IF ds[run.used + 1] THEN Stmts(p, Head(arms), ds, Taken(run))
    ELSE IfRun(p, Tail(arms), else, ds, Taken(run))

Stmt(p, s, ds, run) ==
    CASE s[1] = "out" -> [run EXCEPT !.out = Append(@, s[2])]
      [] s[1] = "line" -> Stmts(p, s[2], ds, run)
      [] s[1] = "one" -> IfRun(p, <<s[2]>>, s[3], ds, run)
      [] s[1] = "if" -> IfRun(p, s[2], s[3], ds, run)
      [] s[1] = "for" -> ForRun(p, s, s[3], ds, run)
      [] s[1] = "while" -> LoopRun(p, s, TRUE, ds, run)
      [] s[1] \in {"do", "again"} -> LoopRun(p, s, FALSE, ds, run)
      [] s[1] = "next" -> [run EXCEPT !.how = "next", !.name = s[2]]
      [] s[1] \in {"exit", "return"} -> With(run, s[1])
      [] s[1] \in {"call", "gosub"} ->
           LET k == CHOOSE i \in DOMAIN p.subs : p.subs[i][1] = s[2]
               r == Stmts(p, p.subs[k][2], ds, run)
           IN IF r.how = "return" THEN With(r, "ok") ELSE r

Meaning(p, ds) == Stmts(p, p.main, ds, [out |-> <<>>, used |-> 0, how |-> "ok", name |-> ""])
=============================================================================
