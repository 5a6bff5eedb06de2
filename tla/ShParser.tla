------------------------------ MODULE ShParser ------------------------------
(***************************************************************************)
(* The shell's parser (user/sh.c): gettoken and peek over the characters   *)
(* of a line, the recursive descent from parsecmd down, and nulterminate,  *)
(* which cuts the line up in place.  A command is the tree the             *)
(* constructors build; a word is the span [q, eq) of the line it was found *)
(* in, as in the code, where it is a pair of pointers.                     *)
(*                                                                         *)
(* Every parsing function gives the tree, the place where it stopped, and  *)
(* whether it got there without panic().                                   *)
(***************************************************************************)
EXTENDS Naturals, SequencesExt, FiniteSetsExt

CONSTANTS MAXARGS,
          Letter,  \* the characters of words
          Keys,    \* the characters of the lines checked
          MaxLine  \* the length of the lines checked

Symbol == {"<", "|", ">", "&", ";", "(", ")"}
NUL == ""

VARIABLE buf       \* the line

At(s, i) == IF i <= Len(s) THEN s[i] ELSE NUL

EXEC(a) == [type |-> "EXEC", argv |-> a]
REDIR(c, f, fd) == [type |-> "REDIR", cmd |-> c, file |-> f, fd |-> fd]
PIPE(l, r) == [type |-> "PIPE", left |-> l, right |-> r]
LIST(l, r) == [type |-> "LIST", left |-> l, right |-> r]
BACK(c) == [type |-> "BACK", cmd |-> c]

-----------------------------------------------------------------------------
\* The first place from i on whose character is not in S (or the end).
Past(s, i, S) == Min({j \in i..Len(s) + 1 : At(s, j) \notin S})

\* Faulty variant: >> is taken for two tokens.
gettokenShort(s, i) ==
    LET q == Past(s, i, {" "})
        c == At(s, q)
        eq == CASE c = NUL -> q
                [] c \in Symbol -> q + 1
                [] OTHER -> Past(s, q, Letter)
    IN [tok |-> IF c \in Letter THEN "a" ELSE c, q |-> q, eq |-> eq, s |-> Past(s, eq, {" "})]

\* gettoken(): the kind of the next token, its span, and what follows it.
gettoken(s, i) ==
    LET q == Past(s, i, {" "})
        c == At(s, q)
        append == c = ">" /\ At(s, q + 1) = ">"
        eq == CASE c = NUL -> q
                [] append -> q + 2
                [] c \in Symbol -> q + 1
                [] OTHER -> Past(s, q, Letter)
    IN [tok |-> IF append THEN "+" ELSE IF c \in Letter THEN "a" ELSE c,
        q |-> q, eq |-> eq, s |-> Past(s, eq, {" "})]

peek(s, i, toks) == At(s, Past(s, i, {" "})) \in toks

Span(t) == <<t.q, t.eq>>

parsed(c, i) == [c |-> c, s |-> i, ok |-> TRUE]
panic == [c |-> EXEC(<<>>), s |-> 0, ok |-> FALSE]

\* l and what follows it after a | or a ;.
pipedWith(l, r) == IF r.ok THEN parsed(PIPE(l.c, r.c), r.s) ELSE panic
listedWith(l, r) == IF r.ok THEN parsed(LIST(l.c, r.c), r.s) ELSE panic

\* parseredirs(): wrap the command in each redirection that follows.  The
\* code wraps the execcmd it goes on to fill; here rs are wrapped around it
\* when it is filled.
RECURSIVE parseredirs(_, _, _)
redirection(s, t, f, rs) ==
    IF f.tok # "a" THEN panic
    ELSE parseredirs(s, f.s, Append(rs, <<Span(f), IF t.tok = "<" THEN 0 ELSE 1>>))
redirected(s, t, rs) == redirection(s, t, gettoken(s, t.s), rs)
parseredirs(s, i, rs) ==
    IF peek(s, i, {"<", ">"}) THEN redirected(s, gettoken(s, i), rs) ELSE parsed(rs, i)

Wrap(c, rs) == FoldLeft(LAMBDA x, r : REDIR(x, r[1], r[2]), c, rs)

\* The loop of parseexec: t is the token at i, rs the redirections so far.
RECURSIVE parseargs(_, _, _, _)
argument(s, argv, rs) == IF rs.ok THEN parseargs(s, rs.s, argv, rs.c) ELSE panic
execword(s, i, t, argv, rs) ==
    IF peek(s, i, {"|", ")", "&", ";"}) \/ t.tok = NUL
    THEN parsed(Wrap(EXEC(argv), rs), i)
    ELSE IF t.tok # "a" \/ Len(argv) + 1 >= MAXARGS THEN panic
    ELSE argument(s, Append(argv, Span(t)), parseredirs(s, t.s, rs))
parseargs(s, i, argv, rs) == execword(s, i, gettoken(s, i), argv, rs)

\* parseblock(), after parseline has given c; rs are what follows its ")".
wrapped(c, rs) == IF rs.ok THEN parsed(Wrap(c, rs.c), rs.s) ELSE panic
parseblock(s, c) ==
    IF c.ok /\ peek(s, c.s, {")"})
    THEN wrapped(c.c, parseredirs(s, gettoken(s, c.s).s, <<>>)) ELSE panic

RECURSIVE parseback(_, _)
parseback(s, l) ==
    IF l.ok /\ peek(s, l.s, {"&"})
    THEN parseback(s, parsed(BACK(l.c), gettoken(s, l.s).s)) ELSE l

RECURSIVE parseline(_, _)
RECURSIVE parsepipe(_, _)

parseexec(s, i) ==
    IF peek(s, i, {"("}) THEN parseblock(s, parseline(s, gettoken(s, i).s))
    ELSE argument(s, <<>>, parseredirs(s, i, <<>>))

piped(s, l) ==
    IF l.ok /\ peek(s, l.s, {"|"}) THEN pipedWith(l, parsepipe(s, gettoken(s, l.s).s)) ELSE l
parsepipe(s, i) == piped(s, parseexec(s, i))

listed(s, l) ==
    IF l.ok /\ peek(s, l.s, {";"}) THEN listedWith(l, parseline(s, gettoken(s, l.s).s)) ELSE l
parseline(s, i) == listed(s, parseback(s, parsepipe(s, i)))

\* parsecmd(), which wants nothing but blanks after the command.
whole(s, l) == IF l.ok /\ Past(s, l.s, {" "}) = Len(s) + 1 THEN l ELSE panic
parsecmd(s) == whole(s, parseline(s, 1))

\* The words of a command.
RECURSIVE Words(_)
Words(c) ==
    CASE c.type = "EXEC" -> Range(c.argv)
      [] c.type = "REDIR" -> Words(c.cmd) \cup {c.file}
      [] c.type = "BACK" -> Words(c.cmd)
      [] OTHER -> Words(c.left) \cup Words(c.right)

\* nulterminate(): a NUL where each word ends.
nulterminate(s, c) ==
    [i \in DOMAIN s |-> IF \E x \in Words(c) : x[2] = i THEN NUL ELSE s[i]]

-----------------------------------------------------------------------------
(* getcmd() clears the line, and gets() adds the next character typed.     *)
ParserInit == buf = <<>>
Type(c) == Len(buf) < MaxLine /\ buf' = Append(buf, c)
ParserNext == \E c \in Keys : Type(c)

-----------------------------------------------------------------------------
\* The grammar of command lines: the tokens of a line, and the set of the
\* trees that derive a sequence of tokens.
RECURSIVE Tokens(_, _)
Tokens(s, i) ==
    LET token(k, j) == <<[tok |-> k, span |-> <<i, j>>]>> \o Tokens(s, j) IN
    CASE At(s, i) = NUL -> <<>>
      [] At(s, i) = " " -> Tokens(s, i + 1)
      [] At(s, i) = ">" /\ At(s, i + 1) = ">" -> token("+", i + 2)
      [] At(s, i) \in Letter ->
            token("a", CHOOSE j \in i + 1..Len(s) + 1 :
                           At(s, j) \notin Letter /\ \A k \in i..j - 1 : s[k] \in Letter)
      [] OTHER -> token(At(s, i), i + 1)

Is(t, k) == {i \in DOMAIN t : t[i].tok = k}
Before(t, i) == SubSeq(t, 1, i - 1)
After(t, i) == SubSeq(t, i + 1, Len(t))

\* Words and redirections in any order.
Plain(t) ==
    LET op == Is(t, "<") \cup Is(t, ">") \cup Is(t, "+")
        file == {i + 1 : i \in op}
        inOrder(S) == SetToSortSeq(S, <)
        redir(i) == <<t[i + 1].span, IF t[i].tok = "<" THEN 0 ELSE 1>>
    IN [ok |-> DOMAIN t = op \cup Is(t, "a") /\ file \subseteq Is(t, "a"),
        argv |-> LET w == inOrder(Is(t, "a") \ file) IN [i \in DOMAIN w |-> t[w[i]].span],
        redirs |-> LET r == inOrder(op \ {Len(t)}) IN [i \in DOMAIN r |-> redir(r[i])]]

RECURSIVE LineTrees(_)
RECURSIVE BackTrees(_)
RECURSIVE PipeTrees(_)

SimpleTrees(t) ==
    LET p == Plain(t)
        block(j) == Plain(After(t, j))
    IN (IF p.ok /\ Len(p.argv) < MAXARGS THEN {Wrap(EXEC(p.argv), p.redirs)} ELSE {})
       \cup UNION {{Wrap(c, block(j).redirs) : c \in LineTrees(SubSeq(t, 2, j - 1))} :
                    j \in {j \in Is(t, ")") : 1 \in Is(t, "(") /\ block(j).ok /\ block(j).argv = <<>>}}

PipeTrees(t) ==
    SimpleTrees(t) \cup
    UNION {{PIPE(l, r) : l \in SimpleTrees(Before(t, i)), r \in PipeTrees(After(t, i))} : i \in Is(t, "|")}

BackTrees(t) ==
    PipeTrees(t) \cup
    (IF Len(t) \in Is(t, "&") THEN {BACK(c) : c \in BackTrees(Before(t, Len(t)))} ELSE {})

LineTrees(t) ==
    BackTrees(t) \cup
    UNION {{LIST(l, r) : l \in BackTrees(Before(t, i)), r \in LineTrees(After(t, i))} : i \in Is(t, ";")}

(* parsecmd accepts exactly the lines of the grammar, of which every line  *)
(* has one reading, and finds that reading; and the NULs written by        *)
(* nulterminate end each word and destroy none.                            *)
ParsesTheGrammar ==
    LET p == parsecmd(buf)
        cut == nulterminate(buf, p.c)
    IN /\ LineTrees(Tokens(buf, 1)) = IF p.ok THEN {p.c} ELSE {}
       /\ \A x \in Words(p.c) :
            /\ At(cut, x[2]) = NUL
            /\ \A i \in x[1]..x[2] - 1 : cut[i] = buf[i]
=============================================================================
