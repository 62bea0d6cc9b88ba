-------------------------------- MODULE Shell --------------------------------
(* lab_1/code/parse.c and the loop of lsh.c: each line is stripped of white   *)
(* space and parsed into a command.  Tokens are written one behind the other  *)
(* into a static buffer that keeps the text of earlier lines, and the command *)
(* points into it.                                                            *)
EXTENDS Integers, Sequences, FiniteSetsExt, SequencesExt

CONSTANTS
  Letters,       \* characters of identifiers
  Others,        \* characters of words that are not of identifiers
  MaxLen,        \* length of a line
  CbufSize       \* sizeof cbuf, in the bounds of the model

VARIABLES
  raw,           \* the line as typed, or NoLine
  line,          \* the line as stripped
  cbuf,          \* the token buffer
  used,          \* what the last parse took of cbuf, pbuf and cmdbuf
  result         \* what it returned, and the command

vars == <<raw, line, cbuf, used, result>>

Nul == "nul"
White == {" "}
Special == {"|", "&", "<", ">"}
Chars == Letters \cup Others \cup White \cup Special
Lines == UNION {[1 .. n -> Chars] : n \in 0 .. MaxLen}
-----------------------------------------------------------------------------
\* The loop for trailing space never looks at the first character left.  For an
\* empty line it looks at the byte before the line, which is part of the size
\* malloc() keeps there and no white space.
stripwhite(s) ==
  LET front == SelectInSeq(s, LAMBDA c : c \notin White)
      rest == IF front = 0 THEN <<>> ELSE SubSeq(s, front, Len(s))
  IN  SubSeq(rest, 1, Max({0} \cup {i \in DOMAIN rest : i = 1 \/ rest[i] \notin White}))

\* The parser's static state: the buffers' next free places.
init == [cbuf |-> cbuf, cp |-> 1, pp |-> 0, cmds |-> 0]

\* The string at a place of the buffer.
StringAt(buf, p) ==
  LET ends == {i \in p .. CbufSize : buf[i] = Nul} IN SubSeq(buf, p, Min(ends) - 1)

\* Stores a token and its terminator.
Store(st, tok) ==
  [st EXCEPT !.cbuf = [i \in 1 .. CbufSize |->
                         IF i \in st.cp .. st.cp + Len(tok) - 1 THEN tok[i - st.cp + 1]
                         ELSE IF i = st.cp + Len(tok) THEN Nul ELSE @[i]],
             !.cp = @ + Len(tok) + 1]

\* The first position of s from i on that ends a word, or one behind s.
WordEnd(s, i) == Min({Len(s) + 1} \cup {j \in i .. Len(s) : s[j] \in White \cup Special})

\* The token from first to last.
TokenOf(s, st, first, last) == [n |-> last, tok |-> st.cp, st |-> Store(st, SubSeq(s, first, last))]

TokenAt(s, st, first) ==
  IF first = 0 THEN [n |-> 0, tok |-> st.cp, st |-> st]
  ELSE TokenOf(s, st, first, IF s[first] \in Special THEN first ELSE WordEnd(s, first) - 1)

\* The characters taken, the token's place, and the state after; nothing is
\* stored at the end of the line.
nexttoken(s, st) == TokenAt(s, st, SelectInSeq(s, LAMBDA c : c \notin White))

\* The first character of a token.
Mark(t) == t.st.cbuf[t.tok]

Behind(s, n) == SubSeq(s, n + 1, Len(s))

RECURSIVE WordsOf(_, _, _, _)
WordsOf(s, t, words, cnt) ==
  LET st == [t.st EXCEPT !.pp = @ + 1]
  IN  IF t.n = 0 \/ Mark(t) \in Special THEN [n |-> cnt, pgm |-> words, st |-> st]
      ELSE WordsOf(Behind(s, t.n), nexttoken(Behind(s, t.n), st), Append(words, t.tok), cnt + t.n)

\* One program and its arguments, up to a special token, which is read again.
acmd(s, st) == WordsOf(s, nexttoken(s, [st EXCEPT !.cmds = @ + 1]), <<>>, 0)

isidentifier(w) == \A i \in DOMAIN w : w[i] \in Letters

NULL == 0
Blank == [rstdin |-> NULL, rstdout |-> NULL, background |-> FALSE, pgm |-> <<>>]
Fail(st) == [ret |-> -1, c |-> Blank, st |-> st]

\* Faulty: the programs are listed in the order of the line.
Linked_forward(c, pgm) == [c EXCEPT !.pgm = Append(@, pgm)]

\* A new program goes to the front of the list.
Linked(c, pgm) == [c EXCEPT !.pgm = <<pgm>> \o @]

RECURSIVE AtToken(_, _, _)

NewToken(s, st, c) == AtToken(s, nexttoken(s, st), c)

\* A file name for stdin or stdout, whose field must be free.
Redirected(field, s, t, c) ==
  IF isidentifier(StringAt(t.st.cbuf, t.tok))
  THEN NewToken(Behind(s, t.n), t.st, [c EXCEPT ![field] = t.tok])
  ELSE Fail(t.st)
Redirect(field, s, st, c) ==
  IF c[field] # NULL THEN Fail(st) ELSE Redirected(field, s, nexttoken(s, st), c)

\* A program, and its place in the command.
Program(s, a, c) ==
  IF a.n <= 0 THEN Fail(a.st) ELSE NewToken(Behind(s, a.n), a.st, Linked(c, a.pgm))
NewCmd(s, st, c) == Program(s, acmd(s, st), c)

\* Nothing may follow an ampersand.
Background(u, c) ==
  IF u.n = 0 THEN [ret |-> 1, c |-> [c EXCEPT !.background = TRUE], st |-> u.st] ELSE Fail(u.st)

\* What a token means where a program has ended.
AtToken(s, t, c) ==
  LET rest == Behind(s, t.n)
  IN  CASE t.n = 0 -> [ret |-> 1, c |-> c, st |-> t.st]
        [] t.n > 0 /\ Mark(t) = "|" -> NewCmd(rest, t.st, c)
        [] t.n > 0 /\ Mark(t) = "&" -> Background(nexttoken(rest, t.st), c)
        [] t.n > 0 /\ Mark(t) = "<" -> Redirect("rstdin", rest, t.st, c)
        [] t.n > 0 /\ Mark(t) = ">" -> Redirect("rstdout", rest, t.st, c)
        [] OTHER -> Fail(t.st)

parse(s) == NewCmd(s, init, Blank)
-----------------------------------------------------------------------------
NoLine == <<Nul>>
Ignored == [ret |-> 0, c |-> Blank]

Init ==
  /\ raw = NoLine /\ line = <<>>
  /\ cbuf = [i \in 1 .. CbufSize |-> Nul]
  /\ used = [cp |-> 0, pp |-> 0, cmds |-> 0]
  /\ result = Ignored

\* What is left of a parse with outcome r.
Parsed(r) ==
  /\ result' = [ret |-> r.ret, c |-> r.c]
  /\ cbuf' = r.st.cbuf
  /\ used' = [cp |-> r.st.cp - 1, pp |-> r.st.pp, cmds |-> r.st.cmds]

\* One turn of the shell's loop.
ReadLine(s) ==
  /\ raw' = s
  /\ line' = stripwhite(s)
  /\ IF line' = <<>> THEN result' = Ignored /\ UNCHANGED <<cbuf, used>>
     ELSE Parsed(parse(line'))
-----------------------------------------------------------------------------
\* The reference: the tokens of a line, and the command they mean.
Starts(s) == {i \in DOMAIN s : /\ s[i] \notin White
                               /\ s[i] \in Special \/ i = 1 \/ s[i - 1] \in White \cup Special}
Tokens(s) ==
  LET starts == SetToSortSeq(Starts(s), <)
  IN  [k \in DOMAIN starts |-> IF s[starts[k]] \in Special THEN <<s[starts[k]]>>
                               ELSE SubSeq(s, starts[k], WordEnd(s, starts[k]) - 1)]

Is(t, c) == t = <<c>>
IsWord(t) == t[1] \notin Special
Redirection(t) == Is(t, "<") \/ Is(t, ">")
Dangling(ts) == ts # <<>> /\ Redirection(ts[Len(ts)])

\* Programs separated by bars, of which redirections may follow each, one for
\* either stream, and an ampersand at the end.
Legal(ts) ==
  /\ ts # <<>> /\ IsWord(ts[1])
  /\ \A i \in DOMAIN ts :
       /\ Is(ts[i], "|") => i < Len(ts) /\ IsWord(ts[i + 1])
       /\ Is(ts[i], "&") => i = Len(ts)
       /\ Redirection(ts[i]) => /\ i < Len(ts) /\ isidentifier(ts[i + 1])
                                /\ \A j \in DOMAIN ts : ts[j] = ts[i] => j = i
                                /\ i + 2 <= Len(ts) => ~IsWord(ts[i + 2])

\* The file named behind c, as the set of it.
NamedBy(ts, c) == {ts[i + 1] : i \in {j \in DOMAIN ts : Is(ts[j], c)}}
ProgramAt(ts, i) == SubSeq(ts, i, Min({Len(ts) + 1} \cup {j \in i .. Len(ts) : ~IsWord(ts[j])}) - 1)
Programs(ts) ==
  LET at == SetToSortSeq({i \in DOMAIN ts : IsWord(ts[i]) /\ (i = 1 \/ Is(ts[i - 1], "|"))}, >)
  IN  [k \in DOMAIN at |-> ProgramAt(ts, at[k])]

\* The strings a command points to.
Pointed(p) == IF p = NULL THEN {} ELSE {StringAt(cbuf, p)}
Argv(pgm) == [i \in DOMAIN pgm |-> StringAt(cbuf, pgm[i])]

\* A line is accepted exactly when it is legal, whatever was typed before it, and
\* the command then holds its words, the last program first: parse.c:26-113.  A
\* line whose last token is a redirection (Dangling) is another matter: parse()
\* accepts it, with whatever the buffer holds there as the name.
CommandRight ==
  result.ret # 0 =>
    LET ts == Tokens(raw)
        c == result.c
    IN  \/ Dangling(ts)
        \/ /\ (result.ret = 1) <=> Legal(ts)
           /\ result.ret = 1 =>
                /\ [k \in DOMAIN c.pgm |-> Argv(c.pgm[k])] = Programs(ts)
                /\ Pointed(c.rstdin) = NamedBy(ts, "<")
                /\ Pointed(c.rstdout) = NamedBy(ts, ">")
                /\ c.background <=> Is(ts[Len(ts)], "&")

\* What a line takes of the three fixed buffers is bounded by its length, special
\* tokens read twice included; so a line of up to 38 characters fits the 20
\* programs, 50 pointers and 256 characters: parse.c:22-24.
BuffersSuffice ==
  result.ret # 0 => /\ used.cp <= 3 * Len(line)
                    /\ used.pp <= Len(line) + 1
                    /\ used.cmds <= (Len(line) + 2) \div 2

\* Stripping removes white space from both ends and no word: lsh.c:119-140.
StripRight ==
  raw # NoLine => /\ Tokens(line) = Tokens(raw)
                  /\ line # <<>> => line[1] \notin White /\ line[Len(line)] \notin White
=============================================================================
