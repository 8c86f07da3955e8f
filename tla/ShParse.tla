------------------------------ MODULE ShParse ------------------------------
(***************************************************************************)
(* The shell's parser: user/sh.c from gettoken() to nulterminate(), on the *)
(* line that gets() collects character by character. A word is any run of  *)
(* "a"; the other characters are a blank and the shell's own symbols. The  *)
(* parser keeps positions in the line, as the code keeps pointers.         *)
(***************************************************************************)
EXTENDS Integers, FiniteSets, Sequences, SequencesExt

CONSTANTS Chars,   \* what may be typed
          nbuf,    \* size of the line buffer, the final NUL included
          MAXARGS

ShParseAssumption == nbuf \in Nat \ {0} /\ MAXARGS \in Nat \ {0}

VARIABLE buf  \* the line

Init == buf = <<>>

(* gets(): one character more, unless the buffer is full. *)
Gets == Len(buf) + 1 < nbuf /\ \E c \in Chars : buf' = Append(buf, c)

Next == Gets
Spec == Init /\ [][Next]_buf

-----------------------------------------------------------------------------
(* The command trees, and what panic() leaves of one. *)
Panic == [type |-> "panic"]
execcmd(argv) == [type |-> "EXEC", argv |-> argv]
redircmd(cmd, file, mode, fd) == [type |-> "REDIR", cmd |-> cmd, file |-> file, mode |-> mode, fd |-> fd]
pipecmd(left, right) == [type |-> "PIPE", left |-> left, right |-> right]
listcmd(left, right) == [type |-> "LIST", left |-> left, right |-> right]
backcmd(cmd) == [type |-> "BACK", cmd |-> cmd]

whitespace == {" "}
symbols == {"<", "|", ">", "&", ";", "(", ")"}

es(line) == Len(line) + 1
At(line, s) == IF s = es(line) THEN "NUL" ELSE line[s]

(* The first position from s on, es at the latest, whose character is not in C. *)
Skip(line, s, C) == CHOOSE e \in s..es(line) : (e = es(line) \/ line[e] \notin C) /\ \A i \in s..(e - 1) : line[i] \in C

(* Faulty variant of gettoken: ">>" is two tokens. *)
gettokenOne(line, s0) ==
  LET q == Skip(line, s0, whitespace)  c == At(line, q)
      eq == IF c = "NUL" THEN q ELSE IF c \in symbols THEN q + 1 ELSE Skip(line, q, Chars \ (whitespace \cup symbols))
  IN [tok |-> IF c \in symbols \cup {"NUL"} THEN c ELSE "a", q |-> q, eq |-> eq, s |-> Skip(line, eq, whitespace)]

(* gettoken(): the token's kind, its place and the position after it. *)
gettoken(line, s0) ==
  LET q == Skip(line, s0, whitespace)
      c == At(line, q)
      more == c = ">" /\ At(line, q + 1) = ">"
      eq == IF c = "NUL" THEN q
            ELSE IF c \in symbols THEN IF more THEN q + 2 ELSE q + 1
            ELSE Skip(line, q, Chars \ (whitespace \cup symbols))
  IN [tok |-> IF more THEN "+" ELSE IF c \in symbols \cup {"NUL"} THEN c ELSE "a",
      q |-> q, eq |-> eq, s |-> Skip(line, eq, whitespace)]

peek(line, s, toks) == At(line, Skip(line, s, whitespace)) \in toks

Result(cmd, s) == [cmd |-> cmd, s |-> s]
Failed(r) == r.cmd = Panic

(* The redirection that token tok and the file's place stand for. *)
Redirection(cmd, tok, file) ==
  CASE tok = "<" -> redircmd(cmd, file, "read", 0)
    [] tok = ">" -> redircmd(cmd, file, "trunc", 1)
    [] tok = "+" -> redircmd(cmd, file, "write", 1)

RECURSIVE parseredirs(_, _, _)
parseredirs(cmd, line, s) ==
  LET File(tok, f) == IF f.tok # "a" THEN Result(Panic, s)
                      ELSE parseredirs(Redirection(cmd, tok, <<f.q, f.eq>>), line, f.s)
      Operator(t) == File(t.tok, gettoken(line, t.s))
  IN IF ~peek(line, s, {"<", ">"}) THEN Result(cmd, s) ELSE Operator(gettoken(line, s))

(* The exec command inside the redirections of ret, given argument a. *)
RECURSIVE AddArg(_, _)
AddArg(ret, a) == IF ret.type = "EXEC" THEN [ret EXCEPT !.argv = Append(@, a)] ELSE [ret EXCEPT !.cmd = AddArg(@, a)]

(* The loop of parseexec(), with argc arguments so far. *)
RECURSIVE ParseArgs(_, _, _, _)
ParseArgs(ret, argc, line, s) ==
  LET More(r) == IF Failed(r) THEN r ELSE ParseArgs(r.cmd, argc + 1, line, r.s)
      Arg(t) == IF t.tok = "NUL" THEN Result(ret, s)
                ELSE IF t.tok # "a" \/ argc + 1 >= MAXARGS THEN Result(Panic, s)
                ELSE More(parseredirs(AddArg(ret, <<t.q, t.eq>>), line, t.s))
  IN IF peek(line, s, {"|", ")", "&", ";"}) THEN Result(ret, s) ELSE Arg(gettoken(line, s))

RECURSIVE parseline(_, _)
parseblock(line, s) ==
  LET Close(r) == IF Failed(r) \/ ~peek(line, r.s, {")"}) THEN Result(Panic, s)
                  ELSE parseredirs(r.cmd, line, gettoken(line, r.s).s)
  IN Close(parseline(line, gettoken(line, s).s))

parseexec(line, s) ==
  LET Args(r) == IF Failed(r) THEN r ELSE ParseArgs(r.cmd, 0, line, r.s)
  IN IF peek(line, s, {"("}) THEN parseblock(line, s) ELSE Args(parseredirs(execcmd(<<>>), line, s))

(* The command of l with r, which follows its operator op. *)
Join(op, l, r) ==
  IF Failed(r) THEN r ELSE Result(IF op = "|" THEN pipecmd(l.cmd, r.cmd) ELSE listcmd(l.cmd, r.cmd), r.s)

RECURSIVE parsepipe(_, _)
parsepipe(line, s) ==
  LET Rest(l) == IF Failed(l) \/ ~peek(line, l.s, {"|"}) THEN l
                 ELSE Join("|", l, parsepipe(line, gettoken(line, l.s).s))
  IN Rest(parseexec(line, s))

RECURSIVE ParseBack(_, _)
ParseBack(line, l) ==
  IF peek(line, l.s, {"&"}) THEN ParseBack(line, Result(backcmd(l.cmd), gettoken(line, l.s).s)) ELSE l

ParseList(line, l) ==
  IF ~peek(line, l.s, {";"}) THEN l ELSE Join(";", l, parseline(line, gettoken(line, l.s).s))

parseline(line, s) ==
  LET Rest(l) == IF Failed(l) THEN l ELSE ParseList(line, ParseBack(line, l))
  IN Rest(parsepipe(line, s))

(* parsecmd() before nulterminate(). *)
parsecmd(line) ==
  LET Whole(r) == IF ~Failed(r) /\ Skip(line, r.s, whitespace) # es(line) THEN Panic ELSE r.cmd
  IN Whole(parseline(line, 1))

(* The places of the words of a tree, which nulterminate() ends with a NUL. *)
RECURSIVE Words(_)
Words(cmd) ==
  CASE cmd.type = "EXEC" -> ToSet(cmd.argv)
    [] cmd.type = "REDIR" -> Words(cmd.cmd) \cup {cmd.file}
    [] cmd.type \in {"PIPE", "LIST"} -> Words(cmd.left) \cup Words(cmd.right)
    [] cmd.type = "BACK" -> Words(cmd.cmd)

(* Faulty variant of nulterminate: it ends a word on its last character. *)
nulterminateEarly(line, cmd) ==
  [i \in 1..es(line) |-> IF i \in {w[2] - 1 : w \in Words(cmd)} THEN "NUL" ELSE At(line, i)]

(* The line after nulterminate(). *)
nulterminate(line, cmd) == [i \in 1..es(line) |-> IF i \in {w[2] : w \in Words(cmd)} THEN "NUL" ELSE At(line, i)]

-----------------------------------------------------------------------------
(* What a line means, from the grammar: cut it at the operators that are not   *)
(* in parentheses, the loosest first.                                          *)
Sorted(S) == [n \in 1..Cardinality(S) |-> CHOOSE i \in S : Cardinality({j \in S : j < i}) = n - 1]

Tokens(line) ==
  LET starts == {i \in 1..Len(line) :
        CASE line[i] = " " -> FALSE
          [] line[i] = ">" -> LET n == Cardinality({j \in 1..(i - 1) : \A k \in j..(i - 1) : line[k] = ">"}) IN n % 2 = 0
          [] line[i] \in symbols -> TRUE
          [] OTHER -> i = 1 \/ line[i - 1] \in symbols \cup {" "}}
      Kind(i) == IF line[i] = ">" /\ i < Len(line) /\ line[i + 1] = ">" THEN "+" ELSE line[i]
      End(i) == CHOOSE j \in i..Len(line) : (\A k \in i..j : line[k] = "a") /\ (j = Len(line) \/ line[j + 1] # "a")
  IN [n \in 1..Cardinality(starts) |->
        LET i == Sorted(starts)[n] IN
        [tok |-> Kind(i), at |-> IF line[i] = "a" THEN <<i, End(i) + 1>> ELSE <<i, i>>]]

Depth(t, i) == Cardinality({j \in 1..i : t[j].tok = "("}) - Cardinality({j \in 1..(i - 1) : t[j].tok = ")"})
Outside(t, kinds) == {i \in DOMAIN t : t[i].tok \in kinds /\ Depth(t, i) = 0}
FirstOf(S) == CHOOSE i \in S : \A j \in S : i <= j

(* The redirections in t, in order, applied to cmd. *)
Redirected(cmd, t) ==
  LET at == Sorted({i \in DOMAIN t : t[i].tok \in {"<", ">", "+"}})
  IN FoldLeft(LAMBDA c, i : Redirection(c, t[i].tok, t[i + 1].at), cmd, at)

RedirsComplete(t) == \A i \in DOMAIN t : t[i].tok \in {"<", ">", "+"} => i < Len(t) /\ t[i + 1].tok = "a"
IsFile(t, i) == i > 1 /\ t[i - 1].tok \in {"<", ">", "+"}

RECURSIVE Line(_), Pipeline(_)
Simple(t) ==
  LET Made(args) ==
        IF (\E i \in DOMAIN t : t[i].tok \notin {"a", "<", ">", "+"}) \/ ~RedirsComplete(t) \/ Len(args) >= MAXARGS
        THEN Panic ELSE Redirected(execcmd(args), t)
  IN Made(SelectSeq([i \in DOMAIN t |-> IF t[i].tok = "a" /\ ~IsFile(t, i) THEN t[i].at ELSE <<>>], LAMBDA a : a # <<>>))
Block(t) ==
  LET Made(body, rest) ==
        IF body = Panic \/ ~RedirsComplete(rest) \/ Len(rest) # 2 * Cardinality({i \in DOMAIN rest : IsFile(rest, i)})
        THEN Panic ELSE Redirected(body, rest)
      Cut(i) == Made(Line(SubSeq(t, 2, i - 1)), SubSeq(t, i + 1, Len(t)))
      Ended(ends) == IF ends = {} THEN Panic ELSE Cut(FirstOf(ends))
  IN Ended({i \in DOMAIN t : t[i].tok = ")" /\ Depth(t, i) = 1})
Command(t) == IF t # <<>> /\ t[1].tok = "(" THEN Block(t) ELSE Simple(t)
Both(Op(_, _), l, r) == IF l = Panic \/ r = Panic THEN Panic ELSE Op(l, r)
Pipeline(t) ==
  LET Cut(i) == IF i > Len(t) THEN Command(t)
                ELSE Both(pipecmd, Command(SubSeq(t, 1, i - 1)), Pipeline(SubSeq(t, i + 1, Len(t))))
  IN Cut(FirstOf(Outside(t, {"|"}) \cup {Len(t) + 1}))
RECURSIVE Background(_)
Background(t) ==
  IF t # <<>> /\ Last(t).tok = "&" /\ Depth(t, Len(t)) = 0
  THEN LET Made(c) == IF c = Panic THEN Panic ELSE backcmd(c) IN Made(Background(Front(t)))
  ELSE IF Outside(t, {"&"}) # {} THEN Panic ELSE Pipeline(t)
Line(t) ==
  LET Cut(i) == IF i > Len(t) THEN Background(t)
                ELSE Both(listcmd, Background(SubSeq(t, 1, i - 1)), Line(SubSeq(t, i + 1, Len(t))))
  IN Cut(FirstOf(Outside(t, {";"}) \cup {Len(t) + 1}))

(* parsecmd() builds the tree that the grammar gives the line, and stops with  *)
(* an error exactly on the lines that have none: nothing typed is dropped,     *)
(* regrouped or taken for a command it is not.                                 *)
ParsesTheGrammar == \A line \in {buf} : parsecmd(line) = Line(Tokens(line))

(* After nulterminate() every argument and file name reads, up to its NUL, as  *)
(* it was typed: no terminator falls into another word of the line.            *)
WordsIntact ==
  \A cmd \in {parsecmd(buf)} \ {Panic} : \A after \in {nulterminate(buf, cmd)} :
    \A w \in Words(cmd) : after[w[2]] = "NUL" /\ \A i \in w[1]..(w[2] - 1) : after[i] = buf[i] /\ buf[i] = "a"
=============================================================================
