------------------------------ MODULE FrontEnd ------------------------------
(***************************************************************************)
(* From the text of a recipe to its tree.  The text is a sequence of lines *)
(* and a line a sequence of pieces: a piece stands for a word, a number, a *)
(* quoted string, an option or a mark.  The lexer drops comments and joins *)
(* continued lines; the parser descends directive by directive, skips to   *)
(* the end of a line it cannot read and goes on; the validator looks at    *)
(* the finished tree.  What is read is compared with a reading that takes  *)
(* each line by itself and has no position.                                *)
(***************************************************************************)
EXTENDS Naturals, Sequences, FiniteSets, SequencesExt, FiniteSetsExt

CONSTANTS
    Recipes,     \* the recipes to read: sequences of lines
    MAX_SOURCE,  \* the longest recipe that is read, in pieces
    MAX_COLLECTED_DIAGNOSTICS

(* Words by what the parser does with them.  The bad ones fail validation;  *)
(* ".0" touches the word or number before it.                              *)
Payload  == {"RUN", "CMD", "ENTRYPOINT"}
Removed  == {"BOOTLOADER", "HOSTNAME"}
Keyword  == Payload \cup Removed \cup {"FROM", "AS", "LABEL", "ENV", "ARG", "SHELL", "USER",
             "WORKDIR", "ADD", "COPY", "EXPOSE", "VOLUME", "STOPSIGNAL"}
Proto    == {"/tcp", "/udp"}
Path     == {"/x", "/y"} \cup Proto
Remote   == {"img:1", "oci://img", "https://h", "bad:1"}
Bad      == {"bad", "bad:1"}
Touching == {".0"}
Unsupported == {"MAINTAINER"}
Ident    == Path \cup Remote \cup Touching \cup Unsupported
            \cup {"a", "b", "scratch", "systemd", "bash", "TOKEN", "bad", "#"}
Number   == {"80", "65536", "2^64"}
(* A string within its line, and one that spans lines.                     *)
Quoted   == {"str", "text"}
Option   == {"--mount", "--mount?", "--from", "--from?", "--opt"}
Mark     == {"=", ",", "[", "]"}
(* What the lexer alone deals with: the end of a line that goes on, a      *)
(* comment sign, a stray byte, a quote of a string that its line does not  *)
(* hold both of.                                                           *)
Lexical  == {"cont", "hash", "byte", "quote"}
Piece    == Keyword \cup Ident \cup Number \cup Quoted \cup Option \cup Mark \cup Lexical

ASSUME FrontEndAssumption ==
    /\ Recipes \subseteq Seq(Seq(Piece \ {"text"}))
    /\ \A r \in Recipes : \A l \in Range(r) : Cardinality({k \in DOMAIN l : l[k] = "quote"}) <= 1
    /\ {MAX_SOURCE, MAX_COLLECTED_DIAGNOSTICS} \subseteq Nat \ {0}

VARIABLES
    src,      \* the recipe
    phase,    \* read, preamble, head, body, stop, validate or done
    toks,     \* the tokens
    pos,      \* the next token
    globals,  \* the global ARGs
    stages,   \* the stages that are complete
    stage,    \* the one being read
    lexErrs,  \* how many errors the lexer has found
    errs,     \* the lines that the parser's errors are about, in their order
    warns     \* the lines that warnings are about

vars == <<src, phase, toks, pos, globals, stages, stage, lexErrs, errs, warns>>
NoStage == [from |-> "", name |-> "", dirs |-> <<>>]

Init ==
    /\ src \in Recipes /\ phase = "read" /\ toks = <<>> /\ pos = 1 /\ globals = <<>> /\ stages = <<>>
    /\ stage = NoStage /\ lexErrs = 0 /\ errs = <<>> /\ warns = <<>>
----------------------------------------------------------------------------
(* The lexer.                                                              *)

Text(lines) == FoldLeft(LAMBDA t, l : t \o l \o (IF l # <<>> /\ Last(l) = "cont" THEN <<>> ELSE <<"nl">>),
                        <<>>, lines)

push_token(s, t) ==
    [s EXCEPT !.toks = Append(@, t), !.payload = IF t = "nl" THEN FALSE ELSE @ \/ t \in Payload]

(* One more than the limit, to say that there are more.                    *)
push_capped(n) == IF n <= MAX_COLLECTED_DIAGNOSTICS THEN n + 1 ELSE n

(* Within a string everything up to its other quote belongs to it, ends of *)
(* lines too; a comment runs to the end of the physical line, so a          *)
(* continuation at its end does not continue.                              *)
Within(s, p) ==
    IF s.open THEN IF p = "quote" THEN push_token([s EXCEPT !.open = FALSE], "text") ELSE s
    ELSE IF p \in {"nl", "cont"} THEN push_token([s EXCEPT !.comment = FALSE], "nl") ELSE s

(* A number that is too large is an error and still a token.               *)
lex_token(s, p) ==
    CASE p = "cont"  -> s
      [] p = "quote" -> [s EXCEPT !.open = TRUE]
      [] p = "byte"  -> [s EXCEPT !.errs = push_capped(@)]
      [] p = "2^64"  -> push_token([s EXCEPT !.errs = push_capped(@)], p)
      [] OTHER       -> push_token(s, p)

(* In a payload the sign of a comment is a word's first letter.            *)
lex_pieceBlind(s, p) ==
    IF s.open \/ s.comment THEN Within(s, p)
    ELSE IF p = "hash" THEN [s EXCEPT !.comment = TRUE] ELSE lex_token(s, p)
lex_piece(s, p) ==
    IF s.open \/ s.comment THEN Within(s, p)
    ELSE IF p # "hash" THEN lex_token(s, p)
    ELSE IF s.payload THEN push_token(s, "#") ELSE [s EXCEPT !.comment = TRUE]

(* A string that is still open at the end of the text is an error.         *)
tokenize(text) ==
    LET s == FoldLeft(lex_piece, [toks |-> <<>>, errs |-> 0, payload |-> FALSE, comment |-> FALSE,
                                  open |-> FALSE], text)
    IN  IF s.open THEN [s EXCEPT !.errs = push_capped(@)] ELSE s
----------------------------------------------------------------------------
(* The parser's primitives.  An outcome says whether, what was read, where *)
(* the parser is, how many errors and warnings there were.                 *)

peek(i)  == IF i \in DOMAIN toks THEN toks[i] ELSE "eof"
AtEnd(i) == peek(i) \in {"nl", "eof"}
Good(i, got)  == [ok |-> TRUE, pos |-> i, got |-> got, errs |-> 0, warns |-> 0]
Fail(i)       == [ok |-> FALSE, pos |-> i, got |-> <<>>, errs |-> 1, warns |-> 0]
PastAlways(i) == i + 1
Past(i)       == IF peek(i) = "eof" THEN i ELSE i + 1

(* The token is consumed even when it is the wrong one, and even when it   *)
(* is the end of the line.                                                 *)
advance_or_err(i, S) == IF peek(i) \in S THEN Good(i + 1, <<peek(i)>>) ELSE Fail(Past(i))
expect_ident_arg(i) == advance_or_err(i, Ident)
Then(r, S) ==
    IF ~r.ok THEN r
    ELSE LET q == advance_or_err(r.pos, S) IN [q EXCEPT !.got = r.got \o @]
validated(r, t) == IF r.ok /\ t \in Bad THEN Fail(r.pos) ELSE r

LineEnd(i) == LET ends == {j \in i..Len(toks) : toks[j] = "nl"}
              IN  IF ends = {} THEN Len(toks) + 1 ELSE Min(ends)
skip_newlines(i) == LET more == {j \in i..Len(toks) : toks[j] # "nl"}
                    IN  IF more = {} THEN Len(toks) + 1 ELSE Min(more)
recover_to_eol(i) == Past(LineEnd(i))
recover_to_next_stageNot(i) == i
recover_to_next_stage(i) ==
    LET froms == {j \in i..Len(toks) : toks[j] = "FROM"}
    IN  IF froms = {} THEN Len(toks) + 1 ELSE Min(froms)

(* What is left on the line is an error, but not the directive's.          *)
expect_newline_afterSilent(r) == IF r.ok THEN [r EXCEPT !.pos = recover_to_eol(@)] ELSE r
expect_newline_after(r) ==
    IF ~r.ok \/ AtEnd(r.pos) THEN r
    ELSE [r EXCEPT !.pos = recover_to_eol(@), !.errs = @ + 1]

(* A value and the words that touch it; a quoted one stands by itself.     *)
splice_value(r) ==
    IF ~r.ok \/ Last(r.got) \in Quoted THEN r
    ELSE LET run == {j \in r.pos..Len(toks) : \A k \in r.pos..j : toks[k] \in Touching}
         IN  [r EXCEPT !.pos = @ + Cardinality(run), !.got = @ \o SubSeq(toks, r.pos, r.pos + Cardinality(run) - 1)]

parse_string_array(i) ==
    LET items[j \in 1..Len(toks) + 2] ==
            LET q == Then(advance_or_err(j, Quoted), {",", "]"})
            IN  CASE ~q.ok -> q
                  [] q.ok /\ Last(q.got) = "]" -> [q EXCEPT !.got = <<@[1]>>]
                  [] OTHER -> LET rest == items[q.pos] IN [rest EXCEPT !.got = <<q.got[1]>> \o @]
    IN  IF peek(i + 1) = "]" THEN Fail(i + 2) ELSE items[i + 1]

slurp(i) == Good(LineEnd(i), SubSeq(toks, i, LineEnd(i) - 1))
----------------------------------------------------------------------------
(* One directive each, from the token after its keyword.                   *)

Values == Ident \cup Quoted \cup Number
parse_key_value(i) ==
    splice_value(Then(Then(advance_or_err(i, Ident \cup Keyword), {"="}), Values))

(* The items of a line: sequences of a key and its value.                  *)
parse_key_value_listStops(i) == LET q == parse_key_value(i) IN [q EXCEPT !.got = <<@>>]
parse_key_value_list(i) ==
    LET list[j \in 1..Len(toks) + 1] ==
            LET q == parse_key_value(j)
            IN  IF q.ok /\ peek(q.pos) \in Ident
                THEN LET rest == list[q.pos] IN [rest EXCEPT !.got = <<q.got>> \o @]
                ELSE [q EXCEPT !.got = <<@>>]
    IN  list[i]

(* The whole line is read before its keys and values are validated.  A     *)
(* label's key is in lower case, which no keyword is.                      *)
parse_pairs(i, kw) ==
    LET r == expect_newline_after(parse_key_value_list(i))
        bad == \E x \in Range(r.got) : Range(x) \cap Bad # {} \/ (kw = "LABEL" /\ x[1] \in Keyword)
    IN  IF r.ok /\ bad THEN [Fail(r.pos) EXCEPT !.errs = r.errs + 1] ELSE r

parse_arg(i) ==
    LET n == advance_or_err(i, Ident \cup Keyword)
        v == validated(n, peek(i))
        d == IF v.ok /\ peek(v.pos) = "=" THEN splice_value(Then(Then(v, {"="}), Values)) ELSE v
        r == expect_newline_after(IF d.ok /\ Last(d.got) \in Bad THEN Fail(d.pos) ELSE d)
    IN  [r EXCEPT !.got = <<@>>, !.warns = IF r.ok /\ peek(i) = "TOKEN" THEN 1 ELSE 0]

One(r) == [expect_newline_after(r) EXCEPT !.got = <<@>>]
parse_user(i)    == One(validated(expect_ident_arg(i), peek(i)))
parse_workdir(i) == One(validated(expect_ident_arg(i), peek(i)))
parse_stopsignal(i) == One(advance_or_err(i, Ident \cup Number))
parse_shell(i) ==
    One(IF peek(i) = "[" THEN parse_string_array(i)
        ELSE LET r == expect_ident_arg(i) IN IF r.ok /\ r.got # <<"bash">> THEN Fail(r.pos) ELSE r)

(* An option that is not known is never passed on to the shell.            *)
parse_run(i) ==
    LET opts == {j \in i..Len(toks) : \A k \in i..j : toks[k] = "--mount"}
        c    == i + Cardinality(opts)
    IN  One(CASE peek(c) \in Option -> Fail(IF peek(c) = "--mount?" THEN c + 1 ELSE c)
              [] AtEnd(c) -> Fail(c)
              [] peek(c) = "[" -> parse_string_array(c)
              [] OTHER -> slurp(c))

AddSource(t) == CASE t \in {"img:1", "oci://img", "bad:1"} -> "oci" [] t = "https://h" -> "url" [] OTHER -> "path"
parse_add(i) ==
    LET opts == {j \in i..Len(toks) : \A k \in i..j : toks[k] = "--from"}
        c    == i + Cardinality(opts)
        s    == advance_or_err(c, Ident \cup Quoted)
        r    == Then(IF AddSource(peek(c)) = "path" THEN s ELSE validated(s, peek(c)), Ident \cup Quoted)
        v    == IF r.ok THEN validated(r, Last(r.got)) ELSE r
    IN  One(IF peek(c) \in Option THEN Fail(c + 1)
            ELSE [v EXCEPT !.got = IF v.ok THEN <<AddSource(peek(c))>> \o @ ELSE @])

parse_entrypoint(i) ==
    One(CASE AtEnd(i) -> Fail(i)
          [] peek(i) = "[" -> parse_string_array(i)
          [] peek(i) \in Path -> slurp(i)
          [] OTHER -> advance_or_err(i, {"systemd"}))

parse_cmd(i) ==
    One(CASE AtEnd(i) -> Fail(i) [] peek(i) = "[" -> parse_string_array(i) [] OTHER -> slurp(i))

parse_volume(i) ==
    One(CASE AtEnd(i) -> Fail(i)
          [] peek(i) = "[" -> parse_string_array(i)
          [] OTHER -> LET odd == {j \in i..(LineEnd(i) - 1) : toks[j] \notin Ident \cup Quoted}
                      IN  IF odd = {} THEN slurp(i) ELSE Fail(Min(odd)))

(* The protocol is a word of its own behind the port, and TCP by default.  *)
parse_expose_entry(i) ==
    LET p == advance_or_err(i, Number)
    IN  IF ~p.ok \/ peek(i) # "80" THEN Fail(p.pos)
        ELSE IF peek(p.pos) \in Path THEN Then(p, Proto)
        ELSE [p EXCEPT !.got = Append(@, "/tcp")]
parse_expose(i) ==
    LET list[j \in 1..Len(toks) + 1] ==
            LET q == parse_expose_entry(j)
            IN  IF q.ok /\ peek(q.pos) \in Number
                THEN LET rest == list[q.pos] IN [rest EXCEPT !.got = <<q.got>> \o @]
                ELSE [q EXCEPT !.got = <<@>>]
    IN  expect_newline_after(list[i])

parse_directive(i) ==
    LET kw == peek(i)
        j  == i + 1
    IN  CASE kw \in Unsupported -> [Fail(i) EXCEPT !.errs = 0, !.warns = 1]
          [] kw \notin Keyword -> Fail(i)
          [] kw \in Removed \cup {"AS"} -> Fail(j)
          [] kw \in {"LABEL", "ENV"} -> parse_pairs(j, kw)
          [] kw = "ARG" -> parse_arg(j)
          [] kw = "SHELL" -> parse_shell(j)
          [] kw = "USER" -> parse_user(j)
          [] kw = "WORKDIR" -> parse_workdir(j)
          [] kw = "RUN" -> parse_run(j)
          [] kw \in {"ADD", "COPY"} -> parse_add(j)
          [] kw = "ENTRYPOINT" -> parse_entrypoint(j)
          [] kw = "CMD" -> parse_cmd(j)
          [] kw = "VOLUME" -> parse_volume(j)
          [] kw = "STOPSIGNAL" -> parse_stopsignal(j)
          [] kw = "EXPOSE" -> parse_expose(j)

(* One line may hold several items; they follow each other in the tree.    *)
take_first_queue_rest(kw, items) == [n \in 1..Len(items) |-> <<kw>> \o items[n]]
----------------------------------------------------------------------------
(* The steps of parse_with_warnings.                                       *)

Line(i) == 1 + Cardinality({j \in 1..(i - 1) : j \in DOMAIN toks /\ toks[j] = "nl"})
Report(i, n) == errs' = errs \o [k \in 1..n |-> Line(i)]
Warn(i, n)   == warns' = warns \o [k \in 1..n |-> Line(i)]

too_long ==
    /\ phase = "read" /\ Len(Text(src)) > MAX_SOURCE
    /\ phase' = "done" /\ errs' = <<0>>
    /\ UNCHANGED <<src, toks, pos, globals, stages, stage, lexErrs, warns>>

lex ==
    /\ phase = "read" /\ Len(Text(src)) <= MAX_SOURCE
    /\ LET s == tokenize(Text(src)) IN toks' = s.toks /\ lexErrs' = s.errs
    /\ phase' = "preamble"
    /\ UNCHANGED <<src, pos, globals, stages, stage, errs, warns>>

(* Only ARG may come before the first FROM.                                *)
parse_global_args ==
    /\ phase = "preamble"
    /\ LET i == skip_newlines(pos)
           r == parse_arg(i + 1)
       IN  IF peek(i) = "ARG"
           THEN /\ pos' = (IF r.ok THEN r.pos ELSE recover_to_eol(r.pos))
                /\ globals' = (IF r.ok THEN globals \o take_first_queue_rest("ARG", r.got) ELSE globals)
                /\ Report(i, r.errs) /\ Warn(i, r.warns) /\ UNCHANGED phase
           ELSE /\ pos' = i /\ phase' = "head"
                /\ Report(i, IF peek(i) \in {"FROM", "eof"} THEN 0 ELSE 1)
                /\ UNCHANGED <<globals, warns>>
    /\ UNCHANGED <<src, toks, stages, stage, lexErrs>>

(* FROM <ref> [AS <name>]                                                  *)
StageHead(i) ==
    LET r == validated(advance_or_err(i + 1, Ident), peek(i + 1))
        n == IF r.ok /\ peek(r.pos) = "AS" THEN Then([r EXCEPT !.pos = @ + 1], Ident) ELSE r
    IN  IF peek(i) # "FROM" THEN Fail(i)
        ELSE expect_newline_after(IF n.ok THEN validated(n, Last(n.got)) ELSE n)

parse_stage ==
    /\ phase = "head" /\ pos <= Len(toks)
    /\ LET r == StageHead(pos)
       IN  /\ Report(pos, r.errs)
           /\ IF r.ok
              THEN /\ stage' = [from |-> r.got[1], name |-> IF Len(r.got) = 2 THEN r.got[2] ELSE "",
                                dirs |-> <<>>]
                   /\ pos' = r.pos /\ phase' = "body"
              ELSE /\ pos' = skip_newlines(recover_to_next_stage(r.pos))
                   /\ phase' = IF Len(errs') > MAX_COLLECTED_DIAGNOSTICS THEN "done" ELSE "head"
                   /\ UNCHANGED stage
    /\ UNCHANGED <<src, toks, globals, stages, lexErrs, warns>>

InStage(i) == peek(i) \notin {"eof", "FROM"}
Directive ==
    LET i == skip_newlines(pos)
        r == parse_directive(i)
    IN  /\ InStage(i)
        /\ stage' = (IF r.ok THEN [stage EXCEPT !.dirs = @ \o take_first_queue_rest(peek(i), r.got)] ELSE stage)
        /\ pos' = (IF r.ok THEN r.pos ELSE recover_to_eol(r.pos))
        /\ Report(i, r.errs) /\ Warn(i, r.warns)
        /\ UNCHANGED <<src, toks, globals, stages, lexErrs>>
body_stepUncapped == phase = "body" /\ Directive /\ UNCHANGED phase
body_step ==
    /\ phase = "body" /\ Directive
    /\ phase' = IF Len(errs') > MAX_COLLECTED_DIAGNOSTICS THEN "stop" ELSE "body"

stage_end ==
    /\ phase = "stop" \/ (phase = "body" /\ ~InStage(skip_newlines(pos)))
    /\ stages' = Append(stages, stage) /\ stage' = NoStage /\ pos' = skip_newlines(pos)
    /\ phase' = IF Len(errs) > MAX_COLLECTED_DIAGNOSTICS THEN "done" ELSE "head"
    /\ UNCHANGED <<src, toks, globals, lexErrs, errs, warns>>

parse_end ==
    /\ phase = "head" /\ pos > Len(toks)
    /\ phase' = IF errs = <<>> THEN "validate" ELSE "done"
    /\ UNCHANGED <<src, toks, pos, globals, stages, stage, lexErrs, errs, warns>>

(* The validator: stages have names of their own, and a stage has one      *)
(* ENTRYPOINT.                                                             *)
Redeclared == {k \in DOMAIN stages : stages[k].name # ""
                                     /\ \E j \in 1..(k - 1) : stages[j].name = stages[k].name}
Again == {<<s, k>> \in (DOMAIN stages) \X (1..Len(toks)) :
            LET d == stages[s].dirs
            IN  k <= Len(d) /\ d[k][1] = "ENTRYPOINT" /\ \E j \in 1..(k - 1) : d[j][1] = "ENTRYPOINT"}
validate ==
    /\ phase = "validate" /\ phase' = "done"
    /\ errs' = [k \in 1..Cardinality(Redeclared) + Cardinality(Again) |-> 0]
    /\ UNCHANGED <<src, toks, pos, globals, stages, stage, lexErrs, warns>>

(* A deadlock elsewhere is a parser that is stuck.                         *)
returned == phase = "done" /\ UNCHANGED vars

Next == \/ too_long \/ lex \/ parse_global_args \/ parse_stage \/ body_step
        \/ stage_end \/ parse_end \/ validate \/ returned
Spec == Init /\ [][Next]_vars

Accepted == phase = "done" /\ errs = <<>> /\ lexErrs = 0
----------------------------------------------------------------------------
(* The same recipe read line by line, without a position.                  *)

(* Physical lines become logical ones.  Only the directive a line begins   *)
(* with decides whether a comment sign is one; a line with a quote that is *)
(* not in a comment goes on to the line with the next quote, and what is   *)
(* between is one word.                                                    *)
Join(acc, l) ==
    LET head  == IF acc.cur # <<>> THEN acc.cur[1] ELSE IF l # <<>> THEN l[1] ELSE ""
        signs == {k \in DOMAIN l : l[k] = "hash"}
        first == IF signs # {} /\ head \notin Payload THEN Min(signs) ELSE Len(l) + 1
        quote == {k \in 1..(first - 1) : l[k] = "quote"}
        stops == quote \cup {first}
        kept  == SelectSeq([k \in 1..(Min(stops) - 1) |-> IF l[k] = "hash" THEN "#" ELSE l[k]],
                           LAMBDA p : p # "cont")
        whole == acc.cur \o kept
    IN  CASE quote # {} -> [acc EXCEPT !.cur = whole, !.open = TRUE]
          [] quote = {} /\ first > Len(l) /\ l # <<>> /\ Last(l) = "cont" -> [acc EXCEPT !.cur = whole]
          [] OTHER -> [acc EXCEPT !.lines = Append(@, whole), !.cur = <<>>]
Close(acc, l) ==
    LET quote == {k \in DOMAIN l : l[k] = "quote"}
    IN  IF quote = {} THEN acc
        ELSE Join([acc EXCEPT !.cur = Append(@, "text"), !.open = FALSE], SubSeq(l, Min(quote) + 1, Len(l)))
Joined == FoldLeft(LAMBDA acc, l : IF acc.open THEN Close(acc, l) ELSE Join(acc, l),
                   [lines |-> <<>>, cur |-> <<>>, open |-> FALSE], src)
LogicalLines == Append(Joined.lines, Joined.cur)

Segments(b, starts) ==
    LET at(n) == CHOOSE k \in starts : Cardinality({j \in starts : j < k}) = n - 1
        last  == Cardinality(starts)
    IN  [n \in 1..last |-> SubSeq(b, at(n), IF n < last THEN at(n + 1) - 1 ELSE Len(b))]
Starts(b, S)  == {k \in DOMAIN b : b[k] \in S}
Keys(b)       == {k \in DOMAIN b : k < Len(b) /\ b[k + 1] = "="}
Without(b, o) == LET rest == {k \in DOMAIN b : b[k] # o}
                 IN  IF rest = {} THEN <<>> ELSE SubSeq(b, Min(rest), Len(b))

IsPair(x) ==
    /\ Len(x) >= 3 /\ x[1] \in Ident \cup Keyword /\ x[2] = "=" /\ x[3] \in Values
    /\ \A k \in 4..Len(x) : x[k] \in Touching /\ x[3] \notin Quoted
    /\ Range(x) \cap Bad = {}
IsArray(b) ==
    /\ Len(b) >= 3 /\ Len(b) % 2 = 1 /\ b[1] = "[" /\ Last(b) = "]"
    /\ \A k \in 2..(Len(b) - 1) : IF k % 2 = 0 THEN b[k] \in Quoted ELSE b[k] = ","

Readable(l) ==
    LET h == l[1]
        b == Tail(l)
        c == Without(b, IF h = "RUN" THEN "--mount" ELSE "--from")
    IN  CASE h = "FROM" -> /\ Len(b) \in {1, 3} /\ b[1] \in Ident \ Bad
                           /\ Len(b) = 3 => b[2] = "AS" /\ b[3] \in Ident \ Bad
          [] h \in {"ENV", "LABEL"} -> /\ 1 \in Keys(b)
                                       /\ \A x \in Range(Segments(b, Keys(b))) :
                                            IsPair(x) /\ (h = "LABEL" => x[1] \notin Keyword)
          [] h = "ARG" -> b # <<>> /\ (IsPair(b) \/ (Len(b) = 1 /\ b[1] \in (Ident \cup Keyword) \ Bad))
          [] h = "SHELL" -> IsArray(b) \/ b = <<"bash">>
          [] h \in {"USER", "WORKDIR"} -> Len(b) = 1 /\ b[1] \in Ident \ Bad
          [] h = "STOPSIGNAL" -> Len(b) = 1 /\ b[1] \in Ident \cup Number
          [] h = "RUN" -> c # <<>> /\ c[1] \notin Option /\ (c[1] = "[" => IsArray(c))
          [] h \in {"ADD", "COPY"} -> /\ Len(c) = 2 /\ c[1] \in (Ident \cup Quoted) \ {"bad:1"}
                                      /\ c[2] \in (Ident \cup Quoted) \ Bad
          [] h = "ENTRYPOINT" -> IsArray(b) \/ b = <<"systemd">> \/ (b # <<>> /\ b[1] \in Path)
          [] h = "CMD" -> b # <<>> /\ (b[1] = "[" => IsArray(b))
          [] h = "VOLUME" -> b # <<>> /\ (IsArray(b) \/ Range(b) \subseteq Ident \cup Quoted)
          [] h = "EXPOSE" -> /\ b # <<>> /\ b[1] \in Number /\ Range(b) \cap {"65536", "2^64"} = {}
                             /\ \A x \in Range(Segments(b, Starts(b, Number))) :
                                  Len(x) = 1 \/ (Len(x) = 2 /\ x[2] \in Proto)
          [] OTHER -> h \in Unsupported

Items(l) ==
    LET h == l[1]
        b == Tail(l)
        c == Without(b, IF h = "RUN" THEN "--mount" ELSE "--from")
        plain == IF IsArray(c) THEN SelectSeq(c, LAMBDA p : p \in Quoted) ELSE c
    IN  CASE h \in {"ENV", "LABEL"} -> Segments(b, Keys(b))
          [] h = "EXPOSE" -> [n \in 1..Cardinality(Starts(b, Number)) |->
                                LET x == Segments(b, Starts(b, Number))[n] IN <<x[1], IF Len(x) = 2 THEN x[2] ELSE "/tcp">>]
          [] h \in {"ADD", "COPY"} -> <<<<AddSource(c[1])>> \o c>>
          [] h \in Unsupported -> <<>>
          [] OTHER -> <<plain>>

Filled   == SelectSeq(LogicalLines, LAMBDA l : l # <<>>)
FromAt   == {k \in DOMAIN Filled : Filled[k][1] = "FROM"}
Before   == IF FromAt = {} THEN Len(Filled) ELSE Min(FromAt) - 1
Read(ls) == FoldLeft(LAMBDA d, l : d \o [n \in 1..Len(Items(l)) |-> <<l[1]>> \o Items(l)[n]], <<>>, ls)
Stages   == LET s == Segments(Filled, FromAt)
            IN  [n \in 1..Len(s) |-> [from |-> s[n][1][2], name |-> IF Len(s[n][1]) = 4 THEN s[n][1][4] ELSE "",
                                      dirs |-> Read(Tail(s[n]))]]

Clean == ~Joined.open /\ \A l \in Range(LogicalLines) : Range(l) \cap {"byte", "2^64"} = {}
Sound ==
    /\ \A k \in DOMAIN Filled : Readable(Filled[k]) /\ (k <= Before => Filled[k][1] = "ARG")
    /\ \A i, j \in DOMAIN Stages : i < j /\ Stages[i].name # "" => Stages[i].name # Stages[j].name
    /\ \A s \in Range(Stages) : Cardinality({k \in DOMAIN s.dirs : s.dirs[k][1] = "ENTRYPOINT"}) <= 1

(* A keyword that names a variable is in doubt in two places: as a key     *)
(* that is not its line's first, and before a comment.                     *)
Named(l) == l # <<>> /\ \E k \in Keys(l) : l[k] \in Keyword /\ (k > 2 \/ (l[k] \in Payload /\ "hash" \in Range(l)))
Plain == \A l \in Range(src) : ~Named(l)
----------------------------------------------------------------------------
TypeOK ==
    /\ phase \in {"read", "preamble", "head", "body", "stop", "validate", "done"}
    /\ Range(toks) \subseteq (Piece \ Lexical) \cup {"nl"} /\ pos \in 1..(Len(toks) + 1)
    /\ \A s \in Range(stages) : s.from \in Ident /\ s.name \in Ident \cup {""}
    /\ lexErrs \in 0..(MAX_COLLECTED_DIAGNOSTICS + 1) /\ Range(errs) \cup Range(warns) \subseteq Nat

(* The parser accepts exactly the recipes each of whose lines can be read  *)
(* and whose stages are in order: recovery, look-ahead and the multi-item  *)
(* lines neither lose an error nor invent one.  Of a recipe without FROM   *)
(* this says nothing: parse_global_args leaves it to the stage loop to     *)
(* report that, and the stage loop has nothing to do.                      *)
Agrees ==
    phase = "done" /\ Plain /\ Len(Text(src)) <= MAX_SOURCE /\ FromAt # {} =>
        (Accepted <=> Clean /\ Sound)

(* The tree of an accepted recipe has every item of every line, in the     *)
(* order of the text, under the stage it was written in: a comment sign in *)
(* a payload, a continued line, a touching word or a second pair are kept. *)
TreeIsText ==
    Accepted => /\ stages = Stages
                /\ globals = Read(SubSeq(Filled, 1, Before))

(* The first error is about the first line that is wrong: all before it    *)
(* can be read, and it cannot, or it is no ARG and there is no FROM yet.   *)
FirstErrorFirst ==
    phase = "done" /\ Plain /\ Clean /\ errs # <<>> /\ errs[1] > 0 =>
        LET l == LogicalLines
            k == errs[1]
            early(j) == l[j][1] # "ARG" /\ \A i \in 1..j : l[i] = <<>> \/ l[i][1] # "FROM"
        IN  /\ k \in DOMAIN l /\ l[k] # <<>> /\ (~Readable(l[k]) \/ early(k))
            /\ \A j \in 1..(k - 1) : l[j] = <<>> \/ (Readable(l[j]) /\ ~early(j))

(* A recipe that is nothing but errors is given up on at the limit: one    *)
(* stage's head and one directive past it, an error and two at most, are   *)
(* the last that are read, over however many stages (parse_top and         *)
(* parse_stage).  Only the ARGs above the first FROM are read to their     *)
(* end, whatever is wrong with them.                                       *)
Above == LET l == LogicalLines
             others == {k \in DOMAIN l : l[k] # <<>> /\ l[k][1] # "ARG"}
         IN  {n \in DOMAIN errs : \A k \in others : errs[n] < k}
ErrorsCapped ==
    Clean /\ 0 \notin Range(errs) =>
        Len(errs) <= Max({MAX_COLLECTED_DIAGNOSTICS, Cardinality(Above)}) + 3

(* The state of the parser: well typed, its errors capped and in order.    *)
ParserInv == TypeOK /\ ErrorsCapped /\ FirstErrorFirst

(* Whatever the text, the parser comes to an end: every step consumes a    *)
(* token, or is a later kind of step at the same token.  With no step      *)
(* missing (deadlock) no recovery can loop (parse_top, parse_stage).       *)
Rank(p) == CHOOSE n \in 1..7 : <<"read", "preamble", "body", "stop", "head", "validate", "done">>[n] = p
ParseAdvances == [][pos' > pos \/ (pos' = pos /\ Rank(phase') > Rank(phase))]_vars
==============================================================================
