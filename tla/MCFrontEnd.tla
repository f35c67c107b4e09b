------------------------------ MODULE MCFrontEnd ------------------------------
(* Recipes of up to three lines from a set in which every directive is     *)
(* well formed once and wrong in the ways that matter, after a FROM or     *)
(* not; longer ones of few kinds of line, for the limit on errors; and     *)
(* strings that span lines of every kind.                                  *)
EXTENDS FrontEnd

Heads == {<<"FROM", "a">>, <<"FROM", "img:1", "AS", "b">>, <<"FROM", "scratch", "hash", "a">>, <<"FROM">>,
          <<"FROM", "bad:1">>, <<"FROM", "a", "b">>, <<"ARG", "TOKEN">>, <<"ARG", "a", "=", "80", ".0">>, <<"ARG">>}
Bodies ==
    {<<>>, <<"ENV", "a", "=", "80", ".0", "b", "=", "str">>, <<"ENV", "USER", "=", "a", "hash", "b">>,
     <<"ENV", "a", "=", "bad", "=">>, <<"LABEL", "a", "=", "b">>, <<"LABEL", "RUN", "=", "a">>,
     <<"ARG", "bad">>, <<"ARG", "a", "=", "bad">>, <<"SHELL", "[", "str", ",", "str", "]">>, <<"SHELL", "bash">>,
     <<"SHELL", "a">>, <<"USER", "a">>, <<"USER">>, <<"WORKDIR", "/x">>, <<"STOPSIGNAL", "80">>,
     <<"RUN", "a", "cont">>, <<"RUN", "--mount", "a", "hash", "b">>, <<"RUN", "--opt", "a">>, <<"RUN", "--mount?">>,
     <<"RUN", "[", "str", "]">>, <<"RUN", "[", "]">>, <<"RUN", "--mount">>, <<"RUN", "byte">>, <<"CMD", "quote", "a">>,
     <<"CMD", "a", "=", "b">>, <<"CMD", "[", "str", ",">>, <<"ADD", "--from", "img:1", "/x">>,
     <<"COPY", "--opt", "a", "/x">>, <<"ADD", "https://h", "bad">>, <<"ADD", "bad:1", "/y">>, <<"ADD", "str">>,
     <<"ENTRYPOINT", "systemd">>, <<"ENTRYPOINT", "/x", "a">>, <<"ENTRYPOINT", "b">>, <<"ENTRYPOINT">>,
     <<"VOLUME", "/x", "str">>, <<"VOLUME", "/x", "80">>, <<"EXPOSE", "80", "80", "/udp">>, <<"EXPOSE", "65536">>,
     <<"EXPOSE", "80", "/x">>, <<"MAINTAINER", "a">>, <<"HOSTNAME", "a">>, <<"AS">>, <<"a", "hash", "cont">>,
     <<"ENV", "a", "=", "quote", "hash">>, <<"quote", "hash", "a">>, <<"hash", "quote">>,
     <<"EXPOSE", "2^64">>, <<"ENV", "a", "=", "2^64">>}
Lines == Heads \cup Bodies

Short == {<<>>} \cup {<<l>> : l \in Lines} \cup {<<h, l>> : h \in Heads, l \in Lines}
         \cup {<<h, k, l>> : h \in {<<"FROM", "a">>, <<"ARG", "TOKEN">>, <<"LABEL", "a", "=", "b">>}, k, l \in Lines}
         \cup {<<<<"FROM", "a", "AS", "b">>, k, <<"FROM", "a", "AS", "b">>>> : k \in Lines}
Long  == {<<f>> \o q : f \in {<<"FROM", "a">>, <<"FROM", "a", "b">>, <<"ARG", "bad">>},
                       q \in [1..5 -> {<<"USER", "bad">>, <<"USER", "a">>, <<"FROM", "a", "b">>}]}
Globals == {q \o <<<<"FROM", "a", "b">>, <<"USER", "bad">>>> : q \in [1..4 -> {<<"ARG", "bad">>, <<"ARG", "a">>}]}
Spans == {<<<<"FROM", "a">>, q, k, r>> :
            q \in {<<"CMD", "quote", "a">>, <<"ENV", "a", "=", "quote", "hash">>}, k \in Lines,
            r \in {<<"quote", "hash", "a">>, <<"a", "quote">>, <<"CMD", "quote", "a">>}}
Texts == Short \cup Long \cup Globals \cup Spans
==============================================================================
