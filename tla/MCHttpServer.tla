---------------------------- MODULE MCHttpServer ----------------------------
(* A request that matches exactly and whose body holds an empty line, one    *)
(* that matches wildcards by a prefix that is no segment, and request lines  *)
(* of two and of four parts; every way to send two of them in three reads.   *)
EXTENDS HttpServer

Version == <<SP, "HTTP/1.1">>

MCRequests ==
  {[method |-> <<"POST">>, path |-> <<"/echo">>, rest |-> Version, body |-> <<CRLF, CRLF, "x">>],
   [method |-> <<"GET">>, path |-> <<"/media", "tor">>, rest |-> Version, body |-> << >>],
   [method |-> <<"GET">>, path |-> <<"/">>, rest |-> << >>, body |-> << >>],
   [method |-> <<"GET">>, path |-> <<"/">>, rest |-> Version \o <<SP, "x">>, body |-> << >>]}

MCPipelines == {<< >>, <<"parser", "responder">>, <<"responder", "parser">>}

\* A second wildcard for a path one has already, whose handler returns an error,
\* and a route put in the place of another, whose handler returns nothing.
MCLateRoutes ==
  {[method |-> <<"GET">>, pattern |-> <<"/media", "tor", "/*">>, handler |-> "broken"],
   [method |-> <<"POST">>, pattern |-> <<"/echo">>, handler |-> "silent"]}

\* What Split and JoinFrom say of a text in one go, part by part.
SplitInTurn(s, sep) ==
  FoldLeft(LAMBDA parts, x : IF x = sep THEN Append(parts, << >>)
                             ELSE Append(Front(parts), Append(Last(parts), x)),
           << << >> >>, s)

JoinInTurn(parts, sep) ==
  FoldLeft(LAMBDA s, part : s \o <<sep>> \o part, Head(parts), Tail(parts))

Texts == UNION {[1..n -> {CRLF, SP, "x"}] : n \in 0..5}

ASSUME PartsInTurn ==
  \A s \in Texts : \A sep \in {CRLF, SP} :
    /\ Split(s, sep) = SplitInTurn(s, sep)
    /\ \A k \in 1..Len(Split(s, sep)) :
         JoinFrom(s, sep, k) = JoinInTurn(SubSeq(Split(s, sep), k, Len(Split(s, sep))), sep)
=============================================================================
