---------------------------- MODULE MCHttpServer ----------------------------
(* An instance of HttpServer for TLC: requests with and without a body, a  *)
(* body that looks like lines, and every reason to refuse a request; and a *)
(* second fiber that serves the same file.                                 *)
EXTENDS HttpServer, SequencesExt
CONSTANTS w, w2, p1

Req(n, body, target) ==
  [headers |-> n, body |-> body, bad |-> FALSE, close |-> FALSE, target |-> target]

Client(reqs) ==
  LET tokens(n) == FlattenSeq([i \in 1 .. n |->
                     [j \in 1 .. Size(reqs[i]) |-> Token(reqs[i], i, j)]]) IN
  [reqs   |-> reqs,
   at     |-> [i \in 1 .. Len(reqs) + 1 |-> Len(tokens(i - 1))],
   stream |-> tokens(Len(reqs))]

MCFibers == {w, w2}
MCPaths  == {p1}
MCClients ==
  { Client(<<Req(0, <<"line">>, p1), Req(0, <<>>, "function"), Req(0, <<>>, p1)>>),
    Client(<<Req(1, <<>>, "function"), Req(0, <<"byte", "line">>, "function")>>),
    Client(<<[Req(0, <<>>, p1) EXCEPT !.close = TRUE], Req(0, <<>>, "missing")>>),
    Client(<<Req(0, <<>>, "missing"), Req(0, <<>>, p1)>>),
    Client(<<[Req(0, <<"line">>, p1) EXCEPT !.bad = TRUE]>>),
    Client(<<Req(0, <<"byte", "byte", "byte">>, "function")>>),
    Client(<<Req(3, <<>>, "function")>>) }

=============================================================================
