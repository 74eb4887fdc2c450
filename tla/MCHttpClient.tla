---------------------------- MODULE MCHttpClient ----------------------------
(* An instance of HttpClient for TLC: every framing; bodies that look like *)
(* delimiters; more interim responses, and a larger body, than allowed.    *)
EXTENDS HttpClient, SequencesExt

Res(i, f, parts, trailer) ==
  LET whole == FlattenSeq(parts)
      chunk(c) == <<Size(Len(parts[c])), CR, LF>> \o parts[c] \o CRLF
      chunks == FlattenSeq([c \in DOMAIN parts |-> chunk(c)]) \o <<Size(0), CR, LF>>
      heads == FlattenSeq([k \in 1 .. i |-> <<Block("interim", 0)>> \o Blank])
      final == Final([framing |-> f, body |-> whole])
  IN
  [interim |-> i, framing |-> f, body |-> whole, trailer |-> trailer,
   cut  |-> [c \in 1 .. Len(parts) + 1 |-> Len(FlattenSeq(SubSeq(parts, 1, c - 1)))],
   wire |-> heads \o <<final>> \o Blank \o
            (IF f # "chunked" THEN whole
             ELSE chunks \o (IF trailer THEN <<Trailer>> \o CRLF ELSE <<>>) \o CRLF)]

MCResponses ==
  { Res(1, "length", <<<<X, CR>>>>, FALSE), Res(0, "length", <<<<CR, LF, X>>>>, FALSE),
    Res(0, "length", <<<<X, X, X, X>>>>, FALSE), Res(0, "length", <<>>, FALSE),
    Res(1, "chunked", <<<<CR, LF>>, <<X>>>>, FALSE),
    Res(0, "chunked", <<<<LF>>>>, TRUE),
    Res(0, "chunked", <<<<X, X, X, X>>>>, FALSE),
    Res(0, "close", <<<<X, LF, X>>>>, FALSE), Res(0, "close", <<<<X, X, X, X, X>>>>, FALSE),
    Res(1, "bodyless", <<>>, FALSE), Res(0, "invalid", <<<<X>>>>, FALSE),
    Res(0, "garbled", <<<<X, CR, LF>>>>, FALSE),
    Res(0, "garbled", <<<<X, X, X, X, X, X, X, X, X, CR, LF>>>>, FALSE),
    Res(2, "length", <<<<X>>>>, FALSE) }

=============================================================================
