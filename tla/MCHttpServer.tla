---------------------------- MODULE MCHttpServer ---------------------------
(* HttpServer for TLC: user ids with a dot and with a blank. *)
EXTENDS HttpServer

A == Piece("a")
MCWords == {A, Dot, Blank}
MCUserIds == {<<A, Dot, A>>, <<A, Blank, A>>}
============================================================================
