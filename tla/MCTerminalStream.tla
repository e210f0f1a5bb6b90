-------------------------- MODULE MCTerminalStream --------------------------
(* Bounds for TerminalStream: chunks that stay on the screen, switch it, and *)
(* cut an escape sequence in two.                                            *)
EXTENDS TerminalStream

MCChunks == {<<"text">>, <<"enter", "text">>, <<"text", "half">>, <<"rest">>,
             <<"rest", "half">>, <<"exitRest", "text">>}
=============================================================================
