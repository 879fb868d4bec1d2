----------------------------- MODULE MCPasmOutput -----------------------------
(* Two source files, and command lines that ask for each output, for several, *)
(* for a listing only, and wrong ones.                                        *)
EXTENDS PasmOutput

CommandLines == {<<"name", "b", "l">>, <<"name", "L", "d", "name">>, <<"name", "c", "m", "B", "b">>,
                 <<"name", "L">>, <<"name", "b", "D">>, <<"name", "D", "D">>, <<"name", "?">>, <<"b">>,
                 <<"name", "name", "name">>}
=============================================================================
