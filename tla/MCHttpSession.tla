--------------------------- MODULE MCHttpSession ---------------------------
(* Two clients, one with a request in two pieces and one with a request     *)
(* the server refuses; the first one's numbers wrap around.                 *)
EXTENDS HttpSession

MCIsn == [c \in Clients |-> IF c = 1025 THEN 14 ELSE 5]
MCPieces == [c \in Clients |->
               IF c = 1025 THEN << <<"GET", "sp", "VER">>, <<"sp", "VER">> >>
                           ELSE << <<"VER", "sp">> >>]
=============================================================================
