------------------------------- MODULE MCBus -------------------------------
(* The bus with 4 addresses and two controllers.  Some regions the owner   *)
(* asks for are equal or apart, as those of main; others are nested, in    *)
(* either order, or overlap.                                               *)
EXTENDS Bus

MCRegions == {<<0, 1>>, <<1, 1>>, <<1, 2>>, <<3, 3>>}
=============================================================================
