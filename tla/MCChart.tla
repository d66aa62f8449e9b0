-------------------------------- MODULE MCChart --------------------------------
(* ChartPanel with chars of three bits, so that the longest name has three  *)
(* and a text of eight needs both bytes of its length.  One name begins     *)
(* with another one.                                                        *)
EXTENDS ChartPanel

MCMe == <<7>>
MCNames == {<<1>>, <<1, 2, 1>>}
MCTexts == {<<>>, <<3, 1, 7, 5, 5, 2, 6, 4>>}
=============================================================================
