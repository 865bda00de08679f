------------------------------- MODULE MCHost -------------------------------
(* Constants of Host for TLC.                                              *)
EXTENDS Host

\* No data; data that leaves two, one and no places of a group of letters;
\* a zero inside; and "QWxh+/A=", whose second group is not in base64.c's letters.
MCPayloads == {<<>>, <<66>>, <<65, 0>>, <<65, 108, 97>>, <<65, 108, 97, 251, 240>>}
=============================================================================
