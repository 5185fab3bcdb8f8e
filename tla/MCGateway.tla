------------------------------ MODULE MCGateway ------------------------------
(* Answers with repeated, distinct and common beginnings. *)
EXTENDS Gateway

ModelAnswers == {<<1, 1, 2>>, <<1, 2, 1>>, <<1, 2>>}
=============================================================================
