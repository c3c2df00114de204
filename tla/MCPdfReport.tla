----------------------------- MODULE MCPdfReport ------------------------------
(***************************************************************************)
(* Answers of up to two sections over three images: a tall one, a phone    *)
(* photograph stored on its side, and a small one.                         *)
(***************************************************************************)
EXTENDS PdfReport

CONSTANTS tall, photo, small

MCImages == <<tall, photo, small>>
MCSource == [a \in {tall, photo, small} |->
    CASE a = tall  -> [width |-> 200, height |-> 2000, orientation |-> 1]
      [] a = photo -> [width |-> 4000, height |-> 3000, orientation |-> 6]
      [] a = small -> [width |-> 100, height |-> 90, orientation |-> 0]]
MCBytes == [a \in {tall, photo, small} |-> IF a = photo THEN 2 ELSE 1]

Short == <<[first |-> 1, lines |-> 1]>>
Long == <<[first |-> 5, lines |-> 14], [first |-> 1, lines |-> 47]>>
\* One alias is unknown, one list repeats an image, one is a full gallery.
Refs == {<< >>, <<2>>, <<1, 3>>, <<3, 3, 2>>, <<2, 1, 3>>, <<4>>}
MCSections ==
    [kind : Kinds, titleLines : {1}, blocks : {Short}, refs : {<< >>, <<2>>}]
    \cup [kind : {"other"}, titleLines : {1, 2}, blocks : {Short, Long}, refs : Refs]
\* The summary decides where on the page the sections begin.
MCClosings ==
    [summary : {2} \cup 20..36, conclusion : {0, 3}, recommendations : {0, 6}]

=============================================================================
