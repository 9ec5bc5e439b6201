--------------------------- MODULE MCAttachments ----------------------------
(* Attachments with the timeouts of the code.                              *)
EXTENDS Attachments, TLC

(* Uploads called a.jpg and uploads called "a (2).jpg".                    *)
MCBase == {<<"a">>, <<"a", 2>>}
=============================================================================
