--------------------------- MODULE MCFileTransfer ---------------------------
(***************************************************************************)
(* TLC instance of FileTransfer: an empty file, and one that begins with a *)
(* line end, so that three of them follow the fields of its header.        *)
(***************************************************************************)
EXTENDS FileTransfer

MCContents == {<< >>, <<NL, Byte>>}
=============================================================================
