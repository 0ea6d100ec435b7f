----------------------------- MODULE MCTransfer -----------------------------
(***************************************************************************)
(* Transfer with packets of 5 bytes, and bytes of 3 values in an index: a  *)
(* packet carries two bytes of a file with an index of one byte, for files *)
(* of up to 5 bytes, and one byte with an index of two.  The bytes of a    *)
(* file are numbered, so that none can stand for another.                  *)
(***************************************************************************)
EXTENDS Transfer

FilesOf(lengths) == {[i \in 1 .. n |-> i] : n \in lengths}

MCFiles == FilesOf({2, 5, 7})
=============================================================================
