---------------------------- MODULE MCOpenArtLine ----------------------------
(* An array of three places and lines of up to four bytes: empty lines,    *)
(* lines that fit, that fill the array and that are too long, with the     *)
(* newlines between some of them lost.                                     *)
EXTENDS OpenArtLine
=============================================================================
