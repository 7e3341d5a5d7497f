----------------------------- MODULE MCLibrary -----------------------------
EXTENDS Library

(* NUL, 'a' and 0xe9, a char that is negative as char.                     *)
MCBytes == {0, 97, 233}

W(hi, lo) == [hi |-> hi, lo |-> lo]

(* 0 and 2, also the addresses of strings; 0x161, whose low byte is 'a';  *)
(* INT_MIN; and -1, 0xffffffff.                                            *)
MCWords == {W(0, 0), W(0, 2), W(0, 353), W(32768, 0), W(65535, 65535)}

(* "%d", "%x", "a%s" and "%c%d".                                           *)
MCFormats == {<<37, 100>>, <<37, 120>>, <<97, 37, 115>>, <<37, 99, 37, 100>>}
=============================================================================
