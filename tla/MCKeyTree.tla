----------------------------- MODULE MCKeyTree -------------------------------
(* Keys of up to three of the bytes 9, A, a and g, two of them one digit;  *)
(* one byte more than the tree is deep.                                    *)
EXTENDS KeyTree
CONSTANTS d1, d2
Bytes == {57, 65, 97, 103}
ShortKeys == UNION {[1..n -> Bytes] : n \in 0..3}
TwoData == {d1, d2}
NoneOrAll == {0, 3}
=============================================================================
