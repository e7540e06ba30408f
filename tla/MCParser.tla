------------------------------ MODULE MCParser ------------------------------
(* Parser with the nesting limit of the code.                              *)
EXTENDS Parser

LengthsUpTo2 == 0 .. 2

\* A streamed string has a level left, or it may be begun at the last one.
BelowTheLimit == 0 .. 4
UpToTheLimit == 0 .. 5
=============================================================================
