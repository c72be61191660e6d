------------------------------- MODULE Absence -------------------------------
(* What a lookup yields when a file, a row, a field or a reference is not    *)
(* there (Python's None), in the modules that several runs put together.     *)
CONSTANT None

(* A directory is a function from names to contents: a file is written, or  *)
(* some are removed.                                                        *)
With(d, x, content) == [y \in DOMAIN d \cup {x} |-> IF y = x THEN content ELSE d[y]]
Drop(d, S) == [y \in DOMAIN d \ S |-> d[y]]
==============================================================================
