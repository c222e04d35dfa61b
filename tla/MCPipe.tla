------------------------------- MODULE MCPipe -------------------------------
(* Readers are interchangeable, and so are writers.                         *)
EXTENDS Pipe, TLC

Symmetry == Permutations(Reader) \cup Permutations(Writer)
=============================================================================
