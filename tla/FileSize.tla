------------------------------ MODULE FileSize ------------------------------
(* The parameter of FileService, with what its proofs assume of it.        *)
EXTENDS Naturals

CONSTANTS Size          \* chunks of CHUNK_SIZE in the file

ASSUME SizeAssumption == Size \in Nat
=============================================================================
