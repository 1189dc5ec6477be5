---------------------------- MODULE MCBlobLocker ----------------------------
(* Model-checking instance of the blob locks.  Tasks are interchangeable.    *)
EXTENDS BlobLocker, TLC

TaskSymmetry == Permutations(Task)
=============================================================================
