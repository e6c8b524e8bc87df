------------------------------ MODULE MCBatch ------------------------------
(* Batch with up to four items, one of them possibly malformed.            *)
EXTENDS Batch

MaxItems == 4
MaxConcurrency == 3

MCItems ==
  {[i \in 1..n |-> i # bad] : n \in 0..MaxItems, bad \in 0..MaxItems}

MCBatches ==
  [items : MCItems, concurrency : 0..MaxConcurrency, return_exceptions : BOOLEAN]

=============================================================================
