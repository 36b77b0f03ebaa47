-------------------------- MODULE CompletionQueue --------------------------
(***************************************************************************)
(* What the completion ring promises Serve: completions wait in the order  *)
(* the kernel posts them, a batch is everything that waits at the moment   *)
(* it is begun, and it is handed over whole.  NetworkServer takes its      *)
(* batches this way.  CompletionRing is shown to implement it while the    *)
(* ring has never been full.                                               *)
(***************************************************************************)
EXTENDS Integers, Sequences

VARIABLES posted,    \* how many completions there have been
          queue,     \* those that wait
          batch,     \* the batch that is being taken
          returned   \* the batches handed over, one after the other

Init == posted = 0 /\ queue = << >> /\ batch = << >> /\ returned = << >>

Post == /\ posted' = posted + 1
        /\ queue' = Append(queue, posted')
        /\ UNCHANGED <<batch, returned>>

TakeAll == /\ batch = << >> /\ queue # << >>
           /\ batch' = queue /\ queue' = << >>
           /\ UNCHANGED <<posted, returned>>

HandOver == /\ batch # << >>
            /\ returned' = returned \o batch /\ batch' = << >>
            /\ UNCHANGED <<posted, queue>>

Next == Post \/ TakeAll \/ HandOver

vars == <<posted, queue, batch, returned>>

Spec == Init /\ [][Next]_vars
=============================================================================
