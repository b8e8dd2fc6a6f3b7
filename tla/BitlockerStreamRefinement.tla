---------------------- MODULE BitlockerStreamRefinement ----------------------
(***************************************************************************)
(* BitlockerStream implements DecryptedView: everything between the call   *)
(* and Return is invisible, Return is the response.                        *)
(***************************************************************************)
EXTENDS BitlockerStream

phaseBar ==
  [c \in Clients |-> CASE pc[c] = "idle"  -> "idle"
                       [] pc[c] = "done"  -> "done"
                       [] pc[c] = "panic" -> "crashed"
                       [] OTHER           -> "busy"]

reqBar == [c \in Clients |-> [op |-> op[c], off |-> off[c], len |-> len[c]]]

repBar ==
  [c \in Clients |->
     LET k == IF pc[c] = "done" THEN n[c] ELSE 0
     IN  [n |-> k, data |-> [x \in 0..(k - 1) |-> dst[c][x]],
          err |-> IF pc[c] = "done" THEN err[c] ELSE "nil"]]

DV == INSTANCE DecryptedView WITH
        cursor <- offset, open <- cipherSet,
        phase <- phaseBar, req <- reqBar, rep <- repBar

(***************************************************************************)
(* Every behaviour of the stream, with all its interleavings, is one that  *)
(* the one-step reads of DecryptedView allow.                              *)
(***************************************************************************)
ImplementsView == DV!Spec
=============================================================================
