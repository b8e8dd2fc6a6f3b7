---------------------------- MODULE DecryptedView ----------------------------
(***************************************************************************)
(* What a BitlockerStream promises its callers: a read is one step that    *)
(* returns a prefix of the decrypted view at the requested place. No       *)
(* buffers, no loop, no pool.                                              *)
(***************************************************************************)
EXTENDS StreamLayout

CONSTANTS Clients, Owner, Offsets, Lengths, MaxOffset, SourceFaults

VARIABLES
  passthrough, \* the volume is decrypted: chosen once, never changed
  cursor,   \* where the next Read starts
  open,     \* Close has not been called (FALSE for a decrypted volume)
  phase,    \* phase[c]: "idle", "busy", "done" or "crashed"
  req,      \* req[c]: the call's [op, off, len]
  rep       \* rep[c]: its [n, data, err]

vars == <<passthrough, cursor, open, phase, req, rep>>

NoRequest == [op |-> "ReadAt", off |-> 0, len |-> 0]
NoReply == [n |-> 0, data |-> [x \in 0..(0 - 1) |-> Junk], err |-> "nil"]

Init ==
  /\ cursor = 0
  /\ passthrough \in BOOLEAN
  /\ open = ~passthrough
  /\ phase = [c \in Clients |-> "idle"]
  /\ req = [c \in Clients |-> NoRequest]
  /\ rep = [c \in Clients |-> NoReply]

Request(c, o, at, l) ==
  /\ phase[c] = "idle"
  /\ phase' = [phase EXCEPT ![c] = "busy"]
  /\ req' = [req EXCEPT ![c] = [op |-> o, off |-> at, len |-> l]]
  /\ UNCHANGED <<passthrough, cursor, open, rep>>

(***************************************************************************)
(* How much a read of l units at offset at may return, with which error:   *)
(* everything, everything up to the end of the view, nothing with io.EOF   *)
(* at the end or at a negative offset, less when the source fails or the   *)
(* stream is closed.                                                       *)
(***************************************************************************)
Permitted(at, l, k, e) ==
  \/ e = "nil" /\ k = l
  \/ e = "nil" /\ 0 < k /\ k < l /\ ~Available(at + k, passthrough)
  \/ e = "eof" /\ k = 0 /\ k < l /\ (at < 0 \/ ~Available(at, passthrough))
  \/ e = "io" /\ k < l /\ (SourceFaults \/ (at < 0 /\ k = 0))
  \/ e = "uninitialized" /\ k < l /\ ~open

Respond(c) ==
  /\ phase[c] = "busy"
  /\ \E k \in 0..req[c].len, e \in {"nil", "eof", "io", "uninitialized"} :
       /\ Permitted(req[c].off, req[c].len, k, e)
       /\ rep' = [rep EXCEPT ![c] =
                    [n |-> k, data |-> [x \in 0..(k - 1) |-> View(req[c].off + x, passthrough)], err |-> e]]
       /\ cursor' = IF req[c].op = "Read" /\ k > 0 THEN cursor + k ELSE cursor
  /\ phase' = [phase EXCEPT ![c] = "done"]
  /\ UNCHANGED <<passthrough, open, req>>

Crash(c) ==
  /\ phase[c] = "busy"
  /\ ~open \/ req[c].off < 0
  /\ phase' = [phase EXCEPT ![c] = "crashed"]
  /\ UNCHANGED <<passthrough, cursor, open, req, rep>>

Collect(c) ==
  /\ phase[c] = "done"
  /\ phase' = [phase EXCEPT ![c] = "idle"]
  /\ req' = [req EXCEPT ![c] = NoRequest]
  /\ rep' = [rep EXCEPT ![c] = NoReply]
  /\ UNCHANGED <<passthrough, cursor, open>>

(* Only the owner moves the cursor, between its own calls. *)
Seek ==
  /\ phase[Owner] = "idle"
  /\ \E o \in Offsets : cursor' \in {o, cursor + o} /\ cursor' \in 0..MaxOffset
  /\ UNCHANGED <<passthrough, open, phase, req, rep>>

Close ==
  /\ phase[Owner] = "idle"
  /\ open' = FALSE
  /\ UNCHANGED <<passthrough, cursor, phase, req, rep>>

Next ==
  \/ \E c \in Clients :
       \/ \E at \in Offsets, l \in Lengths : Request(c, "ReadAt", at, l)
       \/ c = Owner /\ \E l \in Lengths : Request(c, "Read", cursor, l)
       \/ Respond(c) \/ Crash(c) \/ Collect(c)
  \/ Seek
  \/ Close

Spec == Init /\ [][Next]_vars
=============================================================================
