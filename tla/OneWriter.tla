----------------------------- MODULE OneWriter -----------------------------
(***************************************************************************)
(* What the lease of a store promises (README, "Uma sincronizacao de cada  *)
(* vez por loja"): whoever writes to the Pi is the holder, and the holder  *)
(* does not change while somebody is writing.  So at most one process      *)
(* writes at a time, and the writes of two cycles never interleave: to     *)
(* write again after another has held it, a process opens a new cycle.     *)
(***************************************************************************)
CONSTANTS Owners, Nobody

VARIABLES holder,   \* the process whose cycle may write
          writers   \* the processes with an FTP write under way

vars == <<holder, writers>>

Init == holder = Nobody /\ writers = {}

Open(p) == writers = {} /\ holder' = p /\ UNCHANGED writers

Close == writers = {} /\ holder' = Nobody /\ UNCHANGED writers

BeginWrite(p) == holder = p /\ writers = {} /\ writers' = {p} /\ UNCHANGED holder

EndWrite(p) == writers = {p} /\ writers' = {} /\ UNCHANGED holder

Next == Close \/ \E p \in Owners : Open(p) \/ BeginWrite(p) \/ EndWrite(p)

Spec == Init /\ [][Next]_vars
=============================================================================
