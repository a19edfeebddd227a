----------------------------- MODULE DurableStore -----------------------------
(***************************************************************************)
(* What a database promises of the writes it has acknowledged: a write     *)
(* that asked for a sync outlives everything, any other outlives the       *)
(* process but not the machine, and nothing appears that was not written.  *)
(***************************************************************************)
CONSTANT Batches

VARIABLES
  store,   \* the batches an opened database would show
  acked,   \* those whose write returned and that no machine crash has put at risk
  synced   \* those whose write returned and had asked for a sync

vars == <<store, acked, synced>>

Init == store = {} /\ acked = {} /\ synced = {}

Write(b) == b \notin store /\ store' = store \union {b} /\ UNCHANGED <<acked, synced>>

Acknowledge(b) ==
  /\ b \in store /\ acked' = acked \union {b}
  /\ synced' \in {synced, synced \union {b}}
  /\ UNCHANGED store

\* The machine stops: what had not been synced may go, in any combination.
MachineCrash ==
  /\ store' \in SUBSET store /\ synced \subseteq store'
  /\ acked' = synced
  /\ UNCHANGED synced

Next == MachineCrash \/ \E b \in Batches : Write(b) \/ Acknowledge(b)

Spec == Init /\ [][Next]_vars
===============================================================================
