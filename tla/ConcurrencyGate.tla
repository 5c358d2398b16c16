--------------------------- MODULE ConcurrencyGate ---------------------------
(***************************************************************************)
(* What the concurrency limiter promises its callers, without the counter: *)
(* whether an arrival waits is decided by counting who is inside, and the  *)
(* place of a run that leaves is handed to whoever has waited longest.     *)
(* ConcurrencyControl implements this gate, once per queue type.           *)
(***************************************************************************)
EXTENDS Integers, Sequences, FiniteSets

CONSTANTS Runs, Executions, Types, Places

VARIABLES line, inside     \* per type: the runs waiting in order, the runs let through

gateVars == <<line, inside>>

GateInit ==
    /\ line = [t \in Types |-> << >>]
    /\ inside = [t \in Types |-> {}]

\* The first of `rest` goes in, if there is one.
LetNextIn(t, rest, in) ==
    \/ /\ rest = << >>
       /\ line' = [line EXCEPT ![t] = rest]
       /\ inside' = [inside EXCEPT ![t] = in]
    \/ /\ rest # << >>
       /\ line' = [line EXCEPT ![t] = Tail(rest)]
       /\ inside' = [inside EXCEPT ![t] = in \cup {Head(rest).run}]

Enter(t, r) ==
    /\ Cardinality(inside[t]) < Places[t]
    /\ inside' = [inside EXCEPT ![t] = @ \cup {r}]
    /\ UNCHANGED line

Join(t, r, e) ==
    /\ Cardinality(inside[t]) >= Places[t]
    /\ line' = [line EXCEPT ![t] = Append(@, [executionId |-> e, run |-> r])]
    /\ UNCHANGED inside

Leave(t, r) ==
    /\ r \in inside[t]
    /\ LetNextIn(t, line[t], inside[t] \ {r})

\* One waiting run gives up.  The gate may admit another in exchange: this is
\* where the limit is exceeded.
GiveUp(t) ==
    \E i \in 1..Len(line[t]) :
        LetNextIn(t, SubSeq(line[t], 1, i - 1) \o SubSeq(line[t], i + 1, Len(line[t])), inside[t])

GateNext ==
    \E t \in Types :
        \/ \E r \in Runs : Enter(t, r) \/ Leave(t, r) \/ \E e \in Executions : Join(t, r, e)
        \/ GiveUp(t)

GateSpec == GateInit /\ [][GateNext]_gateVars
=============================================================================
