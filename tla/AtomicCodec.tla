---------------------------- MODULE AtomicCodec ----------------------------
(***************************************************************************)
(* What the free list's callers are promised: each goroutine's call moves  *)
(* its own values, in order and whole, whatever other calls run; and it    *)
(* returns an error exactly if it moved fewer values than it was given.    *)
(***************************************************************************)
EXTENDS Naturals, Sequences

CONSTANTS
    Goroutines,
    Values

VARIABLES
    elements,   \* what the goroutine's last call was to move
    out,        \* what reached its writer, or its caller for a read
    status      \* "running", "ok" or "failed"

cvars == <<elements, out, status>>

CInit ==
    /\ elements = [g \in Goroutines |-> <<>>]
    /\ out = [g \in Goroutines |-> <<>>]
    /\ status = [g \in Goroutines |-> "ok"]

CBegin(g) ==
    /\ status[g] # "running"
    /\ elements' = [elements EXCEPT ![g] = elements'[g]]
    /\ elements'[g] \in Seq(Values)
    /\ out' = [out EXCEPT ![g] = <<>>]
    /\ status' = [status EXCEPT ![g] = "running"]

CMove(g) ==
    /\ status[g] = "running"
    /\ Len(out[g]) < Len(elements[g])
    /\ out' = [out EXCEPT ![g] = Append(@, elements[g][Len(@) + 1])]
    /\ UNCHANGED <<elements, status>>

CEnd(g) ==
    /\ status[g] = "running"
    /\ status' = [status EXCEPT ![g] = IF Len(out[g]) = Len(elements[g]) THEN "ok" ELSE "failed"]
    /\ UNCHANGED <<elements, out>>

CNext == \E g \in Goroutines : CBegin(g) \/ CMove(g) \/ CEnd(g)

CSpec == CInit /\ [][CNext]_cvars
=============================================================================
