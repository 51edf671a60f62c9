----------------------------- MODULE DataGuard -----------------------------
(***************************************************************************)
(* What the panel promises about the files of a server: they belong either *)
(* to the running server or to one operation of the panel (a backup, a     *)
(* restore, an installation, a world edit), never to both and never to two *)
(* operations.  ServerLifecycle implements this with the lifecycle mutex,  *)
(* the world lock and the inspections of the container.                    *)
(***************************************************************************)
EXTENDS Naturals

CONSTANT Users   \* the goroutines of the panel

VARIABLES
    up,     \* the server runs
    using   \* the operations that read or write its files

gvars == <<up, using>>

Init == up \in BOOLEAN /\ using = {}

Boot == ~up /\ using = {} /\ up' = TRUE /\ UNCHANGED using

Halt == up /\ up' = FALSE /\ UNCHANGED using

Open(u) == ~up /\ using = {} /\ using' = {u} /\ UNCHANGED up

\* An operation ends, or all of them are lost with the panel process.
Close == using # {} /\ using' = {} /\ UNCHANGED up

Next == Boot \/ Halt \/ (\E u \in Users : Open(u)) \/ Close

Spec == Init /\ [][Next]_gvars

\* The promise as an invariant of this specification.
Exclusive == ~(up /\ using # {})
=============================================================================
