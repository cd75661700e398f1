--------------------------- MODULE MCCartAccess ---------------------------
(* Instances of CartAccess for TLC. *)
EXTENDS CartAccess, TLC

\* service.go:223-225: "Seed params from the current cart values so that unset
\* fields in the patch leave the DB row unchanged."
UnsetFieldsLeftUnchanged ==
  [][\A r \in Requests :
       req[r].pc = "update" /\ req'[r].pc = "ok" =>
         LET c == req[r].cart  p == req[r].patch IN
         /\ p.title = None => row'[c].title = row[c].title
         /\ p.visibility = None => row'[c].visibility = row[c].visibility]_vars
=============================================================================
