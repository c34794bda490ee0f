---------------------------- MODULE MCDatasetFiles ----------------------------
(***************************************************************************)
(* Requests that accept rules share nothing with retention, so the two are *)
(* not multiplied with each other: a state constraint keeps to one or the  *)
(* other.                                                                  *)
(***************************************************************************)
EXTENDS DatasetFiles

CONSTANT Reader    \* the request that is for rows

\* One audit and requests that accept rules; or, over a path of the operator's, as many
\* audits as there are and a request for rows.
InScope ==
    \/ /\ \A r \in Runs \ {1} : audit[r] = "none"
       /\ \A h \in Requests : reader[h] = IdleReader
       /\ expired = 0
    \/ /\ source \in {"none", "operator"}
       /\ \A h \in Requests : accept[h] = IdleAccept /\ (h # Reader => reader[h] = IdleReader)
===============================================================================
