----------------------------- MODULE TableReplace -----------------------------
(***************************************************************************)
(* What "replace a table" (spec 4.5: "replace multicast/unicast static-    *)
(* forward tables") promises while it runs, not only when it ends: entries *)
(* only leave the table until it holds declared entries alone, and from    *)
(* then on only declared entries are written. The device never forwards   *)
(* on a mixture of a stale entry and a newly written one.                  *)
(*                                                                         *)
(* A failure may stop the replacement at any point: that is stuttering.    *)
(***************************************************************************)
VARIABLES
    tbl,    \* the entries the device holds
    want    \* the entries the replacement writes (never changes)

absVars == <<tbl, want>>

\* Any table may be found on the device, any rows may be declared.
Init == TRUE

\* An entry is removed.
Drop(e) ==
    /\ e \in tbl
    /\ tbl' = tbl \ {e}
    /\ UNCHANGED want

\* A declared entry is written, once no stale entry is left.
Write(e) ==
    /\ e \in want
    /\ tbl \subseteq want
    /\ tbl' = tbl \cup {e}
    /\ UNCHANGED want

Next == \E e \in tbl \cup want : Drop(e) \/ Write(e)

Spec == Init /\ [][Next]_absVars
====
