------------------------------ MODULE Lockout ------------------------------
(***************************************************************************)
(* What disabling a user promises, whatever the tokens look like: nobody   *)
(* gets in while barred.  Who is in already may stay (tokens are not       *)
(* revoked) but, once out, comes back only after being admitted again.     *)
(***************************************************************************)
CONSTANT Users
VARIABLES barred,   \* users disabled in the table
          inside    \* users with a way to pass an authentication check

Init == barred \subseteq Users /\ inside = {}

\* The operator changes the table.
Rule == barred' \subseteq Users /\ UNCHANGED inside

\* A login succeeds.
Enter(u) == u \notin barred /\ inside' = inside \cup {u} /\ UNCHANGED barred

\* Tokens expire, are replaced or get lost.
Leave == inside' \subseteq inside /\ UNCHANGED barred

Next == Rule \/ Leave \/ \E u \in Users : Enter(u)
Spec == Init /\ [][Next]_<<barred, inside>>
=============================================================================
