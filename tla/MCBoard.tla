------------------------------ MODULE MCBoard ------------------------------
(* Values for Board: a book of two, the caller's direction of the wire too   *)
(* short for what is sent before the first frame is received.                *)
EXTENDS Board, TLC

TheBook ==
    <<[name |-> "jeff", inetAddress |-> "10.0.0.10"],
      [name |-> "rulai", inetAddress |-> "10.0.0.20"]>>

\* The caller is in the book, or a stranger.
TheAddresses ==
    {(Caller :> ip) @@ (Callee :> "10.0.0.10") : ip \in {"10.0.0.20", "10.0.0.99"}}

TheCapacity == (Caller :> Lead - 1) @@ (Callee :> Lead)
=============================================================================
