------------------------------ MODULE MCSetup ------------------------------
(* Values for CallSetup alone: a book of two, and a wire that is too short   *)
(* both ways for the start-up sound.                                         *)
EXTENDS CallSetup, TLC

TheBook ==
    <<[name |-> "jeff", inetAddress |-> "10.0.0.10"],
      [name |-> "rulai", inetAddress |-> "10.0.0.20"]>>

BothInTheBook == {(Caller :> "10.0.0.20") @@ (Callee :> "10.0.0.10")}

BothShort == [p \in Phones |-> NUM_BUFFERS - 1]
=============================================================================
