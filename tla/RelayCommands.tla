----------------------------- MODULE RelayCommands -----------------------------
(***************************************************************************)
(* What the command path promises, with no store, no frames to lose and no *)
(* crash: a command is offered once or withdrawn, an offered command acts  *)
(* at most once and never after a newer one, the relay can always fall     *)
(* back to LOCKDOWN, and the Core believes only what happened.             *)
(* CommandLink implements this specification.                              *)
(***************************************************************************)
EXTENDS Integers, Sequences

CONSTANT Numbers  (* the sequence numbers a command may carry *)

Kinds == {"CUT_UPLINK", "RESTORE_UPLINK"}

VARIABLES
    offered,    (* commands the device may still be told to obey *)
    withdrawn,  (* numbers whose caller was told that nothing was sent *)
    obeyed,     (* numbers the relay obeyed, in order *)
    output,     (* the relay: LOCKDOWN or NORMAL *)
    believed    (* numbers the Core holds as carried out *)

rvars == <<offered, withdrawn, obeyed, output, believed>>

Obeyed == {obeyed[i] : i \in DOMAIN obeyed}

RInit ==
    /\ offered = {}
    /\ withdrawn = {}
    /\ obeyed = <<>>
    /\ output = "LOCKDOWN"
    /\ believed = {}

Offer(c) ==
    /\ c.seq \notin withdrawn
    /\ \A d \in offered : d.seq # c.seq
    /\ offered' = offered \cup {c}
    /\ UNCHANGED <<withdrawn, obeyed, output, believed>>

WithdrawNumber(n) ==
    /\ \A c \in offered : c.seq # n
    /\ withdrawn' = withdrawn \cup {n}
    /\ UNCHANGED <<offered, obeyed, output, believed>>

Obey(c) ==
    /\ \A n \in Obeyed : n < c.seq
    /\ obeyed' = Append(obeyed, c.seq)
    /\ output' = IF c.action = "CUT_UPLINK" THEN "LOCKDOWN" ELSE "NORMAL"
    /\ UNCHANGED <<offered, withdrawn, believed>>

Lock ==
    /\ output' = "LOCKDOWN"
    /\ UNCHANGED <<offered, withdrawn, obeyed, believed>>

Believe(n) ==
    /\ n \in Obeyed
    /\ believed' = believed \cup {n}
    /\ UNCHANGED <<offered, withdrawn, obeyed, output>>

RNext ==
    \/ \E c \in [seq : Numbers, action : Kinds] : Offer(c)
    \/ \E n \in Numbers : WithdrawNumber(n) \/ Believe(n)
    \/ \E c \in offered : Obey(c)
    \/ Lock

RSpec == RInit /\ [][RNext]_rvars
=============================================================================
