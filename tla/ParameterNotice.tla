-------------------------- MODULE ParameterNotice -------------------------
(***************************************************************************)
(* What a timelock promises to those who use the contract: a parameter     *)
(* that has a value gets another one only after that one has been public   *)
(* for Delay without interruption.  How announcements are stored, how many *)
(* may stand at a time and how they are withdrawn is left open.            *)
(***************************************************************************)
EXTENDS Integers

CONSTANTS Params, Values, Unset, Delay

VARIABLES
    value,      \* value in force of each parameter, or Unset
    notice      \* how long each value has been announced, at most Delay

Unannounced == -1

\* Announcements of p other than that of v stand or fall.
OthersStandOrFall(p, v) ==
    \A w \in Values \ {v} : notice'[p][w] \in {notice[p][w], Unannounced}

\* Nothing moves for the other parameters.
Only(p) ==
    \A q \in Params \ {p} : value'[q] = value[q] /\ notice'[q] = notice[q]

Init ==
    /\ value \in [Params -> Values \cup {Unset}]
    /\ notice = [p \in Params |-> [v \in Values |-> Unannounced]]

Announce(p, v) ==
    /\ value'[p] = value[p]
    /\ notice'[p][v] = 0
    /\ OthersStandOrFall(p, v)
    /\ Only(p)

\* A first value needs no notice.
TakeEffect(p, v) ==
    /\ value[p] = Unset \/ notice[p][v] = Delay
    /\ value'[p] = v
    /\ notice'[p][v] = Unannounced
    /\ OthersStandOrFall(p, v)
    /\ Only(p)

Elapse ==
    /\ value' = value
    /\ \A p \in Params, v \in Values :
           notice'[p][v] = IF notice[p][v] \in 0..(Delay - 1)
                           THEN notice[p][v] + 1 ELSE notice[p][v]

Next == Elapse \/ \E p \in Params, v \in Values : Announce(p, v) \/ TakeEffect(p, v)

Spec == Init /\ [][Next]_<<value, notice>>

=============================================================================
