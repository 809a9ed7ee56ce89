------------------------------ MODULE Timelock ----------------------------
(***************************************************************************)
(* The peridottroller's delayed changes: set_close_factor,                 *)
(* set_liquidation_incentive, set_market_cf and set_oracle, which hold one *)
(* pending value and the time from which it may be applied, and the        *)
(* proposal and application of new contract code.  The setters' code is    *)
(* the same for each parameter, but for a first value, which the oracle    *)
(* and a market's collateral factor take at once.  Values are those that   *)
(* pass the setters' range checks; only the admin calls.                   *)
(***************************************************************************)
EXTENDS Integers

CONSTANTS
    Settings,       \* parameters with a delayed setter
    FirstAtOnce,    \* those whose first value needs no delay
    Code,           \* the contract's code, changed by an upgrade
    Values,
    Unset,          \* no value yet
    None,           \* nothing pending
    Delay           \* ADMIN_PARAM_CHANGE_DELAY_SECS and UPGRADE_TIMELOCK_SECS

Params == Settings \cup {Code}

ASSUME TimelockAssumption ==
    /\ FirstAtOnce \subseteq Settings /\ Code \notin Settings
    /\ Unset \notin Values /\ None \notin Values
    /\ Delay \in Nat

VARIABLES
    value,      \* value in force
    pending,    \* pending value, or None
    wait        \* what is left until the pending value's execute_after

vars == <<value, pending, wait>>

TypeOK ==
    /\ value \in [Params -> Values \cup {Unset}]
    /\ \A p \in Params \ FirstAtOnce : value[p] # Unset
    /\ pending \in [Params -> Values \cup {None}]
    /\ wait \in [Params -> 0..Delay]

-----------------------------------------------------------------------------
(* Setters *)

\* The first value of a parameter replaces whatever was pending.
SetFirst(p, v) ==
    /\ p \in FirstAtOnce
    /\ value[p] = Unset
    /\ value' = [value EXCEPT ![p] = v]
    /\ pending' = [pending EXCEPT ![p] = None]
    /\ wait' = [wait EXCEPT ![p] = 0]

\* A bug in scheduling: a pending value is swapped and its clock goes on.
SwapPending(p, v) ==
    /\ value[p] \notin {Unset, v}
    /\ pending[p] # v
    /\ pending' = [pending EXCEPT ![p] = v]
    /\ wait' = [wait EXCEPT ![p] = IF pending[p] = None THEN Delay ELSE @]
    /\ UNCHANGED value

\* Another value than the one in force and the one pending: it becomes the
\* pending one and waits for the whole delay.  Naming the value in force
\* returns at once and leaves the pending one where it is.
Schedule(p, v) ==
    /\ value[p] \notin {Unset, v}
    /\ pending[p] # v
    /\ pending' = [pending EXCEPT ![p] = v]
    /\ wait' = [wait EXCEPT ![p] = Delay]
    /\ UNCHANGED value

\* A bug in applying: the pending value is not compared with the one named.
ApplyAnother(p, v) ==
    /\ value[p] \notin {Unset, v}
    /\ pending[p] # None
    /\ wait[p] = 0
    /\ value' = [value EXCEPT ![p] = v]
    /\ pending' = [pending EXCEPT ![p] = None]
    /\ UNCHANGED wait

\* The pending value named again once its time has come; before, the call fails.
Apply(p, v) ==
    /\ value[p] \notin {Unset, v}
    /\ pending[p] = v
    /\ wait[p] = 0
    /\ value' = [value EXCEPT ![p] = v]
    /\ pending' = [pending EXCEPT ![p] = None]
    /\ UNCHANGED wait

-----------------------------------------------------------------------------
(* Code *)

\* A proposal starts the delay, also when it repeats the pending one.
ProposeUpgrade(v) ==
    /\ pending' = [pending EXCEPT ![Code] = v]
    /\ wait' = [wait EXCEPT ![Code] = Delay]
    /\ UNCHANGED value

Upgrade(v) ==
    /\ pending[Code] = v
    /\ wait[Code] = 0
    /\ value' = [value EXCEPT ![Code] = v]
    /\ pending' = [pending EXCEPT ![Code] = None]
    /\ UNCHANGED wait

-----------------------------------------------------------------------------
(* The system *)

Tick ==
    /\ wait' = [p \in Params |-> IF wait[p] > 0 THEN wait[p] - 1 ELSE 0]
    /\ UNCHANGED <<value, pending>>

\* initialize gives every parameter a value but those set for the first time later.
Init ==
    /\ value \in [Params -> Values \cup {Unset}]
    /\ \A p \in Params : value[p] = Unset <=> p \in FirstAtOnce
    /\ pending = [p \in Params |-> None]
    /\ wait = [p \in Params |-> 0]

Next ==
    \/ Tick
    \/ \E p \in Settings, v \in Values : SetFirst(p, v) \/ Schedule(p, v) \/ Apply(p, v)
    \/ \E v \in Values : ProposeUpgrade(v) \/ Upgrade(v)

Spec == Init /\ [][Next]_vars

-----------------------------------------------------------------------------
(* Properties *)

\* How long a value has been announced, in terms of the pending one.
NoticeOf(p, v) == IF pending[p] = v THEN Delay - wait[p] ELSE -1

Notice == INSTANCE ParameterNotice
    WITH notice <- [p \in Params |-> [v \in Values |-> NoticeOf(p, v)]]

\* The setters and the upgrade keep the promise of ParameterNotice: no parameter
\* changes to a value that was not the announced one for the whole last Delay,
\* whatever was scheduled, replaced or applied before (set_close_factor and the
\* like, propose_upgrade_wasm, upgrade_wasm).
GivesNotice == Notice!Spec

=============================================================================
