--------------------------- MODULE CommandLedger ----------------------------
(***************************************************************************)
(* What OrchestrationEngineService promises about a command, free of the   *)
(* queue, the receipts and the read model that keep the promise: however   *)
(* often a command id is dispatched, its events enter the event log        *)
(* together and at most once, a command refused for good never enters it,  *)
(* and nobody is told otherwise.  OrchestrationEngine implements this      *)
(* module.                                                                 *)
(***************************************************************************)
EXTENDS Naturals, Sequences

CONSTANTS Commands,  \* command ids
          MaxBatch   \* the largest number of events of one command

VARIABLES ledger,  \* per persisted event, the command it belongs to
          refused, \* commands refused for good
          told     \* pairs of a command and what a caller was told of it

vars == <<ledger, refused, told>>

Entered == {ledger[i] : i \in DOMAIN ledger}

Init == /\ Entered \cap Commands = {}
        /\ refused = {}
        /\ told = {}

Enter(c) == /\ c \notin Entered \cup refused
            /\ \E n \in 1..MaxBatch : ledger' = ledger \o [i \in 1..n |-> c]
            /\ UNCHANGED <<refused, told>>

Refuse(c) == /\ c \notin Entered
             /\ refused' = refused \cup {c}
             /\ UNCHANGED <<ledger, told>>

TellAccepted(c) == /\ c \in Entered
                   /\ told' = told \cup {<<c, "accepted">>}
                   /\ UNCHANGED <<ledger, refused>>

\* Refused on this occasion: the command has not entered, and may never enter.
TellRejected(c) == /\ c \notin Entered
                   /\ told' = told \cup {<<c, "rejected">>}
                   /\ UNCHANGED <<ledger, refused>>

TellRefused(c) == /\ c \in refused
                  /\ told' = told \cup {<<c, "previously rejected">>}
                  /\ UNCHANGED <<ledger, refused>>

\* An error that leaves the caller in doubt.
TellFailed(c) == /\ told' = told \cup {<<c, "failed">>}
                 /\ UNCHANGED <<ledger, refused>>

Next == \E c \in Commands :
  \/ Enter(c) \/ Refuse(c)
  \/ TellAccepted(c) \/ TellRejected(c) \/ TellRefused(c) \/ TellFailed(c)

Spec == Init /\ [][Next]_vars
=============================================================================
