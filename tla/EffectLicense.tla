--------------------------- MODULE EffectLicense ---------------------------
(***************************************************************************)
(* What the durable execution ledger promises, with the ledger abstracted  *)
(* away: for every execution intent there is one licence to produce its    *)
(* external effect.  An execution acquires it under a ticket it has never  *)
(* used for that intent, and gives it back only when its own settled       *)
(* record says that repeating the intent is safe; otherwise the licence is *)
(* spent, for ever.                                                        *)
(*                                                                         *)
(* ExecutionLedger implements this specification: see                      *)
(* ExecutionLedger!LicenseSpec for the refinement mapping.                 *)
(***************************************************************************)
EXTENDS FiniteSets

CONSTANTS Intent, Ticket

VARIABLES holder,   \* holder[i]: "free", "held" or "spent"
          used      \* used[i]: the tickets intent i was ever executed under

licenseVars == <<holder, used>>

LicenseTypeOK ==
    /\ holder \in [Intent -> {"free", "held", "spent"}]
    /\ used \in [Intent -> SUBSET Ticket]

LicenseInit ==
    /\ holder = [i \in Intent |-> "free"]
    /\ used = [i \in Intent |-> {}]

(* One execution takes the licence of an intent under a fresh ticket. *)
Acquire(i, t) ==
    /\ holder[i] = "free"
    /\ t \notin used[i]
    /\ holder' = [holder EXCEPT ![i] = "held"]
    /\ used' = [used EXCEPT ![i] = @ \cup {t}]

(* The holder settled on a basis that permits another attempt. *)
GiveBack(i) ==
    /\ holder[i] = "held"
    /\ holder' = [holder EXCEPT ![i] = "free"]
    /\ UNCHANGED used

(* The holder settled on any other basis: nobody may act on the intent again. *)
Spend(i) ==
    /\ holder[i] = "held"
    /\ holder' = [holder EXCEPT ![i] = "spent"]
    /\ UNCHANGED used

LicenseNext ==
    \E i \in Intent :
        \/ \E t \in Ticket : Acquire(i, t)
        \/ GiveBack(i)
        \/ Spend(i)

LicenseSpec == LicenseInit /\ [][LicenseNext]_licenseVars
=============================================================================
