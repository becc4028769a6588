--------------------------- MODULE PurchaseStates ---------------------------
(***************************************************************************)
(* The purchase state machine: the states a purchase job passes through,   *)
(* the table of legal moves between them, and the classes of states that   *)
(* the rest of the program asks about.  Re-entering a state is not in the  *)
(* table: callers treat it as a move that changes nothing.                 *)
(***************************************************************************)

(* The steps that lead a purchase up to the order, in order. *)
PreparingStates ==
    {"created", "product_check", "rule_validation", "cart_preparation",
     "checkout", "final_validation", "awaiting_confirmation"}

TerminalStates == {"confirmed", "blocked", "failed", "cancelled"}

(* States that hold the product's single purchase slot. *)
LiveStates ==
    PreparingStates \cup {"submitting", "confirming", "needs_user", "unknown"}

States == LiveStates \cup TerminalStates

(* An order might exist on Amazon: nothing may claim the opposite. *)
OrderMayExist == {"submitting", "confirming", "confirmed", "unknown"}

(* Where a submission may begin, and where it may be recorded. *)
SubmitEntryStates == {"final_validation", "awaiting_confirmation"}
SubmitRecordStates == SubmitEntryStates \cup {"submitting"}

(* Where a job that has not finished may always be diverted to. *)
Diversions == {"blocked", "failed", "needs_user", "cancelled", "unknown"}

(* The next step of the sequence, for the states that have one. *)
Advances ==
    [created               |-> {"product_check"},
     product_check         |-> {"rule_validation"},
     rule_validation       |-> {"cart_preparation"},
     cart_preparation      |-> {"checkout"},
     checkout              |-> {"final_validation"},
     final_validation      |-> {"awaiting_confirmation", "submitting"},
     awaiting_confirmation |-> {"submitting", "final_validation"}]

AllowedTransitions ==
    [s \in States |->
        CASE s \in PreparingStates -> Diversions \cup Advances[s]
          [] s = "submitting" -> {"confirming", "unknown", "failed"}
          [] s = "confirming" -> {"confirmed", "unknown", "failed"}
          [] s = "needs_user" ->
                (Diversions \cup PreparingStates) \ {"needs_user", "created"}
          [] s = "unknown"    -> {"confirmed", "failed"}
          [] s \in TerminalStates -> {}]

(* assert_transition lets the move through, or it is the no-op self move. *)
CanMove(from, to) == from = to \/ to \in AllowedTransitions[from]
=============================================================================
