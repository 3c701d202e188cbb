------------------------------- MODULE MCBilling -------------------------------
(* Billing with limits of one and two rows. *)
EXTENDS Billing, TLC

CONSTANTS pay1, pay2, r1, r2

MCLimit == ("FREE" :> 1) @@ ("PRO" :> 2) @@ ("ENTERPRISE" :> Unlimited)
=============================================================================
