------------------------------ MODULE MCLease ------------------------------
(* An instance of CredentialLease: a bound tool that writes an issue, a    *)
(* bound tool that does not and an unbound one that does.  seed_demo binds *)
(* to gateway_header only; one binding asks for process_env here.  Calls   *)
(* are interchangeable.                                                    *)
EXTENDS CredentialLease, TLC

CONSTANTS create_issue, search_messages, unbound

MCInjectionMode == create_issue :> "gateway_header" @@ search_messages :> "process_env"

Symmetry == Permutations(Calls)
=============================================================================
