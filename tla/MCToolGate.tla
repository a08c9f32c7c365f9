----------------------------- MODULE MCToolGate -----------------------------
(***************************************************************************)
(* Instances of ToolGate for TLC.                                           *)
(***************************************************************************)
EXTENDS ToolGate

SomePolicies == {AllowAll, DenyAll, RequireForEffects,
                 RequireFor({"notify"}), RequireFor({"write_file"}), RequireFor(Tools)}
=============================================================================
