----------------------------- MODULE MCHeldMode -----------------------------
(***************************************************************************)
(* HeldMode for TLC: the modes, and what other programs change.            *)
(***************************************************************************)
EXTENDS HeldMode

AllModes == SUBSET Bits
SomeModes == {{"uw"}, {"gw", "gx"}, {"uw", "gw", "gx", "ow", "ox"}, {"uw", "gx", "ow"}}
Everything == {"mode", "acl", "mounts", "owner"}
=============================================================================
