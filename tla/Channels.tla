------------------------------ MODULE Channels ------------------------------
(* What the forwarder's two halves share: the RADIUS channels, each with a *)
(* socket and an identifier space of its own, and nil.                     *)
CONSTANT None
Channel == {"auth", "acct"}
=============================================================================
