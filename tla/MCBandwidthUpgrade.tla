------------------------- MODULE MCBandwidthUpgrade -------------------------
(* BandwidthUpgrade for TLC. *)
EXTENDS BandwidthUpgrade, TLC

OneMedium == <<2>>
=============================================================================
