------------------------------- MODULE MCRtc -------------------------------
(* Instances of Rtc for TLC. *)
EXTENDS Rtc

MCDevices == Irqs
MCFreqs == {3, 1024}
=============================================================================
