------------------------------- MODULE MCRtc -------------------------------
(* Instances of Rtc for TLC.                                               *)
EXTENDS Rtc

\* Powers of two, odd numbers, and numbers out of range on either side
PlainFreqs == {-2, 0, 1, 2, 7, 64, 1024, 1025, 2048}
=============================================================================
