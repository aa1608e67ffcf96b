---------------------------- MODULE MCStreamLink ----------------------------
(* Constants for the runs of StreamLink.                                   *)
EXTENDS StreamLink

CONSTANTS o1, o2, d1, d2

\* A stereo stream and a stereo device.
StereoOwn    == <<o1, o2>>
StereoDevice == <<d1, d2>>
============================================================================
