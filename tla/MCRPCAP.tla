------------------------------ MODULE MCRPCAP ------------------------------
(* RPCAPSession with the four ways of carrying a capture.                  *)
EXTENDS RPCAPSession

Capture(active, udp, norpcap, samp) ==
    [active |-> active, udp |-> udp, norpcap |-> norpcap, samp |-> samp]

MCModes == {Capture(FALSE, FALSE, TRUE, TRUE), Capture(FALSE, TRUE, FALSE, FALSE),
            Capture(TRUE, FALSE, FALSE, FALSE), Capture(TRUE, TRUE, FALSE, TRUE)}
=============================================================================
