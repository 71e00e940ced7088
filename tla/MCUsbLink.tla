----------------------------- MODULE MCUsbLink -----------------------------
(***************************************************************************)
(* The serial link with packets of two bytes.                              *)
(***************************************************************************)
EXTENDS UsbLink

mcHello == <<0, 2>>
mcRequest == <<3, 3, 3, 1>>
mcFrames == {mcHello, mcRequest}
mcProbe == <<3, 2, 3, 1>>

Req(r, v, n) == [r |-> r, v |-> v, n |-> n]
Configure == Req("CONFIGURATION", 1, 0)
HaltRequests == {Req("HALT_IN", 1, 0), Req("HALT_IN", 0, 0), Req("HALT_OUT", 1, 0), Req("HALT_OUT", 0, 0)}
ControlRequests ==
    {Configure, Req("CONFIGURATION", 0, 0), Req("ADDRESS", 5, 0), Req("LINE", 0, 7),
     Req("DESCRIPTOR", 4, 5), Req("DESCRIPTOR", 4, 4), Req("DESCRIPTOR", 3, 5), Req("DESCRIPTOR", 5, 2),
     Req("PLAIN", 0, 0), Req("UNKNOWN", 0, 0)}

Budget(frames, probes, losses, setups, requests) ==
    [frames |-> frames, probes |-> probes, losses |-> losses, setups |-> setups, requests |-> requests]
\* Traffic with a suspension that may cut a frame between two others; a reset and a new
\* configuration; bytes of another program; halts; control transfers.
mcBudgets ==
    {Budget(3, 0, 1, 1, {Configure}), Budget(2, 0, 1, 2, {Configure}), Budget(1, 1, 1, 1, {Configure}),
     Budget(1, 2, 0, 1, {Configure}), Budget(1, 0, 0, 3, {Configure} \cup HaltRequests),
     Budget(0, 0, 0, 3, ControlRequests), Budget(0, 0, 1, 2, ControlRequests)}
=============================================================================
