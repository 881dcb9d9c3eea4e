---------------------------- MODULE MCInspection ----------------------------
(* A small instance of Inspection: one camera, requests for the road and for *)
(* the plates, one kind of risk, seen surely, twice, or faintly.             *)
EXTENDS Inspection, TLC

CONSTANTS m1, m2

Tasks == Permutations(Loops)

Sure(copy) == [risk |-> "crack", sure |-> TRUE, copy |-> copy]
Faint == [risk |-> "crack", sure |-> FALSE, copy |-> 1]

MCFinds(m) == IF m = "unified" THEN {{}, {Sure(1), Sure(2)}, {Faint}} ELSE {{}}

Road == [camera |-> "usb_cam", models |-> <<"crack", "fod">>]
MCRequests == {Road}
MCResultRequests == {[camera |-> "usb_cam", models |-> <<"plate", "smoke">>]}

Setup(download, upload, deleteAfter, sameHost) ==
    [download |-> download, upload |-> upload, deleteAfter |-> deleteAfter, sameHost |-> sameHost]
Minute == [minutes |-> 1, crashes |-> 0]
OneCrash == [minutes |-> 0, crashes |-> 1]

\* As the settings come, on one host and on two, and with pictures downloaded.
MCCases == {<<Setup(FALSE, TRUE, TRUE, TRUE), OneCrash>>,
            <<Setup(FALSE, TRUE, TRUE, FALSE), Minute>>,
            <<Setup(TRUE, TRUE, FALSE, FALSE), Minute>>}
=============================================================================
