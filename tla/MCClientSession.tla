--------------------------- MODULE MCClientSession ---------------------------
(* One slot is a browser that does one thing at a time; two slots of one   *)
(* tab are two queries of one screen.                                      *)
EXTENDS ClientSession

CONSTANTS t1, c1, c2, ann, bob

OneTab == {t1}
OneCall == {c1}
TwoCalls == {c1, c2}
TwoUsers == {ann, bob}
OneCallTab == [c \in {c1} |-> t1]
TwoCallsTab == [c \in {c1, c2} |-> t1]
=============================================================================
