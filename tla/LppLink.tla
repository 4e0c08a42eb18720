------------------------------ MODULE LppLink ------------------------------
(***************************************************************************)
(* What the users of lpp::Session may rely on about its connection: the    *)
(* specification that the connection state machine (LppSession) and the    *)
(* sending side (LppTransactions) both implement.  A connection is made,   *)
(* goes through the SUPL handshake, carries the POSINIT and is then        *)
(* established; it can break at any point, and only a connection that has  *)
(* been torn down is followed by another.                                  *)
(***************************************************************************)
VARIABLE link

Links == {"null", "connecting", "handshake", "established", "broken"}

Init == link = "null"

Begin     == link = "null" /\ link' \in {"connecting", "broken"}
Connected == link = "connecting" /\ link' = "handshake"
Establish == link = "handshake" /\ link' = "established"
Break     == link # "null" /\ link' = "broken"
TearDown  == link # "null" /\ link' = "null"

Next == Begin \/ Connected \/ Establish \/ Break \/ TearDown

Spec == Init /\ [][Next]_link
============================================================================
