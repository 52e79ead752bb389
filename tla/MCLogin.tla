------------------------------- MODULE MCLogin --------------------------------
(***************************************************************************)
(* The login of one browser with two tabs, and of another device.          *)
(***************************************************************************)
EXTENDS Session, TLC

\* A call and a logout of the first tab.
TabOfCalls == "c1" :> "t1" @@ "l1" :> "t1"
=============================================================================
