--------------------------- MODULE MCWeChatAccount ---------------------------
(***************************************************************************)
(* An instance of WeChatAccount for TLC.                                   *)
(***************************************************************************)
EXTENDS WeChatAccount, FiniteSets

\* One of a login that expires, a crash and a logout; and the marks of the first
\* message only lapse by themselves.
OneEvent ==
    /\ expiries + crashes + (IF logout = "idle" THEN 0 ELSE 1) <= 1
    /\ \A m \in Messages \ {1} : forgotten[m] <= crashes
=============================================================================
